--------------------------- MODULE EventLogProofs ---------------------------
(***************************************************************************)
(* What the event log tells of routes, for any numbers of clients, inputs  *)
(* and outputs, of events, lost nodes and restarts: a route the core has   *)
(* set is never logged as failed, and the panel misses a final event only  *)
(* if another had moved its highest number past it.                        *)
(***************************************************************************)
EXTENDS EventLog, TLAPS, WellFoundedInduction

-----------------------------------------------------------------------------
(* The inductive invariant.                                                *)

\* The event of a command is of the route it asks for, and no second has passed but
\* one since it was written.
Fits(es, c) ==
  /\ c.event \in 1 .. Len(es)
  /\ es[c.event].type = "R" /\ es[c.event].route = <<c.output, c.input>>
  /\ c.output \in Slot /\ c.input \in Slot \cup {Off}
  /\ es[c.event].age <= 1

\* The same of what the node has still to report.
Tells(es, r) ==
  /\ r.event \in 1 .. Len(es)
  /\ es[r.event].type = "R" /\ es[r.event].route[1] = r.output
  /\ r.stream = StreamFor(es[r.event].route[2])
  /\ es[r.event].age <= 1

\* Event i is of a route to output o between ends that have slots.
Holds(es, o, i) ==
  /\ i \in 1 .. Len(es)
  /\ es[i].type = "R" /\ es[i].route[1] = o
  /\ o \in Slot /\ es[i].route[2] \in Slot \cup {Off}

\* The last report on its way for an output.
IsLast(o, k) ==
  /\ k \in 1 .. Len(node) /\ node[k].output = o
  /\ \A j \in k + 1 .. Len(node) : node[j].output # o

NoReport(o) == \A k \in 1 .. Len(node) : node[k].output # o

CommandsFit  == \A c \in Client : \A k \in 1 .. Len(ipc[c]) : Fits(events, ipc[c][k])
ReportsTell  == \A k \in 1 .. Len(node) : Tells(events, node[k])
ObeyedHolds  == \A o \in Output : obeyed[o] # 0 => online /\ Holds(events, o, obeyed[o])
LastReported == \A o \in Output : \A k \in 1 .. Len(node) :
                  IsLast(o, k) => node[k].event = obeyed[o]
Reported     == \A o \in Output : obeyed[o] # 0 /\ NoReport(o)
                  => table[o] = StreamFor(events[obeyed[o]].route[2])

\* What the core obeyed last for an output is in the table or on its way there.
RouteInv == CommandsFit /\ ReportsTell /\ ObeyedHolds /\ LastReported /\ Reported

AgesFall == \A i, j \in Id : i < j => events[i].age >= events[j].age

\* Route events become final in the order of their numbers.
InOrder == \A i, j \in Id : i < j /\ events[j].type = "R" /\ Final(j) => Final(i)

\* What is not listed has been overtaken, whether it is final yet or not.
Overtaken == \A i \in Id : i <= maxId /\ i \notin shown
               => \E j \in i + 1 .. maxId : events[j].type # "R"

LogInv == AgesFall /\ InOrder /\ Overtaken

IInv == TypeOK /\ RouteInv /\ LogInv

-----------------------------------------------------------------------------
(* Numbers, sequences and events.                                          *)

\* A bounded set of numbers has a highest member.
LEMMA MaxFacts ==
  ASSUME NEW n \in Nat, NEW S, S \subseteq 0 .. n, S # {}
  PROVE  Max(S) \in S /\ \A x \in S : Max(S) >= x
<1> DEFINE T == {n - x : x \in S}
           R == OpToRel(<, Nat)
<1>1. T \subseteq Nat
  OBVIOUS
<1>2. T # {}
  <2>1. PICK x \in S : TRUE
    OBVIOUS
  <2>2. n - x \in T
    BY <2>1
  <2> QED BY <2>2
<1>3. IsWellFoundedOn(R, Nat)
  BY NatLessThanWellFounded
<1>4. PICK t \in T : \A y \in T : <<y, t>> \notin R
  <2> HIDE DEF T, R
  <2> QED BY <1>1, <1>2, <1>3, WFMin
<1>5. \A y \in T : ~(y < t)
  BY <1>1, <1>4 DEF OpToRel
<1>6. PICK x \in S : t = n - x
  OBVIOUS
<1>7. \A y \in S : x >= y
  <2> TAKE y \in S
  <2>1. n - y \in T
    OBVIOUS
  <2>2. ~(n - y < n - x)
    BY <1>5, <1>6, <2>1
  <2> HIDE DEF T, R
  <2>3. x \in 0 .. n /\ y \in 0 .. n
    OBVIOUS
  <2> QED BY <2>2, <2>3
<1> HIDE DEF T, R
<1> QED BY <1>7 DEF Max

\* What is appended to a sequence is its last member.
LEMMA AppendFacts ==
  ASSUME NEW S, NEW s \in Seq(S), NEW e \in S
  PROVE  /\ Append(s, e) \in Seq(S)
         /\ Len(Append(s, e)) = Len(s) + 1
         /\ \A k \in 1 .. Len(s) : Append(s, e)[k] = s[k]
         /\ Append(s, e)[Len(s) + 1] = e
OBVIOUS

\* The rest of a sequence.
LEMMA TailFacts ==
  ASSUME NEW S, NEW s \in Seq(S), s # <<>>
  PROVE  /\ Tail(s) \in Seq(S) /\ Head(s) \in S /\ Head(s) = s[1]
         /\ Len(s) >= 1 /\ Len(Tail(s)) = Len(s) - 1
         /\ \A k \in 1 .. Len(Tail(s)) : Tail(s)[k] = s[k + 1]
OBVIOUS

\* The fields of an event; only routes are ever open.
LEMMA EventFacts ==
  ASSUME NEW e \in Event
  PROVE  /\ e.age \in 0 .. 2 /\ e.status \in {"O", "Y", "N"}
         /\ e.type \in {"R", "C", "S"}
         /\ e.type = "R" => e.route \in Route
         /\ e.status = "O" => e.type = "R"
BY DEF Event, RouteEvent, OtherEvent

\* An event that grows older is the same otherwise.
LEMMA EventAged ==
  ASSUME NEW e \in Event, NEW a \in 0 .. 2
  PROVE  /\ [e EXCEPT !.age = a] \in Event
         /\ [e EXCEPT !.age = a].age = a
         /\ [e EXCEPT !.age = a].status = e.status
         /\ [e EXCEPT !.age = a].type = e.type
         /\ e.type = "R" => [e EXCEPT !.age = a].route = e.route
<1>1. CASE e \in RouteEvent
  BY <1>1 DEF Event, RouteEvent
<1>2. CASE e \in OtherEvent
  BY <1>2 DEF Event, OtherEvent
<1> QED BY <1>1, <1>2 DEF Event

\* So is a route that is finalized.
LEMMA EventClosed ==
  ASSUME NEW e \in Event, e.type = "R", NEW s \in {"Y", "N"}
  PROVE  /\ [e EXCEPT !.status = s] \in Event
         /\ [e EXCEPT !.status = s].age = e.age
         /\ [e EXCEPT !.status = s].status = s
         /\ [e EXCEPT !.status = s].type = e.type
         /\ [e EXCEPT !.status = s].route = e.route
BY DEF Event, RouteEvent, OtherEvent

\* A log that goes on has the same events at its beginning, but for their status.
Extends(es, fs) ==
  /\ Len(es) <= Len(fs)
  /\ \A i \in 1 .. Len(es) :
       /\ fs[i].type = es[i].type
       /\ es[i].type = "R" => fs[i].route = es[i].route
       /\ fs[i].age = es[i].age

LEMMA ExtendsKeeps ==
  ASSUME NEW es \in Seq(Event), NEW fs \in Seq(Event), Extends(es, fs)
  PROVE  /\ \A c : Fits(es, c) => Fits(fs, c)
         /\ \A r : Tells(es, r) => Tells(fs, r)
         /\ \A o, i : Holds(es, o, i) => Holds(fs, o, i) /\ fs[i].route = es[i].route
BY DEF Extends, Fits, Tells, Holds

LEMMA AppendExtends ==
  ASSUME NEW es \in Seq(Event), NEW e \in Event
  PROVE  /\ Append(es, e) \in Seq(Event) /\ Extends(es, Append(es, e))
         /\ Len(Append(es, e)) = Len(es) + 1 /\ Append(es, e)[Len(es) + 1] = e
         /\ \A i \in 1 .. Len(es) : Append(es, e)[i] = es[i]
BY DEF Extends

-----------------------------------------------------------------------------
(* The steps, by what they do to the log.                                  *)

\* A snapshot's or a comment's event, and a route's.
LEMMA NewEvents ==
  ASSUME TypeOK, NEW type \in {"C", "S"}, NEW r \in Route
  PROVE  /\ Other(type) \in Event /\ Other(type).age = 0 /\ Other(type).type # "R"
         /\ [type |-> "R", route |-> r, status |-> "O", age |-> 0] \in Event
         /\ r = <<r[1], r[2]>> /\ r[1] \in Output /\ r[2] \in Choice
BY DEF Other, Event, RouteEvent, OtherEvent, Route

\* What the finalize timer does to the log.
LEMMA FinalizeFacts ==
  ASSUME TypeOK, FinalizeEvents
  PROVE  /\ events' \in Seq(Event) /\ Extends(events, events')
         /\ Len(events') = Len(events)
         /\ \A i \in Id : IF Open(i) /\ events[i].age = 2
                           THEN events'[i].status = IF Taken(events[i].route) THEN "Y" ELSE "N"
                           ELSE events'[i] = events[i]
<1> DEFINE f(i) == IF Open(i) /\ OldEnough(events[i])
                    THEN FinalizeSARouteEvent(events[i]) ELSE events[i]
<1>1. events' = [i \in 1 .. Len(events) |-> f(i)] /\ Len(events) \in Nat
  BY DEF FinalizeEvents, TypeOK, Id
<1>2. ASSUME NEW i \in 1 .. Len(events)
      PROVE  /\ f(i) \in Event /\ f(i).type = events[i].type /\ f(i).age = events[i].age
             /\ events[i].type = "R" => f(i).route = events[i].route
             /\ Open(i) /\ events[i].age = 2
                  => f(i).status = IF Taken(events[i].route) THEN "Y" ELSE "N"
             /\ ~(Open(i) /\ events[i].age = 2) => f(i) = events[i]
  <2>1. events[i] \in Event
    BY DEF TypeOK
  <2>2. CASE Open(i) /\ OldEnough(events[i])
    <3> DEFINE st == IF Taken(events[i].route) THEN "Y" ELSE "N"
    <3>1. st \in {"Y", "N"}
      OBVIOUS
    <3>2. f(i) = [events[i] EXCEPT !.status = st]
      BY <2>2 DEF FinalizeSARouteEvent
    <3>3. events[i].type = "R"
      BY <2>1, <2>2, EventFacts DEF Open
    <3> HIDE DEF st, f
    <3>4. /\ [events[i] EXCEPT !.status = st] \in Event
          /\ [events[i] EXCEPT !.status = st].age = events[i].age
          /\ [events[i] EXCEPT !.status = st].status = st
          /\ [events[i] EXCEPT !.status = st].type = events[i].type
          /\ [events[i] EXCEPT !.status = st].route = events[i].route
      BY <2>1, <3>1, <3>3, EventClosed
    <3>5. f(i).status = st
      BY <3>2, <3>4
    <3> QED
      BY <2>2, <3>2, <3>4, <3>5 DEF OldEnough, st
  <2>3. CASE ~(Open(i) /\ OldEnough(events[i]))
    BY <2>1, <2>3 DEF OldEnough
  <2> QED
    BY <2>2, <2>3
<1> HIDE DEF f
<1>3. Len(events') = Len(events) /\ events' \in Seq(Event)
  BY <1>1, <1>2
<1>4. \A i \in 1 .. Len(events) : events'[i] = f(i)
  BY <1>1
<1> QED
  BY <1>2, <1>3, <1>4 DEF Extends, Id

\* What a second does to the log.
LEMMA TickFacts ==
  ASSUME TypeOK, Tick
  PROVE  /\ events' \in Seq(Event) /\ Len(events') = Len(events)
         /\ \A i \in Id : /\ events'[i].type = events[i].type
                          /\ events[i].type = "R" => events'[i].route = events[i].route
                          /\ events'[i].status = events[i].status
                          /\ events'[i].age = IF events[i].age < 2 THEN events[i].age + 1
                                                                  ELSE events[i].age
<1> DEFINE age(i) == IF events[i].age < 2 THEN events[i].age + 1 ELSE events[i].age
           f(i) == [events[i] EXCEPT !.age = age(i)]
<1>1. events' = [i \in 1 .. Len(events) |-> f(i)] /\ Len(events) \in Nat
  BY DEF Tick, TypeOK, Id
<1>2. ASSUME NEW i \in 1 .. Len(events)
      PROVE  /\ f(i) \in Event /\ f(i).type = events[i].type /\ f(i).age = age(i)
             /\ f(i).status = events[i].status
             /\ events[i].type = "R" => f(i).route = events[i].route
  <2>1. events[i] \in Event
    BY DEF TypeOK
  <2>2. age(i) \in 0 .. 2
    BY <2>1, EventFacts
  <2> HIDE DEF age
  <2> QED
    BY <2>1, <2>2, EventAged
<1> HIDE DEF f
<1>3. Len(events') = Len(events) /\ events' \in Seq(Event)
  BY <1>1, <1>2
<1>4. \A i \in 1 .. Len(events) : events'[i] = f(i)
  BY <1>1
<1> QED
  BY <1>2, <1>3, <1>4 DEF Id

\* A route that is asked for: its event, and the command if both ends have slots.
LEMMA ActivateFacts ==
  ASSUME TypeOK, NEW c \in Client, NEW r \in Route, ActivateRoute(c, r)
  PROVE  /\ events' = Append(events, [type |-> "R", route |-> r, status |-> "O", age |-> 0])
         /\ \/ ipc' = ipc
            \/ \E cmd \in Command :
                 /\ ipc' = [ipc EXCEPT ![c] = Append(@, cmd)]
                 /\ cmd.event = Len(events) + 1 /\ r = <<cmd.output, cmd.input>>
                 /\ cmd.output \in Slot /\ cmd.input \in Slot \cup {Off}
         /\ UNCHANGED <<core, panel>>
<1>1. r = <<r[1], r[2]>> /\ r[1] \in Output /\ r[2] \in Choice
  BY DEF Route
<1> DEFINE cmd == [output |-> r[1], input |-> r[2], event |-> Len(events) + 1]
<1>2. cmd \in Command
  BY <1>1 DEF Command, TypeOK
<1>3. cmd.output = r[1] /\ cmd.input = r[2] /\ cmd.event = Len(events) + 1
  OBVIOUS
<1> QED
  BY <1>1, <1>2, <1>3 DEF ActivateRoute, AddRouteEvent

\* Every way a client asks for a route.
LEMMA AskedFacts ==
  ASSUME TypeOK, NEW c \in Client, RouteCommand(c) \/ SnapRoute(c)
  PROVE  /\ \E r \in Route : ActivateRoute(c, r)
         /\ todo' \in [Client -> Seq(Route)]
<1>1. CASE RouteCommand(c)
  <2>1. Asked[c] \subseteq Route
    BY EventLogAssumption
  <2> QED
    BY <1>1, <2>1 DEF RouteCommand, TypeOK
<1>2. CASE SnapRoute(c)
  <2>1. todo[c] \in Seq(Route) /\ todo[c] # <<>>
    BY <1>2 DEF SnapRoute, TypeOK
  <2>2. Head(todo[c]) \in Route /\ Tail(todo[c]) \in Seq(Route)
    BY <2>1, TailFacts
  <2>3. todo' = [todo EXCEPT ![c] = Tail(todo[c])] /\ ActivateRoute(c, Head(todo[c]))
    BY <1>2 DEF SnapRoute
  <2> QED
    BY <2>2, <2>3 DEF TypeOK
<1> QED
  BY <1>1, <1>2

-----------------------------------------------------------------------------
(* Every variable keeps its type.                                          *)

LEMMA NodeFacts ==
  ASSUME TypeOK
  PROVE  node \in Seq(Report)
<1>1. CASE online
  BY <1>1 DEF TypeOK
<1>2. CASE ~online
  <2>1. node = <<>>
    BY <1>2 DEF TypeOK
  <2> QED BY <2>1
<1> QED BY <1>1, <1>2

\* A log that goes on keeps what the panel lists, and what the core obeyed.
LEMMA ListKept ==
  ASSUME TypeOK, events' \in Seq(Event), Len(events') >= Len(events),
         \A i \in Id : events[i].status # "O" => events'[i].status # "O",
         UNCHANGED panel
  PROVE  /\ shown' \subseteq {i \in Id : Final(i) /\ i <= maxId}'
         /\ (maxId \in 0 .. Len(events))'
BY DEF TypeOK, panel, Id, Final

\* Losing the node or the daemon.
LEMMA LoseFacts ==
  ASSUME TypeOK, Lose
  PROVE  /\ online' = FALSE /\ node' = <<>>
         /\ table' \in [Output -> Streams]
         /\ obeyed' = [o \in Output |-> 0]
         /\ cut' \in BOOLEAN /\ losses' \in 0 .. MaxLosses
<1>1. table' \in [Output -> Streams]
  <2>1. PICK reached \in 0 .. Len(node) :
          table' = [o \in Output |->
            LET set == {k \in 1 .. reached : node[k].output = o}
            IN IF set = {} THEN table[o] ELSE node[Max(set)].stream]
    BY DEF Lose
  <2>2. ASSUME NEW o \in Output,
               NEW set, set = {k \in 1 .. reached : node[k].output = o}, set # {}
        PROVE  node[Max(set)].stream \in Streams
    <3>1. reached \in Nat /\ set \subseteq 0 .. reached
      BY <2>2, NodeFacts
    <3>2. Max(set) \in set
      BY <2>2, <3>1, MaxFacts
    <3>3. Max(set) \in 1 .. Len(node)
      BY <2>2, <3>2, NodeFacts
    <3>4. node[Max(set)] \in Report
      BY <3>3, NodeFacts
    <3> QED
      BY <3>4 DEF Report
  <2>3. \A o \in Output : table[o] \in Streams
    BY DEF TypeOK
  <2>4. \A o \in Output :
          (LET set == {k \in 1 .. reached : node[k].output = o}
           IN IF set = {} THEN table[o] ELSE node[Max(set)].stream) \in Streams
    BY <2>2, <2>3
  <2> QED
    BY <2>1, <2>4
<1>2. cut' \in BOOLEAN
  BY DEF Lose, TypeOK
<1>3. losses' \in 0 .. MaxLosses
  <2>1. losses \in 0 .. MaxLosses /\ losses < MaxLosses /\ losses' = losses + 1
    BY DEF Lose, TypeOK
  <2> QED BY <2>1, EventLogAssumption
<1> QED
  BY <1>1, <1>2, <1>3 DEF Lose

LEMMA TypeInit == Init => TypeOK
<1> SUFFICES ASSUME Init PROVE TypeOK
  OBVIOUS
<1>1. active \in BOOLEAN /\ timer \in IF active THEN {"waiting", "due"} ELSE {"stopped"}
  BY DEF Init
<1>2. events \in Seq(Event) /\ Len(events) = 0
  BY DEF Init
<1>3. todo \in [Client -> Seq(Route)] /\ ipc \in [Client -> Seq(Command)]
  BY DEF Init
<1>4. online \in BOOLEAN /\ node \in IF online THEN Seq(Report) ELSE {<<>>}
  BY DEF Init
<1>5. table \in [Output -> Streams] /\ obeyed \in [Output -> 0 .. Len(events)]
  BY <1>2 DEF Init, Streams
<1>6. cut \in BOOLEAN /\ losses \in 0 .. MaxLosses
  <2>1. cut \in BOOLEAN
    BY DEF Init
  <2>2. losses \in 0 .. MaxLosses
    BY EventLogAssumption DEF Init
  <2> QED BY <2>1, <2>2
<1>7. shown \subseteq {i \in Id : Final(i) /\ i <= maxId} /\ maxId \in 0 .. Len(events)
  BY <1>2 DEF Init
<1> QED
  BY <1>1, <1>2, <1>3, <1>4, <1>5, <1>6, <1>7 DEF TypeOK

LEMMA TypeStep == TypeOK /\ CommandsFit /\ [Next]_vars => TypeOK'
<1> SUFFICES ASSUME TypeOK, CommandsFit, [Next]_vars PROVE TypeOK'
  OBVIOUS
<1> USE DEF core, nodes, panel
<1>0. Len(events) \in Nat
  BY DEF TypeOK
<1>1. ASSUME NEW c \in Client, RouteCommand(c) \/ SnapRoute(c) PROVE TypeOK'
  <2>1. PICK r \in Route : ActivateRoute(c, r)
    BY <1>1, AskedFacts
  <2>2. todo' \in [Client -> Seq(Route)]
    BY <1>1, AskedFacts
  <2>3. /\ events' \in Seq(Event) /\ Len(events') = Len(events) + 1
        /\ \A i \in Id : events'[i] = events[i]
    <3> DEFINE e == [type |-> "R", route |-> r, status |-> "O", age |-> 0]
    <3>1. e \in Event
      BY NewEvents
    <3>2. events' = Append(events, e)
      BY <2>1, ActivateFacts
    <3>3. events \in Seq(Event)
      BY DEF TypeOK
    <3> HIDE DEF e
    <3> QED
      BY <3>1, <3>2, <3>3, AppendFacts DEF Id
  <2>4. ipc' \in [Client -> Seq(Command)]
    <3>1. CASE ipc' = ipc
      BY <3>1 DEF TypeOK
    <3>2. ASSUME NEW cmd \in Command, ipc' = [ipc EXCEPT ![c] = Append(@, cmd)]
          PROVE  ipc' \in [Client -> Seq(Command)]
      BY <3>2 DEF TypeOK
    <3> QED
      BY <2>1, <3>1, <3>2, ActivateFacts
  <2>5. UNCHANGED <<core, panel>>
    BY <2>1, ActivateFacts
  <2>6. /\ shown' \subseteq {i \in Id : Final(i) /\ i <= maxId}'
        /\ (maxId \in 0 .. Len(events))'
    BY <1>0, <2>3, <2>5, ListKept
  <2> QED
    BY <1>0, <2>2, <2>3, <2>4, <2>5, <2>6 DEF TypeOK
<1>2. ASSUME NEW c \in Client, SnapCommand(c) PROVE TypeOK'
  <2>1. /\ events' \in Seq(Event) /\ Len(events') = Len(events) + 1
        /\ \A i \in Id : events'[i] = events[i]
    <3>1. Other("S") \in Event
      BY DEF Other, Event, OtherEvent
    <3> QED
      BY <1>2, <3>1, AppendFacts DEF TypeOK, Id, SnapCommand
  <2>2. todo' \in [Client -> Seq(Route)]
    BY <1>2, EventLogAssumption DEF SnapCommand, TypeOK
  <2>3. UNCHANGED <<core, ipc, panel>>
    BY <1>2 DEF SnapCommand
  <2>4. /\ shown' \subseteq {i \in Id : Final(i) /\ i <= maxId}'
        /\ (maxId \in 0 .. Len(events))'
    BY <1>0, <2>1, <2>3, ListKept
  <2> QED
    BY <1>0, <2>1, <2>2, <2>3, <2>4 DEF TypeOK
<1>3. ASSUME NEW state \in BOOLEAN, SetWriteable(state) PROVE TypeOK'
  <2>1. /\ events' \in Seq(Event) /\ Len(events') = Len(events) + 1
        /\ \A i \in Id : events'[i] = events[i]
    <3>1. Other("C") \in Event
      BY DEF Other, Event, OtherEvent
    <3> QED
      BY <1>3, <3>1, AppendFacts DEF TypeOK, Id, SetWriteable
  <2>2. /\ active' \in BOOLEAN
        /\ timer' \in IF active' THEN {"waiting", "due"} ELSE {"stopped"}
        /\ UNCHANGED <<nodes, todo, ipc, panel>>
    BY <1>3 DEF SetWriteable
  <2>3. /\ shown' \subseteq {i \in Id : Final(i) /\ i <= maxId}'
        /\ (maxId \in 0 .. Len(events))'
    BY <1>0, <2>1, <2>2, ListKept
  <2> QED
    BY <1>0, <2>1, <2>2, <2>3 DEF TypeOK
<1>4. ASSUME NEW c \in Client, ProcessIpcCommand(c) PROVE TypeOK'
  <2> DEFINE cmd == Head(ipc[c])
  <2>1. ipc[c] \in Seq(Command) /\ ipc[c] # <<>>
    BY <1>4 DEF ProcessIpcCommand, TypeOK
  <2>2. cmd \in Command /\ Tail(ipc[c]) \in Seq(Command) /\ cmd = ipc[c][1]
        /\ 1 \in 1 .. Len(ipc[c])
    BY <2>1, TailFacts
  <2>3. cmd.event \in 1 .. Len(events) /\ cmd.output \in Output /\ cmd.input \in Choice
    BY <2>2 DEF CommandsFit, Fits, Command
  <2>4. ipc' \in [Client -> Seq(Command)]
    BY <1>4, <2>2 DEF ProcessIpcCommand, TypeOK
  <2>5. UNCHANGED <<active, timer, online, table, cut, losses, events, todo, panel>>
    BY <1>4 DEF ProcessIpcCommand
  <2>6. CASE active /\ online
    <3>1. StreamFor(cmd.input) \in Streams
      BY <2>3 DEF StreamFor, Streams, Choice
    <3>2. [output |-> cmd.output, stream |-> StreamFor(cmd.input), event |-> cmd.event] \in Report
      BY <2>3, <3>1 DEF Report
    <3>3. node' \in Seq(Report)
      BY <1>4, <2>6, <3>2, NodeFacts, AppendFacts DEF ProcessIpcCommand
    <3>4. obeyed' = [obeyed EXCEPT ![cmd.output] = cmd.event]
      BY <1>4, <2>6 DEF ProcessIpcCommand
    <3>5. obeyed' \in [Output -> 0 .. Len(events)]
      BY <2>3, <3>4 DEF TypeOK
    <3> QED
      BY <2>4, <2>5, <2>6, <3>3, <3>5 DEF TypeOK, Id, Final
  <2>7. CASE ~(active /\ online)
    BY <1>4, <2>4, <2>5, <2>7 DEF ProcessIpcCommand, TypeOK, Id, Final
  <2> QED
    BY <2>6, <2>7
<1>5. CASE DestinationChanged
  <2>1. node \in Seq(Report) /\ node # <<>> /\ online
    BY <1>5 DEF DestinationChanged, TypeOK
  <2>2. Head(node) \in Report /\ Tail(node) \in Seq(Report)
    BY <2>1, TailFacts
  <2>3. table' \in [Output -> Streams]
    BY <1>5, <2>2 DEF DestinationChanged, TypeOK, Report
  <2> QED
    BY <1>5, <2>1, <2>2, <2>3 DEF DestinationChanged, TypeOK, Id, Final
<1>6. CASE FinalizeEvents
  <2>1. /\ events' \in Seq(Event) /\ Len(events') = Len(events)
        /\ \A i \in Id : events[i].status # "O" => events'[i].status # "O"
    BY <1>6, FinalizeFacts DEF Open
  <2>2. UNCHANGED <<active, nodes, todo, ipc, panel>> /\ timer = "due" /\ timer' = "waiting"
    BY <1>6 DEF FinalizeEvents
  <2>3. /\ shown' \subseteq {i \in Id : Final(i) /\ i <= maxId}'
        /\ (maxId \in 0 .. Len(events))'
    BY <1>0, <2>1, <2>2, ListKept
  <2> QED
    BY <2>1, <2>2, <2>3 DEF TypeOK
<1>7. CASE NodeConnected
  BY <1>7 DEF NodeConnected, TypeOK, Id, Final
<1>8. CASE NodeDisconnected
  <2>1. Lose /\ UNCHANGED <<active, timer, events, todo, ipc, panel>>
    BY <1>8 DEF NodeDisconnected
  <2>2. obeyed' \in [Output -> 0 .. Len(events')]
    BY <1>0, <2>1, LoseFacts
  <2>3. node' \in IF online' THEN Seq(Report) ELSE {<<>>}
    BY <2>1, LoseFacts
  <2>4. online' \in BOOLEAN /\ cut' \in BOOLEAN
    BY <2>1, LoseFacts
  <2>5. table' \in [Output -> Streams] /\ losses' \in 0 .. MaxLosses
    BY <2>1, LoseFacts
  <2> QED
    BY <2>1, <2>2, <2>3, <2>4, <2>5 DEF TypeOK, Id, Final
<1>9. CASE Restart
  <2>1. /\ events' \in Seq(Event) /\ Len(events') = Len(events) + 1
        /\ \A i \in Id : events'[i] = events[i]
    <3>1. Other("C") \in Event
      BY DEF Other, Event, OtherEvent
    <3> QED
      BY <1>9, <3>1, AppendFacts DEF TypeOK, Id, Restart
  <2>2. /\ Lose /\ active' = FALSE /\ timer' = "stopped"
        /\ todo' \in [Client -> Seq(Route)] /\ ipc' \in [Client -> Seq(Command)]
        /\ UNCHANGED panel
    BY <1>9 DEF Restart
  <2>3. /\ shown' \subseteq {i \in Id : Final(i) /\ i <= maxId}'
        /\ (maxId \in 0 .. Len(events))'
    BY <1>0, <2>1, <2>2, ListKept
  <2>4. obeyed' \in [Output -> 0 .. Len(events')]
    BY <1>0, <2>1, <2>2, LoseFacts
  <2>5. node' \in IF online' THEN Seq(Report) ELSE {<<>>}
    BY <2>2, LoseFacts
  <2>6. online' \in BOOLEAN /\ cut' \in BOOLEAN
    BY <2>2, LoseFacts
  <2>7. table' \in [Output -> Streams] /\ losses' \in 0 .. MaxLosses
    BY <2>2, LoseFacts
  <2> QED
    BY <2>1, <2>2, <2>3, <2>4, <2>5, <2>6, <2>7 DEF TypeOK
<1>10. CASE Tick
  <2>1. /\ events' \in Seq(Event) /\ Len(events') = Len(events)
        /\ \A i \in Id : events[i].status # "O" => events'[i].status # "O"
    BY <1>10, TickFacts
  <2>2. /\ UNCHANGED <<active, nodes, todo, ipc, panel>>
        /\ timer' = IF timer = "waiting" THEN "due" ELSE timer
    BY <1>10 DEF Tick
  <2>3. /\ shown' \subseteq {i \in Id : Final(i) /\ i <= maxId}'
        /\ (maxId \in 0 .. Len(events))'
    BY <1>0, <2>1, <2>2, ListKept
  <2> QED
    BY <2>1, <2>2, <2>3 DEF TypeOK
<1>11. CASE Refresh
  <2> DEFINE rows == {i \in Id : Final(i) /\ i > maxId}
             top == rows \cup {maxId} \cup {0}
  <2>1. top \subseteq 0 .. Len(events) /\ top # {}
    BY <1>0 DEF TypeOK, Id
  <2>2. Max(top) \in top /\ \A x \in top : Max(top) >= x
    <3> HIDE DEF top
    <3> QED BY <1>0, <2>1, MaxFacts
  <2>3. maxId' = Max(top) /\ shown' = shown \cup rows /\ UNCHANGED <<core, events, todo, ipc>>
    BY <1>11 DEF Refresh, Highest
  <2>4. maxId' \in 0 .. Len(events) /\ maxId' >= maxId /\ \A i \in rows : i <= maxId'
    BY <2>1, <2>2, <2>3
  <2> HIDE DEF top
  <2>5. shown' \subseteq {i \in Id : Final(i) /\ i <= maxId'}
    <3>1. ASSUME NEW i \in shown PROVE i \in Id /\ Final(i) /\ i <= maxId'
      <4>1. i \in Id /\ Final(i) /\ i <= maxId /\ maxId \in 0 .. Len(events)
        BY DEF TypeOK
      <4> QED
        BY <1>0, <2>4, <4>1 DEF Id
    <3>2. ASSUME NEW i \in rows PROVE i \in Id /\ Final(i) /\ i <= maxId'
      BY <2>4
    <3> QED
      BY <2>3, <3>1, <3>2
  <2> QED
    BY <2>3, <2>4, <2>5 DEF TypeOK, Id, Final
<1>12. CASE UpdateModel
  <2> DEFINE top == shown' \cup {0}
  <2>1. top \subseteq 0 .. Len(events) /\ top # {} /\ shown' = {i \in Id : Final(i)}
    BY <1>0, <1>12 DEF UpdateModel, Id
  <2>2. Max(top) \in top /\ \A x \in top : Max(top) >= x
    <3> HIDE DEF top
    <3> QED BY <1>0, <2>1, MaxFacts
  <2>3. maxId' = Max(top) /\ UNCHANGED <<core, events, todo, ipc>>
    BY <1>12 DEF UpdateModel, Highest
  <2>4. maxId' \in 0 .. Len(events) /\ \A i \in shown' : i <= maxId'
    BY <2>1, <2>2, <2>3
  <2> HIDE DEF top
  <2> QED
    BY <2>1, <2>3, <2>4 DEF TypeOK, Id, Final
<1>13. CASE UNCHANGED vars
  BY <1>13 DEF vars, TypeOK, Id, Final
<1> QED
  BY <1>1, <1>2, <1>3, <1>4, <1>5, <1>6, <1>7, <1>8, <1>9, <1>10, <1>11, <1>12, <1>13
     DEF Next

-----------------------------------------------------------------------------
(* What the core obeyed is in the table, or on its way there.              *)

\* What is on its way, and what was obeyed, outlasts a log that goes on.
LEMMA RouteKept ==
  ASSUME TypeOK, RouteInv, events' \in Seq(Event), Extends(events, events'),
         UNCHANGED nodes
  PROVE  /\ ReportsTell' /\ ObeyedHolds' /\ LastReported' /\ Reported'
         /\ \A c \in Client : \A k \in 1 .. Len(ipc[c]) : Fits(events', ipc[c][k])
<1> USE DEF nodes
<1>1. events \in Seq(Event)
  BY DEF TypeOK
<1>2. ReportsTell'
  BY <1>1, ExtendsKeeps DEF RouteInv, ReportsTell
<1>3. ObeyedHolds'
  BY <1>1, ExtendsKeeps DEF RouteInv, ObeyedHolds
<1>4. LastReported'
  BY DEF RouteInv, LastReported, IsLast
<1>5. Reported'
  <2>1. ASSUME NEW o \in Output, obeyed[o] # 0, NoReport(o)
        PROVE  table[o] = StreamFor(events'[obeyed[o]].route[2])
    <3>1. events'[obeyed[o]].route = events[obeyed[o]].route
      BY <1>1, <2>1, ExtendsKeeps DEF RouteInv, ObeyedHolds
    <3> QED
      BY <2>1, <3>1 DEF RouteInv, Reported
  <2> QED
    BY <2>1 DEF Reported, NoReport, StreamFor
<1>6. \A c \in Client : \A k \in 1 .. Len(ipc[c]) : Fits(events', ipc[c][k])
  BY <1>1, ExtendsKeeps DEF RouteInv, CommandsFit
<1> QED
  BY <1>2, <1>3, <1>4, <1>5, <1>6

\* An output with reports on their way has a last one.
LEMMA LastExists ==
  ASSUME TypeOK, NEW o \in Output, ~NoReport(o)
  PROVE  \E k \in 1 .. Len(node) : IsLast(o, k)
<1> DEFINE set == {k \in 1 .. Len(node) : node[k].output = o}
<1>1. Len(node) \in Nat /\ set \subseteq 0 .. Len(node) /\ set # {}
  BY NodeFacts DEF NoReport
<1>2. Max(set) \in set /\ \A x \in set : Max(set) >= x
  <2> HIDE DEF set
  <2> QED BY <1>1, MaxFacts
<1> QED
  BY <1>1, <1>2 DEF IsLast

LEMMA RouteInit == Init => RouteInv
BY DEF Init, RouteInv, CommandsFit, ReportsTell, ObeyedHolds, LastReported, Reported

LEMMA RouteStep == TypeOK /\ TypeOK' /\ RouteInv /\ [Next]_vars => RouteInv'
<1> SUFFICES ASSUME TypeOK, TypeOK', RouteInv, [Next]_vars PROVE RouteInv'
  OBVIOUS
<1>0. events \in Seq(Event) /\ events' \in Seq(Event) /\ Len(events) \in Nat
  BY DEF TypeOK
<1>1. ASSUME NEW c \in Client, RouteCommand(c) \/ SnapRoute(c) PROVE RouteInv'
  <2>1. PICK r \in Route : ActivateRoute(c, r)
    BY <1>1, AskedFacts
  <2> DEFINE e == [type |-> "R", route |-> r, status |-> "O", age |-> 0]
  <2>2. e \in Event /\ events' = Append(events, e) /\ UNCHANGED nodes
    BY <2>1, ActivateFacts, NewEvents DEF core
  <2>3. e.type = "R" /\ e.route = r /\ e.age = 0
    OBVIOUS
  <2> HIDE DEF e
  <2>4. Extends(events, events') /\ Len(events') = Len(events) + 1
        /\ events'[Len(events) + 1] = e
    BY <1>0, <2>2, AppendExtends
  <2>5. /\ ReportsTell' /\ ObeyedHolds' /\ LastReported' /\ Reported'
        /\ \A d \in Client : \A k \in 1 .. Len(ipc[d]) : Fits(events', ipc[d][k])
    BY <1>0, <2>2, <2>4, RouteKept
  <2>6. CommandsFit'
    <3>1. CASE ipc' = ipc
      BY <2>5, <3>1 DEF CommandsFit
    <3>2. ASSUME NEW cmd \in Command, ipc' = [ipc EXCEPT ![c] = Append(@, cmd)],
                 cmd.event = Len(events) + 1, r = <<cmd.output, cmd.input>>,
                 cmd.output \in Slot, cmd.input \in Slot \cup {Off}
          PROVE  CommandsFit'
      <4>1. Fits(events', cmd)
        BY <1>0, <2>3, <2>4, <3>2 DEF Fits
      <4>2. ASSUME NEW d \in Client, NEW k \in 1 .. Len(ipc'[d])
            PROVE  Fits(events', ipc'[d][k])
        <5>1. CASE d = c
          <6>1. ipc[c] \in Seq(Command) /\ ipc'[c] = Append(ipc[c], cmd)
            BY <3>2 DEF TypeOK
          <6> QED
            BY <2>5, <4>1, <4>2, <5>1, <6>1, AppendFacts
        <5>2. CASE d # c
          <6>1. ipc'[d] = ipc[d]
            BY <3>2, <5>2 DEF TypeOK
          <6> QED
            BY <2>5, <4>2, <6>1
        <5> QED
          BY <5>1, <5>2
      <4> QED
        BY <4>2 DEF CommandsFit
    <3> QED
      BY <2>1, <3>1, <3>2, ActivateFacts
  <2> QED
    BY <2>5, <2>6 DEF RouteInv
<1>2. ASSUME NEW c \in Client, SnapCommand(c) PROVE RouteInv'
  <2>1. Other("S") \in Event /\ events' = Append(events, Other("S"))
        /\ UNCHANGED nodes /\ ipc' = ipc
    BY <1>2 DEF SnapCommand, core, Other, Event, OtherEvent
  <2>2. Extends(events, events')
    BY <1>0, <2>1, AppendExtends
  <2> QED
    BY <1>0, <2>1, <2>2, RouteKept DEF RouteInv, CommandsFit
<1>3. ASSUME NEW state \in BOOLEAN, SetWriteable(state) PROVE RouteInv'
  <2>1. Other("C") \in Event /\ events' = Append(events, Other("C"))
        /\ UNCHANGED nodes /\ ipc' = ipc
    BY <1>3 DEF SetWriteable, Other, Event, OtherEvent
  <2>2. Extends(events, events')
    BY <1>0, <2>1, AppendExtends
  <2> QED
    BY <1>0, <2>1, <2>2, RouteKept DEF RouteInv, CommandsFit
<1>4. ASSUME NEW c \in Client, ProcessIpcCommand(c) PROVE RouteInv'
  <2> DEFINE cmd == Head(ipc[c])
             r == [output |-> cmd.output, stream |-> StreamFor(cmd.input), event |-> cmd.event]
  <2>1. ipc[c] \in Seq(Command) /\ ipc[c] # <<>> /\ ipc' = [ipc EXCEPT ![c] = Tail(@)]
        /\ UNCHANGED <<online, table, events>>
    BY <1>4 DEF ProcessIpcCommand, TypeOK
  <2>2. cmd \in Command /\ Fits(events, cmd)
    BY <2>1, TailFacts DEF RouteInv, CommandsFit
  <2>3. CommandsFit'
    <3>1. ASSUME NEW d \in Client, NEW k \in 1 .. Len(ipc'[d])
          PROVE  Fits(events, ipc'[d][k])
      <4>1. CASE d = c
        <5>1. ipc'[c] = Tail(ipc[c])
          BY <2>1 DEF TypeOK
        <5>2. k \in 1 .. Len(Tail(ipc[c])) /\ ipc'[d][k] = Tail(ipc[c])[k]
          BY <3>1, <4>1, <5>1
        <5>3. k + 1 \in 1 .. Len(ipc[c]) /\ Tail(ipc[c])[k] = ipc[c][k + 1]
          BY <2>1, <5>2, TailFacts
        <5> QED
          BY <4>1, <5>2, <5>3 DEF RouteInv, CommandsFit
      <4>2. CASE d # c
        <5>1. ipc'[d] = ipc[d]
          BY <2>1, <4>2 DEF TypeOK
        <5> QED
          BY <3>1, <5>1 DEF RouteInv, CommandsFit
      <4> QED
        BY <4>1, <4>2
    <3> QED
      BY <2>1, <3>1 DEF CommandsFit
  <2>4. CASE active /\ online
    <3>1. node' = Append(node, r) /\ obeyed' = [obeyed EXCEPT ![cmd.output] = cmd.event]
      BY <1>4, <2>4 DEF ProcessIpcCommand
    <3>2. cmd.output \in Output /\ cmd.input \in Choice
      BY <2>2 DEF Command
    <3>3. events[cmd.event].route[1] = cmd.output /\ events[cmd.event].route[2] = cmd.input
      BY <2>2 DEF Fits
    <3>4. Tells(events, r) /\ r.output = cmd.output /\ r.event = cmd.event
      BY <2>2, <3>3 DEF Tells, Fits
    <3>5. r \in Report
      <4>1. r.stream \in Streams
        BY <3>2 DEF StreamFor, Streams, Choice
      <4> QED
        BY <2>2, <3>2, <4>1 DEF Report, Command
    <3> HIDE DEF r, cmd
    <3>6. /\ Len(node') = Len(node) + 1 /\ Len(node) \in Nat /\ node'[Len(node) + 1] = r
          /\ \A k \in 1 .. Len(node) : node'[k] = node[k]
      BY <3>1, <3>5, NodeFacts, AppendFacts
    <3>7. obeyed'[cmd.output] = cmd.event
          /\ \A o \in Output : o # cmd.output => obeyed'[o] = obeyed[o]
      BY <3>1, <3>2 DEF TypeOK
    <3>8. ReportsTell'
      BY <2>1, <3>4, <3>6 DEF RouteInv, ReportsTell
    <3>9. ObeyedHolds'
      <4>1. Holds(events, cmd.output, cmd.event)
        BY <2>2, <3>3 DEF Fits, Holds
      <4> QED
        BY <2>1, <2>4, <3>7, <4>1 DEF RouteInv, ObeyedHolds
    <3>10. LastReported'
      <4>1. ASSUME NEW o \in Output, NEW k \in 1 .. Len(node'), IsLast(o, k)'
            PROVE  node'[k].event = obeyed'[o]
        <5>1. CASE k = Len(node) + 1
          BY <3>4, <3>6, <3>7, <4>1, <5>1 DEF IsLast
        <5>2. CASE k # Len(node) + 1
          <6>1. k \in 1 .. Len(node) /\ Len(node) + 1 \in k + 1 .. Len(node')
            BY <3>6, <5>2
          <6>2. o # cmd.output
            BY <3>4, <3>6, <4>1, <6>1 DEF IsLast
          <6>3. IsLast(o, k)
            BY <3>6, <4>1, <6>1 DEF IsLast
          <6> QED
            BY <3>6, <3>7, <6>1, <6>2, <6>3 DEF RouteInv, LastReported
        <5> QED
          BY <5>1, <5>2
      <4> QED
        BY <4>1 DEF LastReported
    <3>11. Reported'
      <4>1. ASSUME NEW o \in Output, obeyed'[o] # 0, NoReport(o)'
            PROVE  table[o] = StreamFor(events[obeyed'[o]].route[2])
        <5>1. o # cmd.output /\ NoReport(o)
          BY <3>4, <3>6, <4>1 DEF NoReport
        <5> QED
          BY <3>7, <4>1, <5>1 DEF RouteInv, Reported
      <4> QED
        BY <2>1, <4>1 DEF Reported, StreamFor
    <3> QED
      BY <2>3, <3>8, <3>9, <3>10, <3>11 DEF RouteInv
  <2>5. CASE ~(active /\ online)
    <3>1. UNCHANGED <<node, obeyed>>
      BY <1>4, <2>5 DEF ProcessIpcCommand
    <3> QED
      BY <2>1, <2>3, <3>1 DEF RouteInv, ReportsTell, ObeyedHolds, LastReported, Reported,
         IsLast, NoReport, StreamFor
  <2> QED
    BY <2>4, <2>5
<1>5. CASE DestinationChanged
  <2>1. /\ node \in Seq(Report) /\ node # <<>> /\ node' = Tail(node)
        /\ table' = [table EXCEPT ![Head(node).output] = Head(node).stream]
        /\ UNCHANGED <<online, obeyed, events, ipc>>
    BY <1>5, NodeFacts DEF DestinationChanged
  <2>2. /\ Len(node) \in Nat /\ Len(node) >= 1 /\ Len(node') = Len(node) - 1
        /\ Head(node) = node[1] /\ node[1] \in Report
        /\ \A k \in 1 .. Len(node') : k + 1 \in 1 .. Len(node) /\ node'[k] = node[k + 1]
    BY <2>1, TailFacts
  <2>3. ReportsTell'
    BY <2>1, <2>2 DEF RouteInv, ReportsTell
  <2>4. LastReported'
    <3>1. ASSUME NEW o \in Output, NEW k \in 1 .. Len(node'), IsLast(o, k)'
          PROVE  node'[k].event = obeyed[o]
      <4>1. ASSUME NEW j \in k + 2 .. Len(node) PROVE node[j].output # o
        <5>1. j - 1 \in k + 1 .. Len(node') /\ node'[j - 1] = node[j]
          BY <2>2
        <5> QED
          BY <3>1, <5>1 DEF IsLast
      <4>2. IsLast(o, k + 1)
        BY <2>2, <3>1, <4>1 DEF IsLast
      <4> QED
        BY <2>2, <4>2 DEF RouteInv, LastReported
    <3> QED
      BY <2>1, <3>1 DEF LastReported
  <2>5. Reported'
    <3>1. ASSUME NEW o \in Output, obeyed[o] # 0, NoReport(o)'
          PROVE  table'[o] = StreamFor(events[obeyed[o]].route[2])
      <4>1. \A j \in 2 .. Len(node) : node[j].output # o
        <5> TAKE j \in 2 .. Len(node)
        <5>1. j - 1 \in 1 .. Len(node') /\ node'[j - 1] = node[j]
          BY <2>2
        <5> QED
          BY <3>1, <5>1 DEF NoReport
      <4>2. CASE node[1].output = o
        <5>1. IsLast(o, 1) /\ 1 \in 1 .. Len(node)
          BY <2>2, <4>1, <4>2 DEF IsLast
        <5>2. node[1].event = obeyed[o]
          BY <5>1 DEF RouteInv, LastReported
        <5>3. node[1].stream = StreamFor(events[node[1].event].route[2])
          BY <5>1 DEF RouteInv, ReportsTell, Tells
        <5>4. table'[o] = node[1].stream
          BY <2>1, <2>2, <4>2 DEF TypeOK
        <5> QED
          BY <5>2, <5>3, <5>4
      <4>3. CASE node[1].output # o
        <5>1. NoReport(o)
          BY <2>2, <4>1, <4>3 DEF NoReport
        <5>2. table'[o] = table[o]
          BY <2>1, <2>2, <4>3 DEF TypeOK
        <5> QED
          BY <3>1, <5>1, <5>2 DEF RouteInv, Reported
      <4> QED
        BY <4>2, <4>3
    <3> QED
      BY <2>1, <3>1 DEF Reported, StreamFor
  <2> QED
    BY <2>1, <2>3, <2>4, <2>5 DEF RouteInv, CommandsFit, ObeyedHolds
<1>6. CASE FinalizeEvents
  <2>1. Extends(events, events') /\ UNCHANGED <<nodes, ipc>>
    BY <1>6, FinalizeFacts DEF FinalizeEvents
  <2> QED
    BY <1>0, <2>1, RouteKept DEF RouteInv, CommandsFit
<1>7. CASE NodeConnected
  BY <1>7 DEF NodeConnected, RouteInv, CommandsFit, ReportsTell, ObeyedHolds, LastReported,
     Reported, IsLast, NoReport, StreamFor
<1>8. ASSUME Lose, events' = events \/ events' = Append(events, Other("C")),
             ipc' = ipc \/ ipc' = [c \in Client |-> <<>>]
      PROVE  RouteInv'
  <2>1. node' = <<>> /\ obeyed' = [o \in Output |-> 0]
    BY <1>8, LoseFacts
  <2>2. ReportsTell' /\ ObeyedHolds' /\ LastReported' /\ Reported'
    BY <2>1 DEF ReportsTell, ObeyedHolds, LastReported, Reported
  <2>3. Extends(events, events')
    <3>1. Other("C") \in Event
      BY DEF Other, Event, OtherEvent
    <3> QED
      BY <1>0, <1>8, <3>1, AppendExtends DEF Extends
  <2>4. CommandsFit'
    BY <1>0, <1>8, <2>3, ExtendsKeeps DEF RouteInv, CommandsFit
  <2> QED
    BY <2>2, <2>4 DEF RouteInv
<1>9. CASE NodeDisconnected
  BY <1>8, <1>9 DEF NodeDisconnected
<1>10. CASE Restart
  BY <1>8, <1>10 DEF Restart
<1>11. CASE Tick
  <2>1. /\ Len(events') = Len(events)
        /\ \A i \in 1 .. Len(events) :
             /\ events'[i].type = events[i].type
             /\ events[i].type = "R" => events'[i].route = events[i].route
             /\ events[i].age = 0 => events'[i].age <= 1
    BY <1>11, TickFacts DEF Id
  <2>2. /\ UNCHANGED <<nodes, ipc>>
        /\ \A c \in Client : \A k \in 1 .. Len(ipc[c]) : events[ipc[c][k].event].age = 0
        /\ \A k \in 1 .. Len(node) : events[node[k].event].age = 0
    BY <1>11 DEF Tick
  <2>3. CommandsFit'
    BY <2>1, <2>2 DEF RouteInv, CommandsFit, Fits
  <2>4. ReportsTell'
    BY <2>1, <2>2 DEF nodes, RouteInv, ReportsTell, Tells, StreamFor
  <2>5. ObeyedHolds'
    BY <2>1, <2>2 DEF nodes, RouteInv, ObeyedHolds, Holds
  <2>6. LastReported'
    BY <2>2 DEF nodes, RouteInv, LastReported, IsLast
  <2>7. Reported'
    <3>1. ASSUME NEW o \in Output, obeyed[o] # 0, NoReport(o)
          PROVE  table[o] = StreamFor(events'[obeyed[o]].route[2])
      BY <2>1, <3>1 DEF RouteInv, ObeyedHolds, Holds, Reported, StreamFor
    <3> QED
      BY <2>2, <3>1 DEF nodes, Reported, NoReport, StreamFor
  <2> QED
    BY <2>3, <2>4, <2>5, <2>6, <2>7 DEF RouteInv
<1>12. CASE Refresh \/ UpdateModel \/ UNCHANGED vars
  <2>1. UNCHANGED <<nodes, events, ipc>>
    BY <1>12 DEF Refresh, UpdateModel, vars, core
  <2>2. Extends(events, events')
    BY <2>1 DEF Extends
  <2> QED
    BY <1>0, <2>1, <2>2, RouteKept DEF RouteInv, CommandsFit
<1> QED
  BY <1>1, <1>2, <1>3, <1>4, <1>5, <1>6, <1>7, <1>9, <1>10, <1>11, <1>12 DEF Next

-----------------------------------------------------------------------------
(* What the panel has not listed has been overtaken.                       *)

\* An event is appended that is open, or no route.
LEMMA LogAppended ==
  ASSUME TypeOK, LogInv, NEW e \in Event, events' = Append(events, e), e.age = 0,
         e.type = "R" => e.status = "O", UNCHANGED panel
  PROVE  LogInv'
<1>1. /\ events \in Seq(Event) /\ Len(events) \in Nat
      /\ maxId \in 0 .. Len(events) /\ \A i \in 1 .. Len(events) : events[i].age \in 0 .. 2
  BY EventFacts DEF TypeOK
<1>2. /\ Len(events') = Len(events) + 1 /\ events'[Len(events) + 1] = e
      /\ \A i \in 1 .. Len(events) : events'[i] = events[i]
  BY <1>1, AppendFacts
<1>3. AgesFall'
  BY <1>1, <1>2 DEF LogInv, AgesFall, Id
<1>4. InOrder'
  BY <1>1, <1>2 DEF LogInv, InOrder, Id, Final
<1>5. Overtaken'
  BY <1>1, <1>2 DEF LogInv, Overtaken, Id, panel
<1> QED
  BY <1>3, <1>4, <1>5 DEF LogInv

\* The events are as many as before, in the same order of their ages, and route events
\* become final in the order of their numbers.
LEMMA LogSame ==
  ASSUME TypeOK, LogInv, Len(events') = Len(events), UNCHANGED panel,
         \A i \in Id : events'[i].type = events[i].type, AgesFall', InOrder'
  PROVE  LogInv'
<1>1. Len(events) \in Nat /\ maxId \in 0 .. Len(events) /\ Id' = Id
      /\ shown' = shown /\ maxId' = maxId
  BY DEF TypeOK, Id, panel
<1>2. ASSUME NEW i \in Id, i <= maxId, i \notin shown
      PROVE  \E j \in i + 1 .. maxId : events'[j].type # "R"
  <2>1. PICK j \in i + 1 .. maxId : events[j].type # "R"
    BY <1>2 DEF LogInv, Overtaken
  <2>2. j \in Id
    BY <1>1 DEF Id
  <2> QED
    BY <2>1, <2>2
<1>3. Overtaken'
  BY <1>1, <1>2 DEF Overtaken
<1> QED
  BY <1>3 DEF LogInv

LEMMA LogInit == Init => LogInv
BY DEF Init, LogInv, AgesFall, InOrder, Overtaken, Id

LEMMA LogStep == TypeOK /\ TypeOK' /\ LogInv /\ [Next]_vars => LogInv'
<1> SUFFICES ASSUME TypeOK, TypeOK', LogInv, [Next]_vars PROVE LogInv'
  OBVIOUS
<1>0. events \in Seq(Event) /\ Len(events) \in Nat /\ maxId \in 0 .. Len(events)
      /\ \A i \in Id : events[i] \in Event
  BY DEF TypeOK, Id
<1>1. ASSUME NEW c \in Client, RouteCommand(c) \/ SnapRoute(c) PROVE LogInv'
  <2>1. PICK r \in Route : ActivateRoute(c, r)
    BY <1>1, AskedFacts
  <2> DEFINE e == [type |-> "R", route |-> r, status |-> "O", age |-> 0]
  <2>2. e \in Event /\ events' = Append(events, e) /\ UNCHANGED panel
    BY <2>1, ActivateFacts, NewEvents
  <2>3. e.age = 0 /\ e.status = "O"
    OBVIOUS
  <2> HIDE DEF e
  <2> QED
    BY <2>2, <2>3, LogAppended
<1>2. ASSUME NEW type \in {"C", "S"}, events' = Append(events, Other(type)), UNCHANGED panel
      PROVE  LogInv'
  <2>1. Other(type) \in Event /\ Other(type).age = 0 /\ Other(type).type # "R"
    BY DEF Other, Event, OtherEvent
  <2> QED
    BY <1>2, <2>1, LogAppended
<1>3. ASSUME NEW c \in Client, SnapCommand(c) PROVE LogInv'
  BY <1>2, <1>3 DEF SnapCommand
<1>4. ASSUME NEW state \in BOOLEAN, SetWriteable(state) PROVE LogInv'
  BY <1>2, <1>4 DEF SetWriteable
<1>5. CASE Restart
  BY <1>2, <1>5 DEF Restart
<1>6. CASE FinalizeEvents
  <2>1. /\ Len(events') = Len(events) /\ Extends(events, events')
        /\ \A i \in Id : IF Open(i) /\ events[i].age = 2
                          THEN events'[i].status = IF Taken(events[i].route) THEN "Y" ELSE "N"
                          ELSE events'[i] = events[i]
    BY <1>6, FinalizeFacts
  <2>2. \A i \in Id : events'[i].type = events[i].type /\ events'[i].age = events[i].age
    BY <2>1 DEF Extends, Id
  <2>3. AgesFall'
    BY <2>1, <2>2 DEF LogInv, AgesFall, Id
  <2>4. InOrder'
    <3>1. ASSUME NEW i \in Id, NEW j \in Id, i < j, events'[j].type = "R",
                 events'[j].status # "O"
          PROVE  events'[i].status # "O"
      <4>1. CASE events[j].status # "O"
        <5>1. events[i].status # "O"
          BY <2>2, <3>1, <4>1 DEF LogInv, InOrder, Final
        <5> QED
          BY <2>1, <5>1 DEF Open
      <4>2. CASE events[j].status = "O"
        <5>1. events[j].age = 2
          BY <2>1, <3>1, <4>2
        <5>2. events[i].age = 2
          <6>1. events[i].age >= events[j].age /\ events[i].age \in 0 .. 2
            BY <1>0, <3>1, EventFacts DEF LogInv, AgesFall
          <6> QED
            BY <5>1, <6>1
        <5>3. CASE events[i].status = "O"
          BY <2>1, <5>2, <5>3 DEF Open
        <5>4. CASE events[i].status # "O"
          BY <2>1, <5>4 DEF Open
        <5> QED
          BY <5>3, <5>4
      <4> QED
        BY <4>1, <4>2
    <3> QED
      BY <2>1, <3>1 DEF InOrder, Id, Final
  <2> QED
    BY <1>6, <2>1, <2>2, <2>3, <2>4, LogSame DEF FinalizeEvents
<1>7. CASE Tick
  <2>1. /\ Len(events') = Len(events)
        /\ \A i \in Id : /\ events'[i].type = events[i].type
                         /\ events'[i].status = events[i].status
                         /\ events'[i].age = IF events[i].age < 2 THEN events[i].age + 1
                                                                 ELSE events[i].age
    BY <1>7, TickFacts
  <2>2. AgesFall'
    <3>1. \A i \in Id : events[i].age \in 0 .. 2
      BY <1>0, EventFacts
    <3>2. Id' = Id
      BY <2>1 DEF Id
    <3>3. ASSUME NEW i \in Id, NEW j \in Id, i < j PROVE events'[i].age >= events'[j].age
      <4>1. events[i].age >= events[j].age
        BY <3>3 DEF LogInv, AgesFall
      <4> QED
        BY <2>1, <3>1, <4>1
    <3> QED
      BY <3>2, <3>3 DEF AgesFall
  <2>3. InOrder'
    BY <2>1 DEF LogInv, InOrder, Id, Final
  <2> QED
    BY <1>7, <2>1, <2>2, <2>3, LogSame DEF Tick
<1>8. ASSUME UNCHANGED events, UNCHANGED panel PROVE LogInv'
  BY <1>8 DEF LogInv, AgesFall, InOrder, Overtaken, Id, Final, panel
<1>9. ASSUME NEW c \in Client, ProcessIpcCommand(c) PROVE LogInv'
  BY <1>8, <1>9 DEF ProcessIpcCommand
<1>10. CASE DestinationChanged
  BY <1>8, <1>10 DEF DestinationChanged
<1>11. CASE NodeConnected
  BY <1>8, <1>11 DEF NodeConnected
<1>12. CASE NodeDisconnected
  BY <1>8, <1>12 DEF NodeDisconnected
<1>13. ASSUME UNCHANGED events, maxId' # maxId => Final(maxId'), maxId' >= maxId,
              \A i \in Id : Final(i) /\ i > maxId /\ i <= maxId' => i \in shown',
              shown \subseteq shown'
       PROVE  LogInv'
  <2>1. AgesFall' /\ InOrder'
    BY <1>13 DEF LogInv, AgesFall, InOrder, Id, Final
  <2>2. Overtaken'
    <3>1. maxId' \in 0 .. Len(events)
      BY <1>13 DEF TypeOK
    <3>2. ASSUME NEW i \in Id, i <= maxId', i \notin shown'
          PROVE  \E j \in i + 1 .. maxId' : events[j].type # "R"
      <4>1. CASE i <= maxId
        <5>1. PICK j \in i + 1 .. maxId : events[j].type # "R"
          BY <1>13, <3>2, <4>1 DEF LogInv, Overtaken
        <5>2. j \in i + 1 .. maxId'
          BY <1>0, <1>13, <3>1, <3>2 DEF Id
        <5> QED
          BY <5>1, <5>2
      <4>2. CASE i > maxId
        <5>1. ~Final(i) /\ Final(maxId') /\ i # maxId'
          BY <1>0, <1>13, <3>1, <3>2, <4>2 DEF Id
        <5>2. i < maxId' /\ maxId' \in Id
          BY <3>1, <3>2, <5>1 DEF Id
        <5>3. events[maxId'].type # "R"
          BY <5>1, <5>2 DEF LogInv, InOrder
        <5>4. maxId' \in i + 1 .. maxId'
          BY <3>1, <5>2 DEF Id
        <5> QED
          BY <5>3, <5>4
      <4> QED
        BY <1>0, <3>2, <4>1, <4>2 DEF Id
    <3> QED
      BY <1>13, <3>2 DEF Overtaken, Id
  <2> QED
    BY <2>1, <2>2 DEF LogInv
<1>14. CASE Refresh
  <2> DEFINE rows == {i \in Id : Final(i) /\ i > maxId}
             top == rows \cup {maxId} \cup {0}
  <2>1. top \subseteq 0 .. Len(events) /\ top # {}
    BY <1>0 DEF Id
  <2>2. Max(top) \in top /\ \A x \in top : Max(top) >= x
    <3> HIDE DEF top
    <3> QED BY <1>0, <2>1, MaxFacts
  <2>3. maxId' = Max(top) /\ shown' = shown \cup rows /\ UNCHANGED events
    BY <1>14 DEF Refresh, Highest
  <2>4. maxId' >= maxId /\ maxId' \in top
    BY <2>2, <2>3
  <2>5. maxId' # maxId => Final(maxId')
    BY <1>0, <2>4 DEF Id
  <2> HIDE DEF top
  <2> QED
    BY <1>13, <2>3, <2>4, <2>5
<1>15. CASE UpdateModel
  <2> DEFINE top == shown' \cup {0}
  <2>1. top \subseteq 0 .. Len(events) /\ top # {} /\ shown' = {i \in Id : Final(i)}
    BY <1>0, <1>15 DEF UpdateModel, Id
  <2>2. Max(top) \in top /\ \A x \in top : Max(top) >= x
    <3> HIDE DEF top
    <3> QED BY <1>0, <2>1, MaxFacts
  <2>3. maxId' = Max(top) /\ UNCHANGED events
    BY <1>15 DEF UpdateModel, Highest
  <2>4. Overtaken'
    <3>1. ASSUME NEW i \in Id, i <= maxId', i \notin shown'
          PROVE  \E j \in i + 1 .. maxId' : events[j].type # "R"
      <4>1. ~Final(i) /\ i >= 1
        BY <2>1, <3>1 DEF Id
      <4>2. maxId' \in Id /\ Final(maxId')
        BY <1>0, <2>1, <2>2, <2>3, <3>1, <4>1 DEF Id
      <4>3. i < maxId' /\ maxId' \in i + 1 .. maxId'
        BY <1>0, <3>1, <4>1, <4>2 DEF Id
      <4>4. events[maxId'].type # "R"
        BY <4>1, <4>2, <4>3 DEF LogInv, InOrder
      <4> QED
        BY <4>3, <4>4
    <3> QED
      BY <2>3, <3>1 DEF Overtaken, Id
  <2> QED
    BY <2>3, <2>4 DEF LogInv, AgesFall, InOrder, Id, Final
<1>16. CASE UNCHANGED vars
  BY <1>8, <1>16 DEF vars
<1> QED
  BY <1>1, <1>3, <1>4, <1>5, <1>6, <1>7, <1>9, <1>10, <1>11, <1>12, <1>14, <1>15, <1>16
     DEF Next

-----------------------------------------------------------------------------
(* The theorems.                                                           *)

\* The invariant holds in every reachable state.
LEMMA Invariant == Spec => []IInv
<1>1. Init => IInv
  BY TypeInit, RouteInit, LogInit DEF IInv
<1>2. IInv /\ [Next]_vars => IInv'
  <2> SUFFICES ASSUME IInv, [Next]_vars PROVE IInv'
    OBVIOUS
  <2>1. TypeOK'
    BY TypeStep DEF IInv, RouteInv
  <2> QED
    BY <2>1, RouteStep, LogStep DEF IInv
<1> QED
  BY <1>1, <1>2, PTL DEF Spec

\* Every variable of the log, the core and the panel has its type.
THEOREM TypeCorrect == Spec => []TypeOK
<1>1. IInv => TypeOK
  BY DEF IInv
<1> QED
  BY <1>1, Invariant, PTL

\* The panel lists every event that is final, unless one that is no route had moved its
\* highest number past it (refresh of EventLogModel).
THEOREM OvertakenOnly == Spec => []OnlyOvertakenMissed
<1>1. IInv => OnlyOvertakenMissed
  BY DEF IInv, LogInv, Overtaken, OnlyOvertakenMissed
<1> QED
  BY <1>1, Invariant, PTL

\* A route the core has set last for its output is not finalized as failed: its report
\* is in the table when finalizeEventsData comes to its event.
THEOREM NeverFalselyFailed == Spec => NoFalseFailure
<1>1. ASSUME IInv, [Next]_vars, NEW i \in Id, Open(i), NEW o \in Output, obeyed[o] = i
      PROVE  events'[i].status # "N"
  <2>0. events \in Seq(Event) /\ Len(events) \in Nat /\ events[i].status = "O"
        /\ i \in 1 .. Len(events)
    BY <1>1 DEF IInv, TypeOK, Open, Id
  <2>1. ASSUME NEW e \in Event, events' = Append(events, e) PROVE events'[i].status # "N"
    <3>1. events'[i] = events[i]
      BY <2>0, <2>1, AppendFacts
    <3> QED BY <2>0, <3>1
  <2>2. ASSUME NEW c \in Client, RouteCommand(c) \/ SnapRoute(c) PROVE events'[i].status # "N"
    <3>1. PICK r \in Route : ActivateRoute(c, r)
      BY <1>1, <2>2, AskedFacts DEF IInv
    <3> QED
      BY <1>1, <2>1, <3>1, ActivateFacts, NewEvents DEF IInv
  <2>3. ASSUME NEW type \in {"C", "S"}, events' = Append(events, Other(type))
        PROVE  events'[i].status # "N"
    <3>1. Other(type) \in Event
      BY DEF Other, Event, OtherEvent
    <3> QED BY <2>1, <2>3, <3>1
  <2>4. ASSUME NEW c \in Client, SnapCommand(c) PROVE events'[i].status # "N"
    BY <2>3, <2>4 DEF SnapCommand
  <2>5. ASSUME NEW state \in BOOLEAN, SetWriteable(state) PROVE events'[i].status # "N"
    BY <2>3, <2>5 DEF SetWriteable
  <2>6. CASE Restart
    BY <2>3, <2>6 DEF Restart
  <2>7. CASE FinalizeEvents
    <3>1. CASE events[i].age = 2
      <4>1. online /\ Holds(events, o, i)
        BY <1>1, <2>0 DEF IInv, RouteInv, ObeyedHolds
      <4>2. NoReport(o)
        <5> SUFFICES ASSUME ~NoReport(o) PROVE FALSE
          OBVIOUS
        <5>1. PICK k \in 1 .. Len(node) : IsLast(o, k)
          BY <1>1, LastExists DEF IInv
        <5>2. node[k].event = i
          BY <1>1, <5>1 DEF IInv, RouteInv, LastReported
        <5>3. events[i].age <= 1
          BY <1>1, <5>1, <5>2 DEF IInv, RouteInv, ReportsTell, Tells
        <5> QED
          BY <3>1, <5>3
      <4>3. table[o] = StreamFor(events[i].route[2])
        BY <1>1, <2>0, <4>2 DEF IInv, RouteInv, Reported
      <4>4. Taken(events[i].route)
        BY <4>1, <4>3 DEF Taken, Holds
      <4>5. events'[i].status = "Y"
        BY <1>1, <2>7, <3>1, <4>4, FinalizeFacts DEF IInv
      <4> QED BY <4>5
    <3>2. CASE events[i].age # 2
      <4>1. events'[i] = events[i]
        BY <1>1, <2>7, <3>2, FinalizeFacts DEF IInv
      <4> QED BY <2>0, <4>1
    <3> QED BY <3>1, <3>2
  <2>8. CASE Tick
    <3>1. events'[i].status = events[i].status
      BY <1>1, <2>8, TickFacts DEF IInv
    <3> QED BY <2>0, <3>1
  <2>9. CASE UNCHANGED events
    BY <2>0, <2>9
  <2>10. ASSUME NEW c \in Client, ProcessIpcCommand(c) PROVE events'[i].status # "N"
    BY <2>9, <2>10 DEF ProcessIpcCommand
  <2>11. CASE DestinationChanged \/ NodeConnected \/ NodeDisconnected \/ Refresh \/ UpdateModel
    BY <2>9, <2>11 DEF DestinationChanged, NodeConnected, NodeDisconnected, Refresh, UpdateModel
  <2>12. CASE UNCHANGED vars
    BY <2>9, <2>12 DEF vars
  <2> QED
    BY <1>1, <2>2, <2>4, <2>5, <2>6, <2>7, <2>8, <2>10, <2>11, <2>12 DEF Next
<1>2. IInv /\ [Next]_vars =>
        [\A i \in Id : (Open(i) /\ \E o \in Output : obeyed[o] = i)
                        => events'[i].status # "N"]_vars
  BY <1>1
<1> QED
  BY <1>2, Invariant, PTL DEF Spec, NoFalseFailure

-----------------------------------------------------------------------------
(***************************************************************************)
(* Who reads the event log once all is done knows the crosspoints          *)
(* (LogTellsCrosspoint), for any numbers of clients, inputs and outputs,   *)
(* of events, lost nodes and restarts.                                     *)
(***************************************************************************)

\* A route event is finalized at the age of two, and not before.
FinalOld == \A i \in Id : events[i].type = "R" /\ Final(i) => events[i].age = 2

\* The last route to output o that the log calls taken.
LastTaken(o, m) == m \in TakenEvents(o) /\ \A j \in TakenEvents(o) : j <= m

\* It is the one the output has, unless the core has since set another whose event is
\* still open.
Told ==
  ~cut => \A o \in Output, m \in Id :
            ~Open(obeyed[o]) /\ LastTaken(o, m) => table[o] = StreamFor(events[m].route[2])

TellInv == FinalOld /\ Told

-----------------------------------------------------------------------------
(* What is under way belongs to an open event.                             *)

LEMMA ReportsAreOpen ==
  ASSUME IInv, FinalOld, NEW o \in Output, ~NoReport(o)
  PROVE  Open(obeyed[o]) /\ events[obeyed[o]].age <= 1
<1>1. PICK k \in 1 .. Len(node) : IsLast(o, k)
  BY LastExists DEF IInv
<1>2. node[k].event = obeyed[o] /\ Tells(events, node[k])
  BY <1>1 DEF IInv, RouteInv, LastReported, ReportsTell
<1> QED
  BY <1>2 DEF Tells, FinalOld, Final, Open, Id

LEMMA CommandsAreOpen ==
  ASSUME IInv, FinalOld, NEW c \in Client, ipc[c] # <<>>
  PROVE  Open(Head(ipc[c]).event)
<1>1. Head(ipc[c]) = ipc[c][1] /\ 1 \in 1 .. Len(ipc[c])
  BY TailFacts DEF IInv, TypeOK
<1>2. Fits(events, Head(ipc[c]))
  BY <1>1 DEF IInv, RouteInv, CommandsFit
<1> QED
  BY <1>2 DEF Fits, FinalOld, Final, Open, Id

\* The event of the command the core obeyed last is not called failed.
LEMMA ObeyedIsTaken ==
  ASSUME IInv, FinalOld, FinalizeEvents, NEW o \in Output, Open(obeyed[o]),
         events[obeyed[o]].age = 2
  PROVE  events'[obeyed[o]].status = "Y"
<1>1. obeyed[o] \in Id /\ obeyed[o] # 0
  BY DEF Open, Id, IInv, TypeOK
<1>2. online /\ Holds(events, o, obeyed[o])
  BY <1>1 DEF IInv, RouteInv, ObeyedHolds
<1>3. NoReport(o)
  BY ReportsAreOpen
<1>4. table[o] = StreamFor(events[obeyed[o]].route[2])
  BY <1>1, <1>3 DEF IInv, RouteInv, Reported
<1>5. Taken(events[obeyed[o]].route)
  BY <1>2, <1>4 DEF Taken, Holds
<1> QED
  BY <1>1, <1>5, FinalizeFacts DEF IInv

-----------------------------------------------------------------------------
(* The steps.                                                              *)

\* The events are those of before, and none that is added is a route that is taken.
SameRoutes ==
  /\ Len(events) <= Len(events')
  /\ \A i \in Id : /\ events'[i].type = events[i].type
                   /\ events'[i].status = events[i].status
                   /\ events[i].type = "R" => events'[i].route = events[i].route
  /\ \A i \in Len(events) + 1 .. Len(events') :
       events'[i].type = "R" => events'[i].status = "O"

\* No output whose last event is closed gets another stream.
LEMMA ToldKept ==
  ASSUME IInv, TypeOK', Told, SameRoutes, ~cut' => ~cut,
         ~cut' => \A o \in Output : ~Open(obeyed[o])' => ~Open(obeyed[o]) /\ table'[o] = table[o]
  PROVE  Told'
<1>0. Len(events) \in Nat /\ Len(events') \in Nat /\ Id \subseteq Id'
  BY DEF IInv, TypeOK, SameRoutes, Id
<1>1. ASSUME NEW o \in Output, NEW m \in Id', ~cut', ~Open(obeyed[o])', LastTaken(o, m)'
      PROVE  table'[o] = StreamFor(events'[m].route[2])
  <2>1. \A i \in Id' : i \notin Id => i \in Len(events) + 1 .. Len(events')
    BY <1>0 DEF Id
  <2>2. TakenEvents(o)' = TakenEvents(o)
    <3>1. ASSUME NEW i \in TakenEvents(o) PROVE i \in TakenEvents(o)'
      BY <1>0, <3>1 DEF TakenEvents, SameRoutes
    <3>2. ASSUME NEW i \in TakenEvents(o)' PROVE i \in TakenEvents(o)
      <4>1. i \in Id
        BY <2>1, <3>2 DEF TakenEvents, SameRoutes
      <4> QED BY <3>2, <4>1 DEF TakenEvents, SameRoutes
    <3> QED BY <3>1, <3>2
  <2>3. LastTaken(o, m) /\ m \in Id /\ events[m].type = "R"
    BY <1>1, <2>2 DEF LastTaken, TakenEvents
  <2>4. table[o] = StreamFor(events[m].route[2])
    BY <1>1, <2>3 DEF Told
  <2> QED
    BY <1>1, <2>3, <2>4 DEF SameRoutes, StreamFor
<1> QED
  BY <1>1 DEF Told, StreamFor

LEMMA AppendedSame ==
  ASSUME IInv, NEW e \in Event, events' = Append(events, e), e.type = "R" => e.status = "O"
  PROVE  /\ SameRoutes /\ (FinalOld => FinalOld')
         /\ \A i \in 0 .. Len(events) : Open(i)' <=> Open(i)
<1>1. /\ Len(events') = Len(events) + 1 /\ events'[Len(events) + 1] = e
      /\ \A i \in 1 .. Len(events) : events'[i] = events[i]
      /\ Len(events) \in Nat
  BY AppendFacts DEF IInv, TypeOK
<1>2. SameRoutes
  BY <1>1 DEF SameRoutes, Id
<1>3. FinalOld => FinalOld'
  BY <1>1 DEF FinalOld, Final, Id
<1>4. \A i \in 0 .. Len(events) : Open(i)' <=> Open(i)
  BY <1>1 DEF Open, Id
<1> QED BY <1>2, <1>3, <1>4

\* The log grows, the tables stay.
LEMMA AppendedTells ==
  ASSUME IInv, TypeOK', TellInv, NEW e \in Event, events' = Append(events, e),
         e.type = "R" => e.status = "O", UNCHANGED <<table, obeyed, cut>>
  PROVE  TellInv'
<1>1. SameRoutes /\ FinalOld' /\ \A i \in 0 .. Len(events) : Open(i)' <=> Open(i)
  BY AppendedSame DEF TellInv
<1>2. \A o \in Output : Open(obeyed[o])' <=> Open(obeyed[o])
  <2>1. \A o \in Output : obeyed[o] \in 0 .. Len(events)
    BY DEF IInv, TypeOK
  <2>2. \A i : Open(i)' <=> i \in 1 .. Len(events') /\ events'[i].status = "O"
    BY DEF Open, Id
  <2> QED BY <1>1, <2>1, <2>2 DEF Open
<1> QED
  BY <1>1, <1>2, ToldKept DEF TellInv

\* The connection is lost: what the core set is reported, or else an event is cut.
LEMMA LoseTells ==
  ASSUME IInv, TypeOK', TellInv, Lose, SameRoutes, FinalOld'
  PROVE  TellInv'
<1>1. ASSUME ~cut' PROVE ~cut /\ \A o \in Output : ~Open(obeyed[o]) /\ table'[o] = table[o]
  <2>1. ~cut /\ \A o \in Output : ~Open(obeyed[o])
    BY <1>1 DEF Lose
  <2>2. PICK reached \in 0 .. Len(node) :
          table' = [o \in Output |->
            LET set == {k \in 1 .. reached : node[k].output = o}
            IN IF set = {} THEN table[o] ELSE node[Max(set)].stream]
    BY DEF Lose
  <2>3. ASSUME NEW o \in Output PROVE table'[o] = table[o]
    <3>1. NoReport(o)
      BY <2>1, ReportsAreOpen DEF TellInv
    <3>2. {k \in 1 .. reached : node[k].output = o} = {}
      BY <3>1, NodeFacts DEF NoReport, IInv
    <3> QED BY <2>2, <3>2
  <2> QED BY <2>1, <2>3
<1> QED
  BY <1>1, ToldKept DEF TellInv

\* The timer closes the events of two seconds ago.
LEMMA FinalizeTells ==
  ASSUME IInv, TypeOK', TellInv, FinalizeEvents
  PROVE  TellInv'
<1>0. Id' = Id /\ Extends(events, events') /\ UNCHANGED <<table, obeyed, cut>>
      /\ \A i \in Id : IF Open(i) /\ events[i].age = 2
                        THEN events'[i].status = IF Taken(events[i].route) THEN "Y" ELSE "N"
                        ELSE events'[i] = events[i]
  BY FinalizeFacts DEF FinalizeEvents, nodes, Id, IInv
<1>1. FinalOld'
  BY <1>0 DEF TellInv, FinalOld, Final, Open, Extends, Id
<1>2. ASSUME NEW o \in Output, NEW m \in Id, ~cut, ~Open(obeyed[o])', LastTaken(o, m)'
      PROVE  table[o] = StreamFor(events'[m].route[2])
  <2>0. m \in TakenEvents(o)' /\ \A j \in TakenEvents(o)' : j <= m
    BY <1>2 DEF LastTaken
  <2>1. events'[m].type = "R" /\ events'[m].status = "Y" /\ events'[m].route[1] = o
    BY <2>0 DEF TakenEvents
  <2>2. events[m].type = "R" /\ events'[m].route = events[m].route
    BY <1>0, <2>1 DEF Extends, Id
  <2>3. CASE Open(m)
    <3>1. Taken(events[m].route)
      BY <1>0, <2>1, <2>3 DEF Open
    <3> QED BY <2>1, <2>2, <3>1 DEF Taken
  <2>4. CASE ~Open(m)
    <3>1. events'[m] = events[m] /\ Final(m)
      BY <1>0, <2>4 DEF Open, Final
    <3>2. ~Open(obeyed[o])
      <4> SUFFICES ASSUME Open(obeyed[o]) PROVE FALSE
        OBVIOUS
      <4>1. obeyed[o] \in Id /\ events[obeyed[o]].status = "O" /\ obeyed[o] # 0
        BY DEF Open, Id, IInv, TypeOK
      <4>2. events'[obeyed[o]].status # "O"
        BY <1>0, <1>2, <4>1 DEF Open
      <4>3. events[obeyed[o]].age = 2
        BY <1>0, <4>1, <4>2
      <4>4. events'[obeyed[o]].status = "Y"
        BY <4>3, ObeyedIsTaken DEF TellInv
      <4>5. Holds(events, o, obeyed[o])
        BY <4>1 DEF IInv, RouteInv, ObeyedHolds
      <4>6. obeyed[o] \in TakenEvents(o)'
        BY <1>0, <4>1, <4>4, <4>5 DEF TakenEvents, Holds, Extends, Id
      <4>7. obeyed[o] <= m /\ obeyed[o] # m
        BY <2>0, <2>4, <4>6
      <4>8. Final(obeyed[o])
        BY <2>2, <3>1, <4>1, <4>7 DEF IInv, LogInv, InOrder, Id
      <4> QED BY <4>1, <4>8 DEF Final
    <3>3. LastTaken(o, m)
      <4>1. m \in TakenEvents(o)
        BY <2>1, <3>1 DEF TakenEvents
      <4>2. ASSUME NEW j \in TakenEvents(o) PROVE j <= m
        <5>1. j \in Id /\ ~Open(j)
          BY DEF TakenEvents, Open
        <5>2. events'[j] = events[j]
          BY <1>0, <5>1
        <5>3. j \in TakenEvents(o)'
          BY <1>0, <5>1, <5>2 DEF TakenEvents
        <5> QED BY <2>0, <5>3
      <4> QED BY <4>1, <4>2 DEF LastTaken
    <3> QED
      BY <1>2, <3>1, <3>2, <3>3 DEF TellInv, Told
  <2> QED BY <2>3, <2>4
<1>3. Told'
  BY <1>0, <1>2 DEF Told, StreamFor
<1> QED BY <1>1, <1>3 DEF TellInv

LEMMA TellInit == Init => TellInv
BY DEF Init, TellInv, FinalOld, Told, LastTaken, TakenEvents, Id

LEMMA TellStep == IInv /\ TypeOK' /\ TellInv /\ [Next]_vars => TellInv'
<1> SUFFICES ASSUME IInv, TypeOK', TellInv, [Next]_vars PROVE TellInv'
  OBVIOUS
<1>1. ASSUME NEW c \in Client, RouteCommand(c) \/ SnapRoute(c) PROVE TellInv'
  <2>1. PICK r \in Route : ActivateRoute(c, r)
    BY <1>1, AskedFacts DEF IInv
  <2> DEFINE e == [type |-> "R", route |-> r, status |-> "O", age |-> 0]
  <2>2. e \in Event /\ events' = Append(events, e) /\ UNCHANGED <<table, obeyed, cut>>
    BY <2>1, ActivateFacts, NewEvents DEF core, nodes, IInv
  <2>3. e.status = "O"
    OBVIOUS
  <2> HIDE DEF e
  <2> QED BY <2>2, <2>3, AppendedTells
<1>2. ASSUME NEW type \in {"C", "S"}
      PROVE  Other(type) \in Event /\ Other(type).type # "R"
  BY DEF Other, Event, OtherEvent
<1>3. ASSUME NEW c \in Client, SnapCommand(c) PROVE TellInv'
  BY <1>2, <1>3, AppendedTells DEF SnapCommand, core, nodes
<1>4. ASSUME NEW state \in BOOLEAN, SetWriteable(state) PROVE TellInv'
  BY <1>2, <1>4, AppendedTells DEF SetWriteable, nodes
<1>5. CASE Restart
  <2>1. SameRoutes /\ FinalOld'
    BY <1>2, <1>5, AppendedSame DEF Restart, TellInv
  <2> QED BY <1>5, <2>1, LoseTells DEF Restart
<1>6. ASSUME UNCHANGED events
      PROVE  SameRoutes /\ FinalOld' /\ \A i : Open(i)' <=> Open(i)
  <2>1. Len(events) \in Nat
    BY DEF IInv, TypeOK
  <2>2. SameRoutes
    BY <1>6, <2>1 DEF SameRoutes, Id
  <2>3. FinalOld'
    BY <1>6 DEF TellInv, FinalOld, Final, Id
  <2>4. \A i : Open(i)' <=> Open(i)
    BY <1>6 DEF Open, Id
  <2> QED BY <2>2, <2>3, <2>4
<1>7. CASE NodeDisconnected
  BY <1>6, <1>7, LoseTells DEF NodeDisconnected
<1>8. CASE FinalizeEvents
  BY <1>8, FinalizeTells
<1>9. CASE Tick
  <2>1. /\ Len(events') = Len(events) /\ UNCHANGED <<table, obeyed, cut>>
        /\ \A i \in Id : /\ events'[i].type = events[i].type
                         /\ events[i].type = "R" => events'[i].route = events[i].route
                         /\ events'[i].status = events[i].status
                         /\ events'[i].age = IF events[i].age < 2 THEN events[i].age + 1
                                                                 ELSE events[i].age
    BY <1>9, TickFacts DEF Tick, nodes, IInv
  <2>2. SameRoutes
    BY <2>1 DEF SameRoutes, IInv, TypeOK
  <2>3. FinalOld'
    BY <2>1 DEF TellInv, FinalOld, Final, Id
  <2>4. \A o \in Output : Open(obeyed[o])' <=> Open(obeyed[o])
    BY <2>1 DEF Open, Id
  <2> QED BY <2>1, <2>2, <2>3, <2>4, ToldKept DEF TellInv
<1>10. ASSUME NEW c \in Client, ProcessIpcCommand(c) PROVE TellInv'
  <2>1. ipc[c] # <<>> /\ UNCHANGED <<events, table, cut>>
        /\ \/ obeyed' = obeyed
           \/ obeyed' = [obeyed EXCEPT ![Head(ipc[c]).output] = Head(ipc[c]).event]
    BY <1>10 DEF ProcessIpcCommand
  <2>2. Open(Head(ipc[c]).event)
    BY <2>1, CommandsAreOpen DEF TellInv
  <2>3. \A o \in Output : obeyed'[o] \in {obeyed[o], Head(ipc[c]).event}
    BY <2>1 DEF IInv, TypeOK
  <2>4. \A o \in Output : Open(obeyed[o])' <=> Open(obeyed'[o])
    BY <2>1 DEF Open, Id
  <2>5. \A o \in Output : ~Open(obeyed[o])' => ~Open(obeyed[o])
    BY <2>2, <2>3, <2>4
  <2> QED BY <1>6, <2>1, <2>5, ToldKept DEF TellInv
<1>11. CASE DestinationChanged
  <2>1. node # <<>> /\ UNCHANGED <<events, obeyed, cut>>
        /\ table' = [table EXCEPT ![Head(node).output] = Head(node).stream]
    BY <1>11 DEF DestinationChanged
  <2>2. Head(node) = node[1] /\ 1 \in 1 .. Len(node)
    BY <2>1, NodeFacts, TailFacts DEF IInv
  <2>3. ASSUME NEW o \in Output, ~Open(obeyed[o]) PROVE table'[o] = table[o]
    <3>1. NoReport(o)
      BY <2>3, ReportsAreOpen DEF TellInv
    <3>2. Head(node).output # o
      BY <2>2, <3>1 DEF NoReport
    <3> QED BY <2>1, <3>2 DEF IInv, TypeOK
  <2>4. \A o \in Output : Open(obeyed[o])' <=> Open(obeyed[o])
    BY <2>1 DEF Open, Id
  <2> QED BY <1>6, <2>1, <2>3, <2>4, ToldKept DEF TellInv
<1>12. ASSUME UNCHANGED <<events, table, obeyed, cut>> PROVE TellInv'
  <2>1. \A o \in Output : Open(obeyed[o])' <=> Open(obeyed[o])
    BY <1>12 DEF Open, Id
  <2> QED BY <1>6, <1>12, <2>1, ToldKept DEF TellInv
<1>13. CASE NodeConnected \/ Refresh \/ UpdateModel
  BY <1>12, <1>13 DEF NodeConnected, Refresh, UpdateModel, core, nodes
<1>14. CASE UNCHANGED vars
  BY <1>12, <1>14 DEF vars, core, nodes
<1> QED
  BY <1>1, <1>3, <1>4, <1>5, <1>7, <1>8, <1>9, <1>10, <1>11, <1>13, <1>14 DEF Next

-----------------------------------------------------------------------------
(* The theorem.                                                            *)

\* The last route to an output that the log calls taken is the one the output has, when
\* nothing is under way and no event is open, unless a connection was lost on an open
\* one (finalizeEventsData, ProcessIpcCommand).
THEOREM LogTells == Spec => []LogTellsCrosspoint
<1>1. IInv /\ TellInv => LogTellsCrosspoint
  <2> SUFFICES ASSUME IInv, TellInv, Quiet, ~cut, NEW o \in Output, TakenEvents(o) # {}
               PROVE  table[o] = StreamFor(events[Max(TakenEvents(o))].route[2])
    BY DEF LogTellsCrosspoint
  <2>1. TakenEvents(o) \subseteq 0 .. Len(events) /\ Len(events) \in Nat
        /\ TakenEvents(o) \subseteq Id
    BY DEF TakenEvents, Id, IInv, TypeOK
  <2>2. LastTaken(o, Max(TakenEvents(o)))
    BY <2>1, MaxFacts DEF LastTaken
  <2>3. Max(TakenEvents(o)) \in Id /\ ~Open(obeyed[o])
    BY <2>1, <2>2 DEF LastTaken, Quiet, Open
  <2> QED BY <2>2, <2>3 DEF TellInv, Told
<1>2. IInv /\ IInv' /\ TellInv /\ [Next]_vars => TellInv'
  BY TellStep DEF IInv
<1> QED
  BY <1>1, <1>2, TellInit, Invariant, PTL DEF Spec

=============================================================================
