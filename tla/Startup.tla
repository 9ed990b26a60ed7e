------------------------------- MODULE Startup -------------------------------
(***************************************************************************)
(* How an instance comes up, and comes up again after a crash: the core    *)
(* brings the permanent tables to the present schema one statement at a    *)
(* time, makes the others anew (drouter.cpp), then drouterd starts the two *)
(* protocol processes, which ask the core for their listening sockets      *)
(* (dprotod.cpp), and the scripts, which it restarts when they end         *)
(* (scriptengine.cpp).  systemd starts drouterd again whenever it ends and *)
(* kills what it has forked (drouter.service).                             *)
(*                                                                         *)
(* The database commits every statement by itself, and SqlQuery::apply     *)
(* goes on when one fails: "add column" of a column that is there changes  *)
(* nothing.  The tables of the state of the nodes are one table, NODES.    *)
(***************************************************************************)
EXTENDS Naturals, Sequences

CONSTANTS
  Script,         \* the scripts in /etc/drouter/scripts.d
  OldVersion,     \* the schema versions a database may have at first, 0 for none
  MaxEvents,      \* bound: events ever written
  MaxCrashes      \* bound: how often the daemon ends

Proto == {"d", "sa"}
Slot  == Proto \cup Script

ASSUME StartupAssumption ==
  /\ Proto \cap Script = {}
  /\ OldVersion \subseteq 0 .. 6
  /\ MaxEvents \in Nat /\ MaxCrashes \in Nat

VARIABLES
  db,             \* the database
  phase,          \* of the daemon: dead, db (in StartDb) or running
  old,            \* the tables StartDb has still to drop
  schema_ver,     \* the version it has reached, or one more when the new tables are made
  next,           \* which statement of the next version it executes next
  writeable,      \* drouter_writeable
  nodes,          \* the core has reported a node in this life
  lost,           \* history: a daemon found PERM_VERSION without its row
  forked,         \* protocolData has run
  scanning,       \* script_scan_timer is running
  proc,           \* proc[s]: none, running, phantom or zombie
  engine,         \* engine[s]: absent, or the name script_scripts has for it
  asked,          \* the protocol processes whose question is in the core's socket
  socket,         \* the listening sockets the core still has
  listening,      \* the protocol processes that got theirs
  crashes         \* ends of the daemon so far

local  == <<old, schema_ver, next>>
daemon == <<phase, local, writeable, nodes, lost>>
procs  == <<forked, scanning, proc, engine, asked, socket, listening>>
vars   == <<db, daemon, procs, crashes>>

-----------------------------------------------------------------------------
(* The statements of StartDb.                                              *)

Column == {"USERNAME", "HOSTNAME", "TYPE", "COMMENT",
           "ROUTER_NAME", "SOURCE_NAME", "DESTINATION_NAME"}
Widened   == {"USERNAME", "HOSTNAME", "ORIGINATING_ADDRESS"}
Ephemeral == {"NODES", "TETHER"}

\* What a database may hold: the table PERM_VERSION and its row (0 for none), the
\* table PERM_SA_EVENTS with its columns, the values of TYPE, the widened columns
\* and the events with the type they were written with; the other tables.
NoDatabase ==
  [versioned |-> FALSE, row |-> 0, log |-> FALSE, columns |-> {}, types |-> {},
   wide |-> {}, events |-> <<>>, tables |-> {}, rows |-> FALSE, tether |-> <<>>]

Retyped(events) == [i \in DOMAIN events |-> [events[i] EXCEPT !.type = "R"]]

\* A statement that fails changes nothing.
Apply(d, s) ==
  CASE s.do = "create version" -> [d EXCEPT !.versioned = TRUE]
    [] s.do = "insert version" -> [d EXCEPT !.row = s.version]
    [] s.do = "update version" -> IF d.row = 0 THEN d ELSE [d EXCEPT !.row = s.version]
    [] s.do = "create log"     -> [d EXCEPT !.log = TRUE]
    [] s.do = "add"            -> [d EXCEPT !.columns = @ \cup {s.column}]
    [] s.do = "retype"         -> [d EXCEPT !.events = Retyped(@)]
    [] s.do = "enum"           -> [d EXCEPT !.types = s.types]
    [] s.do = "widen"          -> [d EXCEPT !.wide = @ \cup {s.column}]
    [] s.do = "drop"           -> [d EXCEPT !.tables = @ \ {s.table},
                                            !.rows = @ /\ s.table # "NODES",
                                            !.tether = IF s.table = "TETHER" THEN <<>> ELSE @]
    [] s.do = "create"         -> [d EXCEPT !.tables = @ \cup {s.table}]
    [] s.do = "insert tether"  -> [d EXCEPT !.tether = Append(@, "N")]

Add(c)   == [do |-> "add", column |-> c]
Widen(c) == [do |-> "widen", column |-> c]
Enum(t)  == [do |-> "enum", types |-> t]
Drop(t)  == [do |-> "drop", table |-> t]
Create(t) == [do |-> "create", table |-> t]

\* What each version adds to the one before; "modify column" matters only where it
\* changes the values a column takes.
Changes == <<
  << [do |-> "create version"], [do |-> "insert version", version |-> 1] >>,
  << [do |-> "create log"] >>,
  << Add("USERNAME"), Add("HOSTNAME") >>,
  << Add("TYPE"), [do |-> "retype"], Enum({"C", "R"}), Add("COMMENT") >>,
  << Add("ROUTER_NAME"), Add("SOURCE_NAME"), Add("DESTINATION_NAME") >>,
  << Enum({"C", "R", "S"}), Widen("USERNAME"), Widen("HOSTNAME"),
     Widen("ORIGINATING_ADDRESS") >> >>

Latest == Len(Changes)

\* Mutant: the version is written before what it stands for.
VersionFirst(v) ==
  IF v = 1 THEN Changes[1]
           ELSE << [do |-> "update version", version |-> v] >> \o Changes[v]

\* Mutant: the version is not written.
VersionForgotten(v) == Changes[v]

Upgrade(v) ==
  IF v = 1 THEN Changes[1]
           ELSE Changes[v] \o << [do |-> "update version", version |-> v] >>

\* schema_ver as read: a table without a row counts as version 1.
SchemaVersion(d) == IF ~d.versioned THEN 0 ELSE IF d.row = 0 THEN 1 ELSE d.row

\* Mutant: the tables of the last life are kept.
OldTablesKept(d) == {}

\* Every table that is not a permanent one is dropped.
OldTables(d) == d.tables

NewTables == << Create("NODES"), Create("TETHER"), [do |-> "insert tether"] >>

\* The versions in turn, and then the new tables.
Block(v) == IF v > Latest THEN NewTables ELSE Upgrade(v)

\* The columns of a version.
Added(v) == {Changes[v][k].column : k \in {j \in DOMAIN Changes[v] : Changes[v][j].do = "add"}}

\* A database that version v left; from version 4 events have a type.
Database(v) ==
  [NoDatabase EXCEPT
     !.versioned = (v >= 1),
     !.row       = v,
     !.log       = (v >= 2),
     !.columns   = UNION {Added(w) : w \in 2 .. v},
     !.types     = IF v < 4 THEN {} ELSE IF v < 6 THEN {"C", "R"} ELSE {"C", "R", "S"},
     !.wide      = IF v < 6 THEN {} ELSE Widened,
     !.events    = IF v < 2 THEN <<>>
                   ELSE << IF v < 4 THEN [wrote |-> "R", type |-> "none"]
                                    ELSE [wrote |-> "C", type |-> "C"] >>]

-----------------------------------------------------------------------------
Event == [wrote : {"C", "R", "S"}, type : {"C", "R", "S", "none"}]

Databases ==
  [versioned : BOOLEAN, row : 0 .. Latest, log : BOOLEAN, columns : SUBSET Column,
   types : {{}, {"C", "R"}, {"C", "R", "S"}}, wide : SUBSET Widened, events : Seq(Event),
   tables : SUBSET Ephemeral, rows : BOOLEAN, tether : Seq({"N", "Y"})]

\* Every variable has its type; what no process stands behind is not asked for.
TypeOK ==
  /\ db \in Databases /\ (db.row > 0 => db.versioned)
  /\ phase \in {"dead", "db", "running"}
  /\ old \subseteq Ephemeral /\ (old # {} => phase = "db")
  /\ schema_ver \in 0 .. Latest + 1
  /\ next \in 1 .. IF schema_ver > Latest THEN 1 ELSE Len(Block(schema_ver + 1))
  /\ writeable \in BOOLEAN /\ nodes \in BOOLEAN /\ lost \in BOOLEAN
  /\ forked \in BOOLEAN /\ scanning \in BOOLEAN
  /\ proc \in [Slot -> {"none", "running", "phantom", "zombie"}]
  /\ engine \in [Slot -> {"absent", "empty"} \cup Script]
  /\ asked \subseteq Proto /\ socket \subseteq Proto
  /\ listening \subseteq {p \in Proto : proc[p] = "running"} \ socket
  /\ crashes \in 0 .. MaxCrashes

NoProcesses ==
  /\ forked' = FALSE
  /\ scanning' = FALSE
  /\ proc' = [s \in Slot |-> "none"]
  /\ engine' = [s \in Slot |-> "absent"]
  /\ asked' = {}
  /\ socket' = Proto
  /\ listening' = {}

Init ==
  /\ \E v \in OldVersion : db = Database(v)
  /\ phase = "dead" /\ old = {} /\ schema_ver = 0 /\ next = 1
  /\ writeable = FALSE /\ nodes = FALSE /\ lost = FALSE
  /\ forked = FALSE /\ scanning = FALSE
  /\ proc = [s \in Slot |-> "none"]
  /\ engine = [s \in Slot |-> "absent"]
  /\ asked = {} /\ socket = Proto /\ listening = {}
  /\ crashes = 0

-----------------------------------------------------------------------------
(* The core.                                                               *)

WriteEvent(d, t) == [d EXCEPT !.events = Append(@, [wrote |-> t, type |-> t])]

\* systemd starts drouterd, and StartDb looks at the database.
Start ==
  /\ phase = "dead"
  /\ phase' = "db"
  /\ old' = OldTables(db) /\ schema_ver' = SchemaVersion(db) /\ next' = 1
  /\ lost' = (lost \/ (db.versioned /\ db.row = 0))
  /\ UNCHANGED <<db, writeable, nodes, procs, crashes>>

\* What StartDb found is dropped.
DropTable ==
  /\ \E t \in old : db' = Apply(db, Drop(t)) /\ old' = old \ {t}
  /\ UNCHANGED <<schema_ver, next>>

\* Then the next statement is executed.
Execute ==
  /\ old = {} /\ schema_ver <= Latest
  /\ LET block == Block(schema_ver + 1)
     IN /\ db' = Apply(db, block[next])
        /\ IF next < Len(block) THEN next' = next + 1 /\ UNCHANGED schema_ver
                               ELSE next' = 1 /\ schema_ver' = schema_ver + 1
  /\ UNCHANGED old

StartDb ==
  /\ phase = "db"
  /\ DropTable \/ Execute
  /\ UNCHANGED <<phase, writeable, nodes, lost, procs, crashes>>

\* The rest of DRouter::start; the IPC socket listens, and the protocol timer runs.
Started ==
  /\ phase = "db" /\ schema_ver > Latest
  /\ Len(db.events) < MaxEvents
  /\ phase' = "running"
  /\ db' = WriteEvent(db, "C")
  /\ UNCHANGED <<local, writeable, nodes, lost, procs, crashes>>

\* nodeConnectedData inserts the rows of a node.
NodeConnected ==
  /\ phase = "running" /\ ~nodes
  /\ nodes' = TRUE
  /\ db' = [db EXCEPT !.rows = TRUE]
  /\ UNCHANGED <<phase, local, writeable, lost, procs, crashes>>

\* Called by the tether, which protocolData starts: the row of TETHER is updated,
\* and a comment says so.
Told(d, state) ==
  WriteEvent([d EXCEPT !.tether = [k \in DOMAIN @ |-> IF state THEN "Y" ELSE "N"]], "C")

SetWriteable ==
  /\ phase = "running" /\ forked
  /\ Len(db.events) < MaxEvents
  /\ writeable' = ~writeable
  /\ db' = Told(db, ~writeable)
  /\ UNCHANGED <<phase, local, nodes, lost, procs, crashes>>

\* A Software Authority client activates a snapshot.
AddSnapEvent ==
  /\ "sa" \in listening
  /\ Len(db.events) < MaxEvents
  /\ db' = WriteEvent(db, "S")
  /\ UNCHANGED <<daemon, procs, crashes>>

\* What is left of the daemon when it ends, for whatever reason.
End ==
  /\ crashes < MaxCrashes
  /\ crashes' = crashes + 1
  /\ phase' = "dead" /\ old' = {} /\ schema_ver' = 0 /\ next' = 1
  /\ writeable' = FALSE /\ nodes' = FALSE
  /\ UNCHANGED lost
  /\ NoProcesses

Crash ==
  /\ phase # "dead"
  /\ End
  /\ UNCHANGED db

\* exitData: not writeable any more, and a comment from the destructor.
Exit ==
  /\ phase = "running"
  /\ Len(db.events) + 1 < MaxEvents
  /\ End
  /\ db' = WriteEvent(IF writeable THEN Told(db, FALSE) ELSE db, "C")

-----------------------------------------------------------------------------
(* The processes.                                                          *)

\* The two protocol processes are forked, 30 seconds after the start.
ProtocolData ==
  /\ phase = "running" /\ ~forked
  /\ forked' = TRUE
  /\ proc' = [s \in Slot |-> IF s \in Proto THEN "running" ELSE proc[s]]
  /\ UNCHANGED <<db, daemon, scanning, engine, asked, socket, listening, crashes>>

\* ScriptEngine::start, five seconds later.
ScriptsData ==
  /\ forked /\ ~scanning
  /\ scanning' = TRUE
  /\ proc' = [s \in Slot |-> IF s \in Script THEN "running" ELSE proc[s]]
  /\ engine' = [s \in Slot |-> IF s \in Script THEN s ELSE engine[s]]
  /\ UNCHANGED <<db, daemon, forked, asked, socket, listening, crashes>>

\* MainObject::StartIpc of dprotod: it asks and waits.
Ask(p) ==
  /\ proc[p] = "running" /\ p \notin asked \cup listening
  /\ asked' = asked \cup {p}
  /\ UNCHANGED <<db, daemon, forked, scanning, proc, engine, socket, listening, crashes>>

\* Mutant: the other socket is closed.
ClosedOther(p) == Proto \ {p}

\* Mutant: the core keeps its copy.
ClosedNone(p) == {}

Closed(p) == {p}

\* The core sends the socket, closes its own copy and the connection.
SendProtoSocket(p) ==
  /\ p \in asked
  /\ asked' = asked \ {p}
  /\ p \in socket /\ proc[p] = "running"
  /\ socket' = socket \ Closed(p)
  /\ listening' = listening \cup {p}
  /\ UNCHANGED <<db, daemon, forked, scanning, proc, engine, crashes>>

\* sendmsg fails: the asker is gone, or the socket is.
SendFailed(p) ==
  /\ p \in asked
  /\ ~(p \in socket /\ proc[p] = "running")
  /\ End
  /\ UNCHANGED db

\* A child ends; the processes of its clients go with a protocol process.
ChildEnds(s) ==
  /\ proc[s] \in {"running", "phantom"}
  /\ proc' = [proc EXCEPT ![s] = "zombie"]
  /\ listening' = listening \ {s}
  /\ UNCHANGED <<db, daemon, forked, scanning, engine, asked, socket, crashes>>

\* Mutant: the entry is removed before the name is read.
NameAfterRemove(s) == "empty"

\* The name script_scripts has for an ended child: none for a protocol process,
\* which the subscript operator then enters with an empty one.
NameOf(s) == IF engine[s] = "absent" THEN "empty" ELSE engine[s]

\* scanData reaps every child that has ended and forks what its name says; with an
\* empty name that is a child that fails to execute a directory and exits.
ScanData ==
  LET ended == {s \in Slot : proc[s] = "zombie"} IN
  /\ scanning /\ ended # {}
  /\ engine' = [s \in Slot |-> IF s \in ended THEN NameOf(s) ELSE engine[s]]
  /\ proc' = [s \in Slot |-> IF s \notin ended THEN proc[s]
                             ELSE IF NameOf(s) = "empty" THEN "phantom" ELSE "running"]
  /\ UNCHANGED <<db, daemon, forked, scanning, asked, socket, listening, crashes>>

Next ==
  \/ Start
  \/ StartDb
  \/ Started
  \/ NodeConnected
  \/ SetWriteable
  \/ AddSnapEvent
  \/ Crash
  \/ Exit
  \/ ProtocolData
  \/ ScriptsData
  \/ \E p \in Proto : Ask(p)
  \/ \E p \in Proto : SendProtoSocket(p)
  \/ \E p \in Proto : SendFailed(p)
  \/ \E s \in Slot : ChildEnds(s)
  \/ ScanData

Spec == Init /\ [][Next]_vars

\* systemd, the event loops and the timers go on; a phantom ends by itself.
FairSpec ==
  /\ Spec
  /\ WF_vars(Start) /\ WF_vars(StartDb) /\ WF_vars(Started)
  /\ WF_vars(ProtocolData) /\ WF_vars(ScriptsData) /\ WF_vars(ScanData)
  /\ \A p \in Proto : /\ WF_vars(Ask(p))
                      /\ WF_vars(SendProtoSocket(p))
                      /\ WF_vars(SendFailed(p))
                      /\ WF_vars(proc[p] = "phantom" /\ ChildEnds(p))

-----------------------------------------------------------------------------
(* Properties.                                                             *)

\* Wherever a start was cut off, the version that is written down stands for columns
\* that are there, and a core that runs has the whole of the present schema.
SchemaHolds ==
  /\ \A v \in 2 .. db.row : db.log /\ Added(v) \subseteq db.columns
  /\ (db.row = Latest \/ phase = "running") =>
       /\ db.columns = Column
       /\ db.types = {"C", "R", "S"}
       /\ db.wide = Widened

\* However often it is started again, an event keeps the type it was written with,
\* unless a daemon that was killed left the version table without a row: then every
\* start goes through all upgrades again and makes route events of all.
KeepsTypes ==
  lost \/ \A i \in DOMAIN db.events :
            LET e == db.events[i] IN e.type = e.wrote \/ (e.type = "none" /\ e.wrote = "R")

\* While a core runs, TETHER has one row, which says whether this instance is
\* active, and the tables hold only nodes that this life of the core has met.
FreshTables ==
  phase = "running" =>
    /\ db.tether = << IF writeable THEN "Y" ELSE "N" >>
    /\ (db.rows => nodes)

\* A script that has ended runs again, unless the daemon ends too.
ScriptsRestart ==
  \A s \in Script : (scanning /\ proc[s] = "zombie") ~> (proc[s] = "running" \/ phase = "dead")

\* The core dies of a question only when the process that asked has gone.
DiesOfTheDead ==
  [][\A p \in Proto : SendFailed(p) => proc[p] # "running"]_vars

=============================================================================
