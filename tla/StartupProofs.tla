---------------------------- MODULE StartupProofs ----------------------------
(***************************************************************************)
(* Wherever a start is cut off, and however often: the version written     *)
(* down stands for what is there (SchemaHolds), events keep their types    *)
(* (KeepsTypes), nothing of an earlier life is shown (FreshTables), and    *)
(* the core dies of no question but a dead process's (DiesOfTheDead); for  *)
(* any scripts, any earlier versions, any number of events and of ends.    *)
(***************************************************************************)
EXTENDS Startup, TLAPS

-----------------------------------------------------------------------------
(* The inductive invariant.                                                *)

\* What a statement makes is there.
Did(d, s) ==
  /\ s.do = "create version" => d.versioned
  /\ s.do = "create log" => d.log
  /\ s.do = "add" => s.column \in d.columns
  /\ s.do = "enum" => s.types \subseteq d.types
  /\ s.do = "widen" => s.column \in d.wide
  /\ s.do = "create" => s.table \in d.tables

\* What version v made is there.
Has(d, v) == \A j \in DOMAIN Changes[v] : Did(d, Changes[v][j])

\* Version v is written down, or StartDb has got to it.
Made(v) == db.row >= v \/ phase = "running" \/ (phase = "db" /\ schema_ver >= v)

SchemaInv ==
  /\ \A v \in 1 .. Latest : Made(v) => Has(db, v)
  /\ phase = "db" /\ schema_ver <= Latest =>
       \A j \in 1 .. next - 1 : Did(db, Block(schema_ver + 1)[j])

\* The version written down is the one StartDb has got to, unless the row is lost.
RowInv ==
  /\ lost => db.versioned /\ db.row = 0 /\ (phase = "db" => schema_ver >= 1)
  /\ ~lost /\ phase = "db" =>
       /\ db.row = (IF schema_ver > Latest THEN Latest ELSE schema_ver)
  /\ ~lost /\ phase = "running" => db.row = Latest

\* Before there are types all events are of routes.
EventsInv ==
  ~lost => /\ KeepsTypes
           /\ db.row < 4 => \A i \in DOMAIN db.events : db.events[i].wrote = "R"

\* What is dropped is forgotten, and nothing is in a table that is not there.
TablesInv ==
  /\ db.rows => "NODES" \in db.tables
  /\ db.tether # <<>> => "TETHER" \in db.tables
  /\ old # {} => next = 1 /\ schema_ver <= Latest /\ old = db.tables
  /\ phase = "db" /\ old = {} =>
       /\ ~db.rows
       /\ db.tether = IF schema_ver > Latest THEN <<"N">> ELSE <<>>
  /\ phase = "db" /\ schema_ver > Latest => db.tables = Ephemeral
  /\ phase = "running" => db.tables = Ephemeral /\ FreshTables

\* Processes are those of a running daemon, and a protocol process that runs has its
\* socket or will find it with the core.
ProcInv ==
  /\ phase # "running" => ~forked /\ ~writeable /\ ~nodes
  /\ ~forked => /\ ~scanning /\ proc = [s \in Slot |-> "none"]
                /\ asked = {} /\ listening = {} /\ socket = Proto
  /\ asked \cap listening = {}
  /\ \A p \in Proto : /\ engine[p] \in {"absent", "empty"}
                      /\ proc[p] = "running" => p \in socket \cup listening

IInv == TypeOK /\ SchemaInv /\ RowInv /\ EventsInv /\ TablesInv /\ ProcInv

-----------------------------------------------------------------------------
(* The statements, one by one.                                              *)

LEMMA LatestIs == Latest = 6
  BY DEF Latest, Changes

LEMMA OneVersion == 1 \in 0 .. Latest
  BY LatestIs

\* How many statements each version adds.
LEMMA ChangesLength ==
  /\ Latest = 6
  /\ DOMAIN Changes[1] = 1 .. 2 /\ DOMAIN Changes[2] = 1 .. 1
  /\ DOMAIN Changes[3] = 1 .. 2 /\ DOMAIN Changes[4] = 1 .. 4
  /\ DOMAIN Changes[5] = 1 .. 3 /\ DOMAIN Changes[6] = 1 .. 4
<1>1. Latest = 6
  BY LatestIs
<1>2. DOMAIN Changes[1] = 1 .. 2
  BY DEF Changes
<1>3. DOMAIN Changes[2] = 1 .. 1
  BY DEF Changes
<1>4. DOMAIN Changes[3] = 1 .. 2
  BY DEF Changes
<1>5. DOMAIN Changes[4] = 1 .. 4
  BY DEF Changes
<1>6. DOMAIN Changes[5] = 1 .. 3
  BY DEF Changes
<1>7. DOMAIN Changes[6] = 1 .. 4
  BY DEF Changes
<1> QED BY <1>1, <1>2, <1>3, <1>4, <1>5, <1>6, <1>7

\* From the second on a version ends with the update of its number.
Update(v) == [do |-> "update version", version |-> v]

\* A version with n statements of its own: they come first and in order.
LEMMA Appended ==
  ASSUME NEW S, NEW s \in Seq(S), NEW e
  PROVE  /\ Len(s \o <<e>>) = Len(s) + 1
         /\ \A k \in 1 .. Len(s) : (s \o <<e>>)[k] = s[k]
         /\ (s \o <<e>>)[Len(s) + 1] = e
<1>1. s \in Seq(S \cup {e}) /\ <<e>> \in Seq(S \cup {e})
  OBVIOUS
<1>2. Len(<<e>>) = 1 /\ <<e>>[1] = e
  OBVIOUS
<1> QED BY <1>1, <1>2

LEMMA BlockOf ==
  ASSUME NEW v \in 2 .. 6
  PROVE  /\ Len(Block(v)) = Len(Changes[v]) + 1
         /\ Len(Changes[v]) \in Nat /\ DOMAIN Changes[v] = 1 .. Len(Changes[v])
         /\ \A k \in DOMAIN Changes[v] : Block(v)[k] = Changes[v][k]
         /\ Block(v)[Len(Changes[v]) + 1] = Update(v)
<1> DEFINE c == Changes[v]
<1>1. \E S : c \in Seq(S)
  <2>2. CASE v = 2
    <3>1. Changes[2] \in Seq({[do |-> "create log"]})
      BY DEF Changes
    <3> QED BY <2>2, <3>1
  <2>3. CASE v = 3
    <3>1. Changes[3] \in Seq({Add("USERNAME"), Add("HOSTNAME")})
      BY DEF Changes
    <3> QED BY <2>3, <3>1
  <2>4. CASE v = 4
    <3>1. Changes[4] \in Seq({Add("TYPE"), [do |-> "retype"], Enum({"C", "R"}), Add("COMMENT")})
      BY DEF Changes
    <3> QED BY <2>4, <3>1
  <2>5. CASE v = 5
    <3>1. Changes[5] \in Seq({Add("ROUTER_NAME"), Add("SOURCE_NAME"), Add("DESTINATION_NAME")})
      BY DEF Changes
    <3> QED BY <2>5, <3>1
  <2>6. CASE v = 6
    <3>1. Changes[6] \in Seq({Enum({"C", "R", "S"}), Widen("USERNAME"), Widen("HOSTNAME"),
                              Widen("ORIGINATING_ADDRESS")})
      BY DEF Changes
    <3> QED BY <2>6, <3>1
  <2> QED BY <2>2, <2>3, <2>4, <2>5, <2>6
<1>2. PICK S : c \in Seq(S)
  BY <1>1
<1>3. Block(v) = c \o <<Update(v)>>
  <2>1. Block(v) = Upgrade(v)
    BY ChangesLength DEF Block
  <2>2. v # 1
    OBVIOUS
  <2>3. Upgrade(v) = c \o <<[do |-> "update version", version |-> v]>>
    BY <2>2, Zenon DEF Upgrade
  <2> QED BY <2>1, <2>3 DEF Update
<1>4. Len(c) \in Nat /\ DOMAIN c = 1 .. Len(c)
  BY <1>2
<1> HIDE DEF c
<1>5. /\ Len(c \o <<Update(v)>>) = Len(c) + 1
      /\ \A k \in 1 .. Len(c) : (c \o <<Update(v)>>)[k] = c[k]
      /\ (c \o <<Update(v)>>)[Len(c) + 1] = Update(v)
  BY <1>2, Appended
<1>6. /\ Len(Block(v)) = Len(c) + 1
      /\ \A k \in DOMAIN c : Block(v)[k] = c[k]
      /\ Block(v)[Len(c) + 1] = Update(v)
  BY <1>3, <1>4, <1>5
<1> QED BY <1>4, <1>6 DEF c

LEMMA FirstBlock ==
  /\ Len(Block(1)) = 2
  /\ Block(1)[1] = [do |-> "create version"]
  /\ Block(1)[2] = [do |-> "insert version", version |-> 1]
<1>1. PICK t : t = Block(1)
  OBVIOUS
<1>2. Block(1) = Changes[1]
  BY ChangesLength DEF Block, Upgrade
<1>3. Changes[1] = << [do |-> "create version"], [do |-> "insert version", version |-> 1] >>
  BY DEF Changes
<1>4. t = << [do |-> "create version"], [do |-> "insert version", version |-> 1] >>
  BY <1>1, <1>2, <1>3
<1>5. t[1] = [do |-> "create version"]
  BY <1>4
<1>6. t[2] = [do |-> "insert version", version |-> 1]
  BY <1>4
<1>7. Len(t) = 2
  BY <1>4
<1> QED BY <1>1, <1>5, <1>6, <1>7

LEMMA LastBlock ==
  /\ Len(Block(7)) = 3
  /\ Block(7)[1] = Create("NODES") /\ Block(7)[2] = Create("TETHER")
  /\ Block(7)[3] = [do |-> "insert tether"]
<1>1. PICK t : t = Block(7)
  OBVIOUS
<1>2. Block(7) = NewTables
  BY ChangesLength DEF Block
<1>3. t = << Create("NODES"), Create("TETHER"), [do |-> "insert tether"] >>
  BY <1>1, <1>2 DEF NewTables
<1>4. t[1] = Create("NODES")
  BY <1>3
<1>5. t[2] = Create("TETHER")
  BY <1>3
<1>6. t[3] = [do |-> "insert tether"]
  BY <1>3
<1>7. Len(t) = 3
  BY <1>3
<1> QED BY <1>1, <1>4, <1>5, <1>6, <1>7

\* What the versions add.
LEMMA ChangesAre ==
  /\ Changes[1][1] = [do |-> "create version"]
  /\ Changes[1][2] = [do |-> "insert version", version |-> 1]
  /\ Changes[2][1] = [do |-> "create log"]
  /\ Changes[3][1] = Add("USERNAME") /\ Changes[3][2] = Add("HOSTNAME")
  /\ Changes[4][1] = Add("TYPE") /\ Changes[4][2] = [do |-> "retype"]
  /\ Changes[4][3] = Enum({"C", "R"}) /\ Changes[4][4] = Add("COMMENT")
  /\ Changes[5][1] = Add("ROUTER_NAME") /\ Changes[5][2] = Add("SOURCE_NAME")
  /\ Changes[5][3] = Add("DESTINATION_NAME")
  /\ Changes[6][1] = Enum({"C", "R", "S"}) /\ Changes[6][2] = Widen("USERNAME")
  /\ Changes[6][3] = Widen("HOSTNAME") /\ Changes[6][4] = Widen("ORIGINATING_ADDRESS")
<1>1. /\ Changes[1][1] = [do |-> "create version"]
      /\ Changes[1][2] = [do |-> "insert version", version |-> 1]
  <2>1. Block(1) = Changes[1]
    BY ChangesLength DEF Block, Upgrade
  <2> QED BY <2>1, FirstBlock, Zenon
<1>2. Changes[2][1] = [do |-> "create log"]
  BY DEF Changes
<1>3. Changes[3][1] = Add("USERNAME") /\ Changes[3][2] = Add("HOSTNAME")
  BY DEF Changes
<1>4. PICK t : t = Changes[4]
  OBVIOUS
<1>5. t = << Add("TYPE"), [do |-> "retype"], Enum({"C", "R"}), Add("COMMENT") >>
  BY <1>4 DEF Changes
<1>6. t[1] = Add("TYPE")
  BY <1>5
<1>7. t[2] = [do |-> "retype"]
  BY <1>5
<1>8. t[3] = Enum({"C", "R"})
  BY <1>5
<1>9. t[4] = Add("COMMENT")
  BY <1>5
<1>10. /\ Changes[5][1] = Add("ROUTER_NAME") /\ Changes[5][2] = Add("SOURCE_NAME")
       /\ Changes[5][3] = Add("DESTINATION_NAME")
  BY DEF Changes
<1>11. PICK u : u = Changes[6]
  OBVIOUS
<1>12. u = << Enum({"C", "R", "S"}), Widen("USERNAME"), Widen("HOSTNAME"),
              Widen("ORIGINATING_ADDRESS") >>
  BY <1>11 DEF Changes
<1>13. u[1] = Enum({"C", "R", "S"})
  BY <1>12
<1>14. u[2] = Widen("USERNAME")
  BY <1>12
<1>15. u[3] = Widen("HOSTNAME")
  BY <1>12
<1>16. u[4] = Widen("ORIGINATING_ADDRESS")
  BY <1>12
<1>17. /\ Changes[4][1] = Add("TYPE") /\ Changes[4][2] = [do |-> "retype"]
       /\ Changes[4][3] = Enum({"C", "R"}) /\ Changes[4][4] = Add("COMMENT")
  BY <1>4, <1>6, <1>7, <1>8, <1>9
<1>18. /\ Changes[6][1] = Enum({"C", "R", "S"}) /\ Changes[6][2] = Widen("USERNAME")
       /\ Changes[6][3] = Widen("HOSTNAME") /\ Changes[6][4] = Widen("ORIGINATING_ADDRESS")
  BY <1>11, <1>13, <1>14, <1>15, <1>16
<1> QED BY <1>1, <1>2, <1>3, <1>10, <1>17, <1>18

\* The change of version v (2 to 6) is one of these.
Change(v, s) ==
  \/ v = 2 /\ s = [do |-> "create log"]
  \/ \E c \in Column : s = Add(c)
  \/ v = 4 /\ s = [do |-> "retype"]
  \/ v = 4 /\ s = Enum({"C", "R"})
  \/ v = 6 /\ s = Enum({"C", "R", "S"})
  \/ v = 6 /\ \E c \in Widened : s = Widen(c)

LEMMA ChangeKinds ==
  ASSUME NEW v \in 2 .. 6, NEW k \in DOMAIN Changes[v]
  PROVE  Change(v, Changes[v][k])
<1>2. CASE v = 2
  <2>1. k = 1
    BY <1>2, ChangesLength
  <2> QED BY <1>2, <2>1, ChangesAre DEF Change
<1>3. CASE v = 3
  <2>1. k = 1 \/ k = 2
    BY <1>3, ChangesLength
  <2>2. \E c \in Column : Changes[v][k] = Add(c)
    BY <1>3, <2>1, ChangesAre DEF Column
  <2> QED BY <2>2 DEF Change
<1>4. CASE v = 4
  <2>1. k = 1 \/ k = 2 \/ k = 3 \/ k = 4
    BY <1>4, ChangesLength
  <2>2. k = 1 \/ k = 4 => \E c \in Column : Changes[v][k] = Add(c)
    BY <1>4, <2>1, ChangesAre DEF Column
  <2>3. k = 2 => Changes[v][k] = [do |-> "retype"]
    BY <1>4, ChangesAre
  <2>4. k = 3 => Changes[v][k] = Enum({"C", "R"})
    BY <1>4, ChangesAre
  <2> QED BY <1>4, <2>1, <2>2, <2>3, <2>4, Zenon DEF Change
<1>5. CASE v = 5
  <2>1. k = 1 \/ k = 2 \/ k = 3
    BY <1>5, ChangesLength
  <2>2. \E c \in Column : Changes[v][k] = Add(c)
    BY <1>5, <2>1, ChangesAre DEF Column
  <2> QED BY <2>2 DEF Change
<1>6. CASE v = 6
  <2>1. k = 1 \/ k = 2 \/ k = 3 \/ k = 4
    BY <1>6, ChangesLength
  <2>2. k \in {2, 3, 4} => \E c \in Widened : Changes[v][k] = Widen(c)
    BY <1>6, <2>1, ChangesAre DEF Widened
  <2>3. k = 1 => Changes[v][k] = Enum({"C", "R", "S"})
    BY <1>6, ChangesAre
  <2> QED BY <1>6, <2>1, <2>2, <2>3 DEF Change
<1> QED BY <1>2, <1>3, <1>4, <1>5, <1>6

\* The statement StartDb executes next, and where it is in its block.
Plan(v, k, s) ==
  \/ v = 1 /\ k = 1 /\ s = [do |-> "create version"]
  \/ v = 1 /\ k = 2 /\ s = [do |-> "insert version", version |-> 1]
  \/ v \in 2 .. 6 /\ k \in DOMAIN Changes[v] /\ s = Changes[v][k] /\ Change(v, s)
  \/ v \in 2 .. 6 /\ k = Len(Block(v)) /\ s = Update(v)
  \/ v = 7 /\ k = 1 /\ s = Create("NODES")
  \/ v = 7 /\ k = 2 /\ s = Create("TETHER")
  \/ v = 7 /\ k = 3 /\ s = [do |-> "insert tether"]

LEMMA SameLength == ASSUME NEW n \in Nat, NEW m \in Nat, 1 .. n = 1 .. m PROVE n = m
<1>1. \A i \in Nat : i \in 1 .. n <=> i \in 1 .. m
  OBVIOUS
<1> QED BY <1>1

LEMMA BlockLength ==
  /\ Len(Block(1)) = 2 /\ Len(Block(2)) = 2 /\ Len(Block(3)) = 3 /\ Len(Block(4)) = 5
  /\ Len(Block(5)) = 4 /\ Len(Block(6)) = 5 /\ Len(Block(7)) = 3
<1>1. Len(Changes[2]) = 1
  <2>1. DOMAIN Changes[2] = 1 .. Len(Changes[2]) /\ Len(Changes[2]) \in Nat
    BY BlockOf
  <2> QED BY <2>1, ChangesLength, SameLength
<1>2. Len(Changes[3]) = 2
  <2>1. DOMAIN Changes[3] = 1 .. Len(Changes[3]) /\ Len(Changes[3]) \in Nat
    BY BlockOf
  <2> QED BY <2>1, ChangesLength, SameLength
<1>3. Len(Changes[4]) = 4
  <2>1. DOMAIN Changes[4] = 1 .. Len(Changes[4]) /\ Len(Changes[4]) \in Nat
    BY BlockOf
  <2> QED BY <2>1, ChangesLength, SameLength
<1>4. Len(Changes[5]) = 3
  <2>1. DOMAIN Changes[5] = 1 .. Len(Changes[5]) /\ Len(Changes[5]) \in Nat
    BY BlockOf
  <2> QED BY <2>1, ChangesLength, SameLength
<1>5. Len(Changes[6]) = 4
  <2>1. DOMAIN Changes[6] = 1 .. Len(Changes[6]) /\ Len(Changes[6]) \in Nat
    BY BlockOf
  <2> QED BY <2>1, ChangesLength, SameLength
<1>6. /\ Len(Block(2)) = Len(Changes[2]) + 1 /\ Len(Block(3)) = Len(Changes[3]) + 1
      /\ Len(Block(4)) = Len(Changes[4]) + 1 /\ Len(Block(5)) = Len(Changes[5]) + 1
      /\ Len(Block(6)) = Len(Changes[6]) + 1
  BY BlockOf
<1>7. /\ Len(Block(2)) = 2 /\ Len(Block(3)) = 3 /\ Len(Block(4)) = 5
      /\ Len(Block(5)) = 4 /\ Len(Block(6)) = 5
  BY <1>1, <1>2, <1>3, <1>4, <1>5, <1>6
<1>8. Len(Block(1)) = 2 /\ Len(Block(7)) = 3
  BY FirstBlock, LastBlock, Zenon
<1> QED BY <1>7, <1>8

LEMMA Planned ==
  ASSUME NEW v \in 1 .. 7, NEW k \in 1 .. Len(Block(v))
  PROVE  Plan(v, k, Block(v)[k])
<1>1. CASE v = 1
  <2>1. k = 1 \/ k = 2
    <3>1. Len(Block(v)) = 2
      BY <1>1, BlockLength, Zenon
    <3> QED BY <3>1
  <2>2. k = 1 => Block(v)[k] = [do |-> "create version"]
    BY <1>1, FirstBlock, Zenon
  <2>3. k = 2 => Block(v)[k] = [do |-> "insert version", version |-> 1]
    BY <1>1, FirstBlock, Zenon
  <2> QED BY <1>1, <2>1, <2>2, <2>3 DEF Plan
<1>2. CASE v \in 2 .. 6
  <2>1. /\ Len(Block(v)) = Len(Changes[v]) + 1
        /\ Len(Changes[v]) \in Nat /\ DOMAIN Changes[v] = 1 .. Len(Changes[v])
        /\ \A i \in DOMAIN Changes[v] : Block(v)[i] = Changes[v][i]
        /\ Block(v)[Len(Changes[v]) + 1] = Update(v)
    BY <1>2, BlockOf
  <2>2. CASE k = Len(Block(v))
    BY <1>2, <2>1, <2>2 DEF Plan
  <2>3. CASE k # Len(Block(v))
    <3>1. k \in DOMAIN Changes[v]
      BY <2>1, <2>3
    <3>2. Change(v, Changes[v][k])
      BY <1>2, <3>1, ChangeKinds
    <3> QED BY <1>2, <2>1, <3>1, <3>2 DEF Plan
  <2> QED BY <2>2, <2>3
<1>3. CASE v = 7
  <2>1. k = 1 \/ k = 2 \/ k = 3
    <3>1. Len(Block(v)) = 3
      BY <1>3, BlockLength, Zenon
    <3> QED BY <3>1
  <2>2. k = 1 => Block(v)[k] = Create("NODES")
    BY <1>3, LastBlock, Zenon
  <2>3. k = 2 => Block(v)[k] = Create("TETHER")
    BY <1>3, LastBlock, Zenon
  <2>4. k = 3 => Block(v)[k] = [do |-> "insert tether"]
    BY <1>3, LastBlock, Zenon
  <2> QED BY <1>3, <2>1, <2>2, <2>3, <2>4 DEF Plan
<1> QED BY <1>1, <1>2, <1>3

-----------------------------------------------------------------------------
(* What each statement does.                                                *)

\* The fields of the database that are not in F are as they were.
Keeps(d, e, F) ==
  /\ "versioned" \in F \/ e.versioned = d.versioned
  /\ "row" \in F \/ e.row = d.row
  /\ "log" \in F \/ e.log = d.log
  /\ "columns" \in F \/ e.columns = d.columns
  /\ "types" \in F \/ e.types = d.types
  /\ "wide" \in F \/ e.wide = d.wide
  /\ "events" \in F \/ e.events = d.events
  /\ "tables" \in F \/ e.tables = d.tables
  /\ "rows" \in F \/ e.rows = d.rows
  /\ "tether" \in F \/ e.tether = d.tether

LEMMA AppendType ==
  ASSUME NEW S, NEW s \in Seq(S), NEW e \in S PROVE Append(s, e) \in Seq(S)
  OBVIOUS

LEMMA CreatesVersion ==
  ASSUME NEW d \in Databases, NEW e, e = Apply(d, [do |-> "create version"])
  PROVE  e \in Databases /\ Keeps(d, e, {"versioned"}) /\ e.versioned = TRUE
<1>1. e = [d EXCEPT !.versioned = TRUE]
  BY DEF Apply
<1> QED BY <1>1 DEF Databases, Keeps

LEMMA InsertsVersion ==
  ASSUME NEW d \in Databases, NEW e, e = Apply(d, [do |-> "insert version", version |-> 1])
  PROVE  e \in Databases /\ Keeps(d, e, {"row"}) /\ e.row = 1
<1>1. e = [d EXCEPT !.row = 1]
  BY DEF Apply
<1>2. 1 \in 0 .. Latest
  BY OneVersion, Zenon
<1> QED BY <1>1, <1>2 DEF Databases, Keeps

LEMMA UpdatesVersion ==
  ASSUME NEW d \in Databases, NEW v \in 2 .. 6, NEW e, e = Apply(d, Update(v))
  PROVE  /\ e \in Databases /\ Keeps(d, e, {"row"})
         /\ e.row = IF d.row = 0 THEN 0 ELSE v
<1>1. e = IF d.row = 0 THEN d ELSE [d EXCEPT !.row = v]
  BY DEF Apply, Update
<1>2. v \in 0 .. Latest
  BY LatestIs
<1> QED BY <1>1, <1>2 DEF Databases, Keeps

LEMMA CreatesLog ==
  ASSUME NEW d \in Databases, NEW e, e = Apply(d, [do |-> "create log"])
  PROVE  e \in Databases /\ Keeps(d, e, {"log"}) /\ e.log = TRUE
<1>1. e = [d EXCEPT !.log = TRUE]
  BY DEF Apply
<1> QED BY <1>1 DEF Databases, Keeps

LEMMA Adds ==
  ASSUME NEW d \in Databases, NEW c \in Column, NEW e, e = Apply(d, Add(c))
  PROVE  e \in Databases /\ Keeps(d, e, {"columns"}) /\ e.columns = d.columns \cup {c}
<1>1. e = [d EXCEPT !.columns = @ \cup {c}]
  BY DEF Apply, Add
<1>2. d.columns \cup {c} \in SUBSET Column
  BY DEF Databases
<1> QED BY <1>1, <1>2 DEF Databases, Keeps

LEMMA Retypes ==
  ASSUME NEW d \in Databases, NEW e, e = Apply(d, [do |-> "retype"])
  PROVE  /\ e \in Databases /\ Keeps(d, e, {"events"})
         /\ DOMAIN e.events = DOMAIN d.events
         /\ \A i \in DOMAIN d.events : /\ e.events[i].wrote = d.events[i].wrote
                                       /\ e.events[i].type = "R"
<1>1. e = [d EXCEPT !.events = Retyped(@)]
  BY DEF Apply
<1>2. d.events \in Seq(Event)
  BY DEF Databases
<1>3. /\ DOMAIN Retyped(d.events) = DOMAIN d.events
      /\ \A i \in DOMAIN d.events : /\ Retyped(d.events)[i].wrote = d.events[i].wrote
                                    /\ Retyped(d.events)[i].type = "R"
                                    /\ Retyped(d.events)[i] \in Event
  <2>1. \A i \in DOMAIN d.events : d.events[i] \in Event
    BY <1>2
  <2>2. /\ DOMAIN Retyped(d.events) = DOMAIN d.events
        /\ \A i \in DOMAIN d.events : Retyped(d.events)[i] = [d.events[i] EXCEPT !.type = "R"]
    BY DEF Retyped
  <2>3. \A x \in Event : /\ [x EXCEPT !.type = "R"] \in Event
                         /\ [x EXCEPT !.type = "R"].wrote = x.wrote
                         /\ [x EXCEPT !.type = "R"].type = "R"
    BY DEF Event
  <2>4. ASSUME NEW i \in DOMAIN d.events
        PROVE  /\ Retyped(d.events)[i].wrote = d.events[i].wrote
               /\ Retyped(d.events)[i].type = "R" /\ Retyped(d.events)[i] \in Event
    <3>1. d.events[i] \in Event /\ Retyped(d.events)[i] = [d.events[i] EXCEPT !.type = "R"]
      BY <2>1, <2>2
    <3> QED BY <2>3, <3>1
  <2> QED BY <2>2, <2>4
<1>4. Retyped(d.events) \in Seq(Event)
  <2>1. Len(d.events) \in Nat /\ DOMAIN d.events = 1 .. Len(d.events)
    BY <1>2
  <2>2. Retyped(d.events) = [i \in DOMAIN d.events |-> Retyped(d.events)[i]]
    BY Zenon DEF Retyped
  <2>3. Retyped(d.events) \in [DOMAIN d.events -> Event]
    BY <1>3, <2>2
  <2> QED BY <2>1, <2>3
<1>5. e.events = Retyped(d.events)
  BY <1>1 DEF Databases
<1>6. e \in Databases /\ Keeps(d, e, {"events"})
  BY <1>1, <1>4 DEF Databases, Keeps
<1> QED BY <1>3, <1>5, <1>6

LEMMA SetsTypes ==
  ASSUME NEW d \in Databases, NEW T \in {{"C", "R"}, {"C", "R", "S"}}, NEW e,
         e = Apply(d, Enum(T))
  PROVE  e \in Databases /\ Keeps(d, e, {"types"}) /\ e.types = T
<1>1. e = [d EXCEPT !.types = T]
  BY DEF Apply, Enum
<1> QED BY <1>1 DEF Databases, Keeps

LEMMA Widens ==
  ASSUME NEW d \in Databases, NEW c \in Widened, NEW e, e = Apply(d, Widen(c))
  PROVE  e \in Databases /\ Keeps(d, e, {"wide"}) /\ e.wide = d.wide \cup {c}
<1>1. e = [d EXCEPT !.wide = @ \cup {c}]
  BY DEF Apply, Widen
<1>2. d.wide \cup {c} \in SUBSET Widened
  BY DEF Databases
<1> QED BY <1>1, <1>2 DEF Databases, Keeps

LEMMA Drops ==
  ASSUME NEW d \in Databases, NEW t \in Ephemeral, NEW e, e = Apply(d, Drop(t))
  PROVE  /\ e \in Databases /\ Keeps(d, e, {"tables", "rows", "tether"})
         /\ e.tables = d.tables \ {t}
         /\ e.rows = (d.rows /\ t # "NODES")
         /\ e.tether = IF t = "TETHER" THEN <<>> ELSE d.tether
<1>1. e = [d EXCEPT !.tables = @ \ {t}, !.rows = @ /\ t # "NODES",
                    !.tether = IF t = "TETHER" THEN <<>> ELSE @]
  BY DEF Apply, Drop
<1>2. /\ d.tables \ {t} \in SUBSET Ephemeral /\ (d.rows /\ t # "NODES") \in BOOLEAN
      /\ (IF t = "TETHER" THEN <<>> ELSE d.tether) \in Seq({"N", "Y"})
  BY DEF Databases
<1>3. /\ e.tables = d.tables \ {t}
      /\ e.rows = (d.rows /\ t # "NODES")
      /\ e.tether = IF t = "TETHER" THEN <<>> ELSE d.tether
  BY <1>1 DEF Databases
<1>4. Keeps(d, e, {"tables", "rows", "tether"})
  BY <1>1 DEF Databases, Keeps
<1>5. e \in Databases
  BY <1>1, <1>2 DEF Databases
<1> QED BY <1>3, <1>4, <1>5

LEMMA Creates ==
  ASSUME NEW d \in Databases, NEW t \in Ephemeral, NEW e, e = Apply(d, Create(t))
  PROVE  e \in Databases /\ Keeps(d, e, {"tables"}) /\ e.tables = d.tables \cup {t}
<1>1. e = [d EXCEPT !.tables = @ \cup {t}]
  BY DEF Apply, Create
<1>2. d.tables \cup {t} \in SUBSET Ephemeral
  BY DEF Databases
<1> QED BY <1>1, <1>2 DEF Databases, Keeps

LEMMA InsertsTether ==
  ASSUME NEW d \in Databases, NEW e, e = Apply(d, [do |-> "insert tether"])
  PROVE  e \in Databases /\ Keeps(d, e, {"tether"}) /\ e.tether = Append(d.tether, "N")
<1>1. e = [d EXCEPT !.tether = Append(@, "N")]
  BY DEF Apply
<1>2. Append(d.tether, "N") \in Seq({"N", "Y"})
  <2>1. d.tether \in Seq({"N", "Y"}) /\ "N" \in {"N", "Y"}
    BY DEF Databases
  <2> QED BY <2>1, AppendType
<1> QED BY <1>1, <1>2 DEF Databases, Keeps

\* What a planned statement, the k-th of version v, makes of the database d.
Effect(d, e, v, k) ==
  \/ v = 1 /\ k = 1 /\ Keeps(d, e, {"versioned"}) /\ e.versioned = TRUE
  \/ v = 1 /\ k = 2 /\ Keeps(d, e, {"row"}) /\ e.row = 1
  \/ v = 2 /\ k < Len(Block(v)) /\ Keeps(d, e, {"log"}) /\ e.log = TRUE
  \/ /\ v \in 2 .. 6 /\ k < Len(Block(v)) /\ Keeps(d, e, {"columns"})
     /\ d.columns \subseteq e.columns
  \/ /\ v = 4 /\ k < Len(Block(v)) /\ Keeps(d, e, {"events"})
     /\ DOMAIN e.events = DOMAIN d.events
     /\ \A i \in DOMAIN d.events : /\ e.events[i].wrote = d.events[i].wrote
                                   /\ e.events[i].type = "R"
  \/ v = 4 /\ k < Len(Block(v)) /\ Keeps(d, e, {"types"}) /\ e.types = {"C", "R"}
  \/ v = 6 /\ k < Len(Block(v)) /\ Keeps(d, e, {"types"}) /\ e.types = {"C", "R", "S"}
  \/ v = 6 /\ k < Len(Block(v)) /\ Keeps(d, e, {"wide"}) /\ d.wide \subseteq e.wide
  \/ /\ v \in 2 .. 6 /\ k = Len(Block(v)) /\ Keeps(d, e, {"row"})
     /\ e.row = IF d.row = 0 THEN 0 ELSE v
  \/ v = 7 /\ k \in 1 .. 2 /\ Keeps(d, e, {"tables"}) /\ d.tables \subseteq e.tables
  \/ v = 7 /\ k = 3 /\ Keeps(d, e, {"tether"}) /\ e.tether = Append(d.tether, "N")

LEMMA Effects ==
  ASSUME NEW d \in Databases, NEW v \in 1 .. 7, NEW k, NEW s, Plan(v, k, s),
         NEW e, e = Apply(d, s)
  PROVE  e \in Databases /\ Effect(d, e, v, k) /\ Did(e, s)
<1>1. ASSUME v = 1, k = 1, s = [do |-> "create version"]
      PROVE  e \in Databases /\ Effect(d, e, v, k) /\ Did(e, s)
  <2>1. e \in Databases /\ Keeps(d, e, {"versioned"}) /\ e.versioned = TRUE
    BY <1>1, CreatesVersion, Zenon
  <2>2. s.do = "create version"
    BY <1>1
  <2>3. Did(e, s)
    BY <2>1, <2>2 DEF Did
  <2> QED BY <1>1, <2>1, <2>3, Zenon DEF Effect
<1>2. ASSUME v = 1, k = 2, s = [do |-> "insert version", version |-> 1]
      PROVE  e \in Databases /\ Effect(d, e, v, k) /\ Did(e, s)
  <2>1. e \in Databases /\ Keeps(d, e, {"row"}) /\ e.row = 1
    BY <1>2, InsertsVersion, Zenon
  <2>2. s.do = "insert version"
    BY <1>2
  <2>3. Did(e, s)
    BY <2>1, <2>2 DEF Did
  <2> QED BY <1>2, <2>1, <2>3, Zenon DEF Effect
<1>3. ASSUME v \in 2 .. 6, k \in DOMAIN Changes[v], Change(v, s)
      PROVE  e \in Databases /\ Effect(d, e, v, k) /\ Did(e, s)
  <2>0. k < Len(Block(v))
    <3>1. /\ Len(Block(v)) = Len(Changes[v]) + 1 /\ Len(Changes[v]) \in Nat
          /\ DOMAIN Changes[v] = 1 .. Len(Changes[v])
      BY <1>3, BlockOf
    <3>2. k \in 1 .. Len(Changes[v])
      BY <1>3, <3>1
    <3> QED BY <3>1, <3>2
  <2>1. CASE v = 2 /\ s = [do |-> "create log"]
    <3>1. e \in Databases /\ Keeps(d, e, {"log"}) /\ e.log = TRUE
      BY <2>1, CreatesLog, Zenon
    <3>2. s.do = "create log"
      BY <2>1
    <3>3. Did(e, s)
      BY <3>1, <3>2 DEF Did
    <3> QED BY <2>0, <2>1, <3>1, <3>3, Zenon DEF Effect
  <2>2. ASSUME NEW c \in Column, s = Add(c)
        PROVE  e \in Databases /\ Effect(d, e, v, k) /\ Did(e, s)
    <3>1. e \in Databases /\ Keeps(d, e, {"columns"}) /\ e.columns = d.columns \cup {c}
      BY <2>2, Adds, Zenon
    <3>2. s.do = "add" /\ s.column = c
      BY <2>2 DEF Add
    <3>3. Did(e, s)
      BY <3>1, <3>2 DEF Did
    <3>4. d.columns \subseteq e.columns
      BY <3>1
    <3> QED BY <1>3, <2>0, <3>1, <3>3, <3>4, Zenon DEF Effect
  <2>3. CASE v = 4 /\ s = [do |-> "retype"]
    <3>1. /\ e \in Databases /\ Keeps(d, e, {"events"})
          /\ DOMAIN e.events = DOMAIN d.events
          /\ \A i \in DOMAIN d.events : /\ e.events[i].wrote = d.events[i].wrote
                                        /\ e.events[i].type = "R"
      BY <2>3, Retypes, Zenon
    <3>2. s.do = "retype"
      BY <2>3
    <3>3. Did(e, s)
      BY <3>1, <3>2 DEF Did
    <3> QED BY <2>0, <2>3, <3>1, <3>3, Zenon DEF Effect
  <2>4. CASE v = 4 /\ s = Enum({"C", "R"})
    <3>1. e \in Databases /\ Keeps(d, e, {"types"}) /\ e.types = {"C", "R"}
      BY <2>4, SetsTypes, Zenon
    <3>2. s.do = "enum" /\ s.types = {"C", "R"}
      BY <2>4 DEF Enum
    <3>3. Did(e, s)
      BY <3>1, <3>2 DEF Did
    <3> QED BY <2>0, <2>4, <3>1, <3>3, Zenon DEF Effect
  <2>5. CASE v = 6 /\ s = Enum({"C", "R", "S"})
    <3>1. e \in Databases /\ Keeps(d, e, {"types"}) /\ e.types = {"C", "R", "S"}
      BY <2>5, SetsTypes, Zenon
    <3>2. s.do = "enum" /\ s.types = {"C", "R", "S"}
      BY <2>5 DEF Enum
    <3>3. Did(e, s)
      BY <3>1, <3>2 DEF Did
    <3> QED BY <2>0, <2>5, <3>1, <3>3, Zenon DEF Effect
  <2>6. ASSUME v = 6, NEW c \in Widened, s = Widen(c)
        PROVE  e \in Databases /\ Effect(d, e, v, k) /\ Did(e, s)
    <3>1. e \in Databases /\ Keeps(d, e, {"wide"}) /\ e.wide = d.wide \cup {c}
      BY <2>6, Widens, Zenon
    <3>2. s.do = "widen" /\ s.column = c
      BY <2>6 DEF Widen
    <3>3. Did(e, s)
      BY <3>1, <3>2 DEF Did
    <3>4. d.wide \subseteq e.wide
      BY <3>1
    <3> QED BY <2>0, <2>6, <3>1, <3>3, <3>4, Zenon DEF Effect
  <2> QED BY <1>3, <2>1, <2>2, <2>3, <2>4, <2>5, <2>6, Zenon DEF Change
<1>4. ASSUME v \in 2 .. 6, k = Len(Block(v)), s = Update(v)
      PROVE  e \in Databases /\ Effect(d, e, v, k) /\ Did(e, s)
  <2>1. e \in Databases /\ Keeps(d, e, {"row"}) /\ e.row = IF d.row = 0 THEN 0 ELSE v
    BY <1>4, UpdatesVersion, Zenon
  <2>2. s.do = "update version"
    BY <1>4 DEF Update
  <2>3. Did(e, s)
    BY <2>1, <2>2 DEF Did
  <2> QED BY <1>4, <2>1, <2>3, Zenon DEF Effect
<1>5. ASSUME v = 7, k \in 1 .. 2, NEW t \in Ephemeral, s = Create(t)
      PROVE  e \in Databases /\ Effect(d, e, v, k) /\ Did(e, s)
  <2>1. e \in Databases /\ Keeps(d, e, {"tables"}) /\ e.tables = d.tables \cup {t}
    BY <1>5, Creates, Zenon
  <2>2. s.do = "create" /\ s.table = t
    BY <1>5 DEF Create
  <2>3. Did(e, s)
    BY <2>1, <2>2 DEF Did
  <2>4. d.tables \subseteq e.tables
    BY <2>1
  <2> QED BY <1>5, <2>1, <2>3, <2>4, Zenon DEF Effect
<1>6. ASSUME v = 7, k = 3, s = [do |-> "insert tether"]
      PROVE  e \in Databases /\ Effect(d, e, v, k) /\ Did(e, s)
  <2>1. /\ e \in Databases /\ Keeps(d, e, {"tether"})
        /\ e.tether = Append(d.tether, "N")
    BY <1>6, InsertsTether, Zenon
  <2>2. s.do = "insert tether"
    BY <1>6
  <2>3. Did(e, s)
    BY <2>1, <2>2 DEF Did
  <2> QED BY <1>6, <2>1, <2>3, Zenon DEF Effect
<1>7. "NODES" \in Ephemeral /\ "TETHER" \in Ephemeral /\ 1 \in 1 .. 2 /\ 2 \in 1 .. 2
  BY DEF Ephemeral
<1> QED BY <1>1, <1>2, <1>3, <1>4, <1>5, <1>6, <1>7, Zenon DEF Plan

\* Nothing a statement made is undone by another one of the plan: but the types of
\* version 6 by those of version 4.
LEMMA DidKept ==
  ASSUME NEW d \in Databases, NEW v \in 1 .. 7, NEW k, NEW e \in Databases,
         Effect(d, e, v, k), NEW t, Did(d, t),
         t.do = "enum" => t.types \subseteq {"C", "R"} \/ (t.types \subseteq {"C", "R", "S"} /\ v # 4)
  PROVE  Did(e, t)
<1>1. d.versioned => e.versioned
  BY DEF Effect, Keeps
<1>2. d.log => e.log
  BY DEF Effect, Keeps
<1>3. d.columns \subseteq e.columns
  BY DEF Effect, Keeps
<1>4. d.wide \subseteq e.wide
  BY DEF Effect, Keeps
<1>5. d.tables \subseteq e.tables
  BY DEF Effect, Keeps
<1>6. \/ e.types = d.types \/ (v = 4 /\ e.types = {"C", "R"})
      \/ (v = 6 /\ e.types = {"C", "R", "S"})
  BY DEF Effect, Keeps
<1>7. t.do = "enum" => t.types \subseteq e.types
  BY <1>6 DEF Did
<1> QED BY <1>1, <1>2, <1>3, <1>4, <1>5, <1>7 DEF Did

\* No two kinds of statements are the same.
LEMMA DoOf ==
  /\ [do |-> "create version"].do = "create version" /\ "create version" # "enum"
  /\ [do |-> "insert version", version |-> 1].do = "insert version"
  /\ "insert version" # "enum"
  /\ [do |-> "create log"].do = "create log" /\ "create log" # "enum"
  /\ [do |-> "retype"].do = "retype" /\ "retype" # "enum"
  /\ [do |-> "insert tether"].do = "insert tether" /\ "insert tether" # "enum"
  /\ (\A c : Add(c).do = "add") /\ "add" # "enum"
  /\ (\A c : Widen(c).do = "widen") /\ "widen" # "enum"
  /\ (\A v : Update(v).do = "update version") /\ "update version" # "enum"
  /\ (\A t : Create(t).do = "create") /\ "create" # "enum"
<1>1. /\ [do |-> "create version"].do = "create version" /\ "create version" # "enum"
      /\ [do |-> "insert version", version |-> 1].do = "insert version"
      /\ "insert version" # "enum"
  OBVIOUS
<1>2. /\ [do |-> "create log"].do = "create log" /\ "create log" # "enum"
      /\ [do |-> "retype"].do = "retype" /\ "retype" # "enum"
      /\ [do |-> "insert tether"].do = "insert tether" /\ "insert tether" # "enum"
  OBVIOUS
<1>3. /\ (\A c : Add(c).do = "add") /\ "add" # "enum"
      /\ (\A c : Widen(c).do = "widen") /\ "widen" # "enum"
  BY DEF Add, Widen
<1>4. /\ (\A v : Update(v).do = "update version") /\ "update version" # "enum"
      /\ (\A t : Create(t).do = "create") /\ "create" # "enum"
  BY DEF Update, Create
<1> QED BY <1>1, <1>2, <1>3, <1>4

\* The types a version sets.
LEMMA EnumsOf ==
  ASSUME NEW v \in 1 .. 6, NEW j \in DOMAIN Changes[v], NEW t, t = Changes[v][j],
         t.do = "enum"
  PROVE  (v = 4 /\ t.types = {"C", "R"}) \/ (v = 6 /\ t.types = {"C", "R", "S"})
<1>1. CASE v = 1
  <2>1. j = 1 \/ j = 2
    <3>1. DOMAIN Changes[v] = 1 .. 2
      BY <1>1, ChangesLength, Zenon
    <3>2. j \in 1 .. 2
      BY <3>1
    <3> QED BY <3>2
  <2>2. j = 1 => t = [do |-> "create version"]
    BY <1>1, ChangesAre, Zenon
  <2>3. j = 2 => t = [do |-> "insert version", version |-> 1]
    BY <1>1, ChangesAre, Zenon
  <2>4. j = 1 => t.do = "create version"
    BY <2>2, DoOf, Zenon
  <2>5. j = 2 => t.do = "insert version"
    BY <2>3, DoOf, Zenon
  <2> QED BY <2>1, <2>4, <2>5
<1>2. CASE v \in 2 .. 6
  <2>1. Change(v, t)
    BY <1>2, ChangeKinds
  <2>2. /\ t # [do |-> "create log"] /\ t # [do |-> "retype"]
        /\ \A c \in Column : t # Add(c)
        /\ \A c \in Widened : t # Widen(c)
    BY DoOf, Zenon
  <2>3. t = Enum({"C", "R"}) => t.types = {"C", "R"}
    BY DEF Enum
  <2>4. t = Enum({"C", "R", "S"}) => t.types = {"C", "R", "S"}
    BY DEF Enum
  <2> QED BY <2>1, <2>2, <2>3, <2>4, Zenon DEF Change
<1> QED BY <1>1, <1>2

\* What a version made stays, but for version 6 under version 4.
LEMMA HasKept ==
  ASSUME NEW d \in Databases, NEW v \in 1 .. 7, NEW k, NEW e \in Databases,
         Effect(d, e, v, k), NEW w \in 1 .. 6, Has(d, w), v = 4 => w # 6
  PROVE  Has(e, w)
<1> SUFFICES ASSUME NEW j \in DOMAIN Changes[w] PROVE Did(e, Changes[w][j])
  BY DEF Has
<1>1. PICK t : t = Changes[w][j]
  OBVIOUS
<1>2. Did(d, t)
  BY <1>1 DEF Has
<1>3. t.do = "enum" => t.types \subseteq {"C", "R"} \/ (t.types \subseteq {"C", "R", "S"} /\ v # 4)
  BY <1>1, EnumsOf
<1>4. Did(e, t)
  BY <1>2, <1>3, DidKept
<1> QED BY <1>1, <1>4

\* What the first statements of a block made stays while the block is executed.
LEMMA BlockKept ==
  ASSUME NEW d \in Databases, NEW v \in 1 .. 7, NEW k \in 1 .. Len(Block(v)),
         NEW e \in Databases, Effect(d, e, v, k),
         NEW j \in 1 .. k - 1, Did(d, Block(v)[j])
  PROVE  Did(e, Block(v)[j])
<1>1. PICK t : t = Block(v)[j]
  OBVIOUS
<1>2. ASSUME t.do = "enum"
      PROVE  t.types \subseteq {"C", "R"} \/ (t.types \subseteq {"C", "R", "S"} /\ v # 4)
  <2>1. Len(Block(v)) \in Nat
    BY BlockLength
  <2>2. Plan(v, j, t)
    <3>1. j \in 1 .. Len(Block(v))
      BY <2>1
    <3> QED BY <1>1, <3>1, Planned, Zenon
  <2>3. /\ t # [do |-> "create version"] /\ t # [do |-> "insert version", version |-> 1]
        /\ t # Update(v) /\ t # Create("NODES") /\ t # Create("TETHER")
        /\ t # [do |-> "insert tether"]
    BY <1>2, DoOf, Zenon
  <2>4. v \in 2 .. 6 /\ j \in DOMAIN Changes[v] /\ t = Changes[v][j]
    BY <2>2, <2>3, Zenon DEF Plan
  <2>5. (v = 4 /\ t.types = {"C", "R"}) \/ (v = 6 /\ t.types = {"C", "R", "S"})
    <3>1. v \in 1 .. 6
      BY <2>4
    <3> QED BY <1>2, <2>4, <3>1, EnumsOf, Zenon
  <2> QED BY <2>5
<1>3. Did(e, t)
  BY <1>1, <1>2, DidKept
<1> QED BY <1>1, <1>3

-----------------------------------------------------------------------------
(* The database outside StartDb.                                            *)

\* What a version made does not depend on the row, the events and the contents of the
\* other tables.
LEMMA HasSame ==
  ASSUME NEW d, NEW e, NEW v, Keeps(d, e, {"row", "events", "rows", "tether"}), Has(d, v)
  PROVE  Has(e, v)
<1> SUFFICES ASSUME NEW j \in DOMAIN Changes[v] PROVE Did(e, Changes[v][j])
  BY DEF Has
<1>1. Did(d, Changes[v][j])
  BY DEF Has
<1> QED BY <1>1 DEF Did, Keeps

\* An event is written behind the others.
LEMMA Writes ==
  ASSUME NEW d \in Databases, NEW t \in {"C", "R", "S"}
  PROVE  /\ WriteEvent(d, t) \in Databases
         /\ Keeps(d, WriteEvent(d, t), {"events"})
         /\ WriteEvent(d, t).events = Append(d.events, [wrote |-> t, type |-> t])
<1>1. d.events \in Seq(Event) /\ [wrote |-> t, type |-> t] \in Event
  BY DEF Databases, Event
<1>2. Append(d.events, [wrote |-> t, type |-> t]) \in Seq(Event)
  BY <1>1, AppendType
<1>3. WriteEvent(d, t).events = Append(d.events, [wrote |-> t, type |-> t])
  BY DEF Databases, WriteEvent
<1>4. Keeps(d, WriteEvent(d, t), {"events"})
  BY DEF Databases, WriteEvent, Keeps
<1>5. WriteEvent(d, t) \in Databases
  BY <1>2 DEF Databases, WriteEvent
<1> QED BY <1>3, <1>4, <1>5

\* A type once written stays, and new events are of the type they are written with.
LEMMA EventWritten ==
  ASSUME TypeOK, EventsInv, ~lost => db.row = Latest,
         UNCHANGED lost, db'.row = db.row,
         NEW t \in {"C", "R", "S"},
         db'.events = Append(db.events, [wrote |-> t, type |-> t])
  PROVE  EventsInv'
<1> SUFFICES ASSUME ~lost PROVE KeepsTypes' /\ ~(db'.row < 4)
  BY DEF EventsInv
<1>1. ~(db'.row < 4)
  BY LatestIs
<1>2. PICK x : x = [wrote |-> t, type |-> t]
  OBVIOUS
<1>3. x.wrote = t /\ x.type = t /\ x \in Event
  BY <1>2 DEF Event
<1>4. db.events \in Seq(Event)
  BY DEF TypeOK, Databases
<1>5. db'.events = Append(db.events, x)
  BY <1>2
<1>6. /\ DOMAIN db'.events = 1 .. Len(db.events) + 1 /\ DOMAIN db.events = 1 .. Len(db.events)
      /\ Len(db.events) \in Nat
      /\ db'.events[Len(db.events) + 1] = x
      /\ \A i \in 1 .. Len(db.events) : db'.events[i] = db.events[i]
  BY <1>3, <1>4, <1>5
<1>7. ASSUME NEW i \in DOMAIN db'.events
      PROVE  \/ db'.events[i].type = db'.events[i].wrote
             \/ db'.events[i].type = "none" /\ db'.events[i].wrote = "R"
  <2>1. CASE i = Len(db.events) + 1
    BY <1>3, <1>6, <2>1
  <2>2. CASE i # Len(db.events) + 1
    <3>1. i \in DOMAIN db.events /\ db'.events[i] = db.events[i]
      BY <1>6, <2>2
    <3> QED BY <3>1 DEF EventsInv, KeepsTypes
  <2> QED BY <2>1, <2>2
<1> QED BY <1>1, <1>7 DEF KeepsTypes

\* The row of TETHER takes its value from the tether.
LEMMA Tells ==
  ASSUME NEW d \in Databases, NEW state \in BOOLEAN, Len(d.tether) = 1
  PROVE  /\ Told(d, state) \in Databases
         /\ Keeps(d, Told(d, state), {"events", "tether"})
         /\ Told(d, state).tether = << IF state THEN "Y" ELSE "N" >>
         /\ Told(d, state).events = Append(d.events, [wrote |-> "C", type |-> "C"])
<1> DEFINE q == [k \in DOMAIN d.tether |-> IF state THEN "Y" ELSE "N"]
<1>1. d.tether \in Seq({"N", "Y"}) /\ DOMAIN d.tether = 1 .. 1
  BY DEF Databases
<1>2. q = << IF state THEN "Y" ELSE "N" >> /\ q \in Seq({"N", "Y"})
  BY <1>1
<1>3. PICK c : c = [d EXCEPT !.tether = q]
  OBVIOUS
<1>4. c \in Databases /\ Keeps(d, c, {"tether"}) /\ c.tether = q
  BY <1>2, <1>3 DEF Databases, Keeps
<1>5. Told(d, state) = WriteEvent(c, "C")
  BY <1>3, Zenon DEF Told
<1>6. /\ WriteEvent(c, "C") \in Databases
      /\ Keeps(c, WriteEvent(c, "C"), {"events"})
      /\ WriteEvent(c, "C").events = Append(c.events, [wrote |-> "C", type |-> "C"])
  BY <1>4, Writes
<1>7. Keeps(d, Told(d, state), {"events", "tether"})
  BY <1>4, <1>5, <1>6 DEF Keeps
<1>8. c.events = d.events /\ WriteEvent(c, "C").tether = c.tether
  BY <1>4, <1>6 DEF Keeps
<1> QED BY <1>2, <1>4, <1>5, <1>6, <1>7, <1>8

-----------------------------------------------------------------------------
(* The processes.                                                           *)

\* Steps of the processes leave what is said of the database alone.
LEMMA DaemonStill ==
  ASSUME SchemaInv, RowInv, EventsInv, TablesInv, UNCHANGED <<db, daemon>>
  PROVE  SchemaInv' /\ RowInv' /\ EventsInv' /\ TablesInv'
<1> USE DEF daemon, local
<1>1. SchemaInv'
  BY DEF SchemaInv, Made
<1>2. RowInv'
  BY DEF RowInv
<1>3. EventsInv'
  BY DEF EventsInv, KeepsTypes
<1>4. TablesInv'
  BY DEF TablesInv, FreshTables
<1> QED BY <1>1, <1>2, <1>3, <1>4

LEMMA ProcessStep ==
  ASSUME TypeOK, ProcInv,
         \/ ProtocolData \/ ScriptsData \/ ScanData
         \/ \E p \in Proto : Ask(p) \/ SendProtoSocket(p)
         \/ \E s \in Slot : ChildEnds(s)
  PROVE  TypeOK' /\ ProcInv' /\ UNCHANGED <<db, daemon>>
<1> USE DEF daemon, local
<1>0. Proto \subseteq Slot /\ Script \subseteq Slot /\ Proto \cap Script = {}
  BY StartupAssumption DEF Slot
<1>1. CASE ProtocolData
  <2>1. UNCHANGED <<db, daemon>>
    BY <1>1 DEF ProtocolData
  <2>2. /\ \A s \in Slot : proc[s] = "none"
        /\ ~scanning /\ asked = {} /\ listening = {} /\ socket = Proto
    BY <1>1 DEF ProtocolData, ProcInv
  <2>3. TypeOK'
    BY <1>0, <1>1, <2>2 DEF ProtocolData, TypeOK
  <2>4. ProcInv'
    BY <1>0, <1>1, <2>2 DEF ProtocolData, ProcInv
  <2> QED BY <2>1, <2>3, <2>4
<1>2. CASE ScriptsData
  <2>1. UNCHANGED <<db, daemon>>
    BY <1>2 DEF ScriptsData
  <2>2. \A p \in Proto : proc'[p] = proc[p] /\ engine'[p] = engine[p]
    BY <1>0, <1>2 DEF ScriptsData
  <2>3. TypeOK'
    <3>1. proc' \in [Slot -> {"none", "running", "phantom", "zombie"}]
      BY <1>2 DEF ScriptsData, TypeOK
    <3>2. engine' \in [Slot -> {"absent", "empty"} \cup Script]
      BY <1>2 DEF ScriptsData, TypeOK
    <3>3. UNCHANGED <<db, daemon, forked, asked, socket, listening, crashes>> /\ scanning' = TRUE
      BY <1>2 DEF ScriptsData
    <3>4. listening' \subseteq {p \in Proto : proc'[p] = "running"} \ socket'
      BY <2>2, <3>3 DEF TypeOK
    <3> QED BY <3>1, <3>2, <3>3, <3>4 DEF TypeOK
  <2>4. ProcInv'
    BY <1>2, <2>2 DEF ScriptsData, ProcInv
  <2> QED BY <2>1, <2>3, <2>4
<1>3. CASE ScanData
  <2>1. UNCHANGED <<db, daemon>>
    BY <1>3 DEF ScanData
  <2>2. \A s \in Slot : NameOf(s) \in {"absent", "empty"} \cup Script
    BY DEF NameOf, TypeOK
  <2>3. \A p \in Proto : /\ NameOf(p) = "empty"
                         /\ engine'[p] \in {"absent", "empty"}
                         /\ proc[p] # "zombie" => proc'[p] = proc[p]
                         /\ proc[p] = "zombie" => proc'[p] = "phantom"
    BY <1>0, <1>3 DEF ScanData, NameOf, ProcInv
  <2>4. TypeOK'
    <3>1. proc' \in [Slot -> {"none", "running", "phantom", "zombie"}]
      BY <1>3 DEF ScanData, TypeOK
    <3>2. engine' \in [Slot -> {"absent", "empty"} \cup Script]
      BY <1>3, <2>2 DEF ScanData, TypeOK
    <3>3. listening' \subseteq {p \in Proto : proc'[p] = "running"} \ socket'
      BY <1>3, <2>3 DEF ScanData, TypeOK
    <3> QED BY <1>3, <3>1, <3>2, <3>3 DEF ScanData, TypeOK
  <2>5. ProcInv'
    BY <1>3, <2>3 DEF ScanData, ProcInv
  <2> QED BY <2>1, <2>4, <2>5
<1>4. ASSUME NEW p \in Proto, Ask(p) PROVE TypeOK' /\ ProcInv' /\ UNCHANGED <<db, daemon>>
  <2>1. UNCHANGED <<db, daemon>>
    BY <1>4 DEF Ask
  <2>2. TypeOK'
    BY <1>4 DEF Ask, TypeOK
  <2>3. forked
    BY <1>0, <1>4 DEF Ask, ProcInv
  <2>4. ProcInv'
    BY <1>4, <2>3 DEF Ask, ProcInv
  <2> QED BY <2>1, <2>2, <2>4
<1>5. ASSUME NEW p \in Proto, SendProtoSocket(p)
      PROVE  TypeOK' /\ ProcInv' /\ UNCHANGED <<db, daemon>>
  <2>1. UNCHANGED <<db, daemon>>
    BY <1>5 DEF SendProtoSocket
  <2>2. TypeOK'
    BY <1>5 DEF SendProtoSocket, TypeOK, Closed
  <2>3. forked
    BY <1>5 DEF SendProtoSocket, ProcInv
  <2>4. ProcInv'
    BY <1>5, <2>3 DEF SendProtoSocket, ProcInv, Closed
  <2> QED BY <2>1, <2>2, <2>4
<1>6. ASSUME NEW s \in Slot, ChildEnds(s) PROVE TypeOK' /\ ProcInv' /\ UNCHANGED <<db, daemon>>
  <2>1. UNCHANGED <<db, daemon>>
    BY <1>6 DEF ChildEnds
  <2>2. /\ proc' \in [Slot -> {"none", "running", "phantom", "zombie"}]
        /\ proc'[s] = "zombie" /\ \A x \in Slot : x # s => proc'[x] = proc[x]
    BY <1>6 DEF ChildEnds, TypeOK
  <2>3. TypeOK'
    BY <1>0, <1>6, <2>2 DEF ChildEnds, TypeOK
  <2>4. forked
    BY <1>6 DEF ChildEnds, ProcInv
  <2>5. ProcInv'
    BY <1>0, <1>6, <2>2, <2>4 DEF ChildEnds, ProcInv
  <2> QED BY <2>1, <2>3, <2>5
<1> QED BY <1>1, <1>2, <1>3, <1>4, <1>5, <1>6

-----------------------------------------------------------------------------
(* StartDb.                                                                 *)

LEMMA BlockPositive ==
  ASSUME NEW v \in 1 .. 7 PROVE Len(Block(v)) \in Nat /\ Len(Block(v)) >= 1
<1>1. v = 1 \/ v = 2 \/ v = 3 \/ v = 4 \/ v = 5 \/ v = 6 \/ v = 7
  OBVIOUS
<1>2. \/ Len(Block(v)) = 2 \/ Len(Block(v)) = 3 \/ Len(Block(v)) = 4 \/ Len(Block(v)) = 5
  BY <1>1, BlockLength, Zenon
<1> QED BY <1>2

\* What a version added is in its block.
LEMMA InBlock ==
  ASSUME NEW v \in 1 .. 6, NEW j \in DOMAIN Changes[v]
  PROVE  j \in 1 .. Len(Block(v)) /\ Block(v)[j] = Changes[v][j]
<1>1. CASE v = 1
  <2>1. Block(1) = Changes[1]
    BY ChangesLength DEF Block, Upgrade
  <2>2. j \in 1 .. 2 /\ Len(Block(v)) = 2
    BY <1>1, ChangesLength, BlockLength
  <2> QED BY <1>1, <2>1, <2>2
<1>2. CASE v \in 2 .. 6
  <2>1. /\ Len(Block(v)) = Len(Changes[v]) + 1
        /\ Len(Changes[v]) \in Nat /\ DOMAIN Changes[v] = 1 .. Len(Changes[v])
        /\ \A i \in DOMAIN Changes[v] : Block(v)[i] = Changes[v][i]
    BY <1>2, BlockOf
  <2>2. j \in 1 .. Len(Changes[v])
    BY <2>1
  <2>3. j \in 1 .. Len(Block(v))
    BY <2>1, <2>2
  <2> QED BY <2>1, <2>3
<1> QED BY <1>1, <1>2

\* Execute executes the k-th statement of version v.
Executed(v, k) ==
  /\ phase = "db" /\ old = {} /\ schema_ver + 1 = v /\ next = k
  /\ UNCHANGED <<phase, old, writeable, nodes, lost, procs, crashes>>
  /\ db' \in Databases /\ Effect(db, db', v, k) /\ Did(db', Block(v)[k])
  /\ \/ k < Len(Block(v)) /\ next' = k + 1 /\ schema_ver' = schema_ver
     \/ k = Len(Block(v)) /\ next' = 1 /\ schema_ver' = v

LEMMA ExecuteTells ==
  ASSUME TypeOK, StartDb, Execute
  PROVE  \E v \in 1 .. 7 : \E k \in 1 .. Len(Block(v)) : Executed(v, k)
<1>1. PICK v \in 1 .. 7 : v = schema_ver + 1
  BY LatestIs DEF TypeOK, Execute
<1>2. PICK k \in 1 .. Len(Block(v)) : k = next
  BY <1>1, LatestIs DEF TypeOK, Execute
<1>3. PICK s : s = Block(v)[k]
  OBVIOUS
<1>4. db' = Apply(db, s)
  BY <1>1, <1>2, <1>3, Zenon DEF Execute
<1>5. Plan(v, k, s)
  BY <1>3, Planned, Zenon
<1>6. db \in Databases
  BY DEF TypeOK
<1>7. db' \in Databases /\ Effect(db, db', v, k) /\ Did(db', s)
  BY <1>4, <1>5, <1>6, Effects, Zenon
<1>8. \/ k < Len(Block(v)) /\ next' = k + 1 /\ schema_ver' = schema_ver
      \/ k = Len(Block(v)) /\ next' = 1 /\ schema_ver' = v
  <2>1. Len(Block(v)) \in Nat
    BY BlockPositive
  <2>2. IF k < Len(Block(v)) THEN next' = k + 1 /\ schema_ver' = schema_ver
                             ELSE next' = 1 /\ schema_ver' = v
    BY <1>1, <1>2, Zenon DEF Execute
  <2> QED BY <2>1, <2>2
<1>9. /\ phase = "db" /\ old = {}
      /\ UNCHANGED <<phase, old, writeable, nodes, lost, procs, crashes>>
  BY Zenon DEF StartDb, Execute
<1>10. Executed(v, k)
  BY <1>1, <1>2, <1>3, <1>7, <1>8, <1>9 DEF Executed
<1> QED BY <1>10

\* What the block has made so far is there after the next statement.
LEMMA BlockDone ==
  ASSUME TypeOK, SchemaInv, NEW v \in 1 .. 7, NEW k \in 1 .. Len(Block(v)), Executed(v, k)
  PROVE  /\ \A j \in 1 .. k - 1 : Did(db, Block(v)[j])
         /\ \A j \in 1 .. k : Did(db', Block(v)[j])
<1>0. db \in Databases /\ db' \in Databases /\ Effect(db, db', v, k) /\ Did(db', Block(v)[k])
  BY DEF TypeOK, Executed
<1>1. Len(Block(v)) \in Nat
  BY BlockPositive
<1>2. ASSUME NEW j \in 1 .. k - 1 PROVE Did(db, Block(v)[j])
  <2>1. /\ phase = "db" /\ schema_ver + 1 = v /\ next = k /\ schema_ver <= Latest
    BY LatestIs DEF Executed, TypeOK
  <2> QED BY <2>1 DEF SchemaInv
<1>3. ASSUME NEW j \in 1 .. k PROVE Did(db', Block(v)[j])
  <2>1. CASE j = k
    BY <1>0, <2>1
  <2>2. CASE j # k
    <3>1. j \in 1 .. k - 1
      BY <1>1, <2>2
    <3> QED BY <1>0, <1>2, <3>1, BlockKept
  <2> QED BY <2>1, <2>2
<1> QED BY <1>2, <1>3

\* The version written down before version v is complete.
LEMMA RowOf ==
  ASSUME TypeOK, RowInv, NEW v \in 1 .. 7, NEW k \in 1 .. Len(Block(v)), Executed(v, k)
  PROVE  /\ db.row = IF lost THEN 0 ELSE v - 1
         /\ lost => v >= 2 /\ db.versioned
<1>1. phase = "db" /\ schema_ver = v - 1 /\ schema_ver \in 0 .. 6 /\ Latest = 6
  BY LatestIs DEF Executed, TypeOK
<1> QED BY <1>1 DEF RowInv

\* What the statement does to the row.
LEMMA RowAfter ==
  ASSUME TypeOK, RowInv, NEW v \in 1 .. 7, NEW k \in 1 .. Len(Block(v)), Executed(v, k)
  PROVE  db'.row = IF lost THEN 0 ELSE IF k = Len(Block(v)) /\ v <= 6 THEN v ELSE v - 1
<1>1. db.row = (IF lost THEN 0 ELSE v - 1) /\ (lost => v >= 2)
  BY RowOf
<1>2. Effect(db, db', v, k)
  BY DEF Executed
<1>3. Len(Block(1)) = 2 /\ Len(Block(7)) = 3 /\ Len(Block(v)) \in Nat
  BY BlockLength, BlockPositive
<1>4. PICK n \in Nat : n = Len(Block(v))
  BY <1>3
<1>5. \/ v = 1 /\ k = 1 /\ db'.row = db.row
      \/ v = 1 /\ k = 2 /\ db'.row = 1
      \/ v \in 2 .. 6 /\ k < n /\ db'.row = db.row
      \/ v \in 2 .. 6 /\ k = n /\ db'.row = IF db.row = 0 THEN 0 ELSE v
      \/ v = 7 /\ db'.row = db.row
  BY <1>2, <1>4 DEF Effect, Keeps
<1>6. v = 1 => n = 2
  BY <1>3, <1>4, Zenon
<1>7. db'.row = IF lost THEN 0 ELSE IF k = n /\ v <= 6 THEN v ELSE v - 1
  BY <1>1, <1>5, <1>6
<1> QED BY <1>4, <1>7

LEMMA ExecuteSchema ==
  ASSUME TypeOK, SchemaInv, RowInv,
         NEW v \in 1 .. 7, NEW k \in 1 .. Len(Block(v)), Executed(v, k)
  PROVE  SchemaInv'
<1>0. /\ phase = "db" /\ phase' = "db" /\ schema_ver = v - 1 /\ next = k
      /\ schema_ver \in 0 .. 6 /\ Latest = 6
      /\ db \in Databases /\ db' \in Databases /\ Effect(db, db', v, k)
      /\ \/ k < Len(Block(v)) /\ next' = k + 1 /\ schema_ver' = schema_ver
         \/ k = Len(Block(v)) /\ next' = 1 /\ schema_ver' = v
  BY LatestIs DEF Executed, TypeOK
<1>1. Len(Block(v)) \in Nat
  BY BlockPositive
<1>2. /\ db.row = (IF lost THEN 0 ELSE v - 1)
      /\ db'.row = IF lost THEN 0 ELSE IF k = Len(Block(v)) /\ v <= 6 THEN v ELSE v - 1
  BY RowOf, RowAfter
<1>3. \A j \in 1 .. k : Did(db', Block(v)[j])
  BY BlockDone
<1>4. ASSUME NEW w \in 1 .. 6, Made(w)' PROVE Has(db', w)
  <2>1. CASE Made(w)
    <3>1. Has(db, w)
      BY <1>0, <2>1 DEF SchemaInv
    <3>2. v = 4 => w # 6
      BY <1>0, <1>2, <2>1 DEF Made
    <3> QED BY <1>0, <3>1, <3>2, HasKept
  <2>2. CASE ~Made(w)
    <3>1. db.row < w /\ schema_ver < w
      BY <1>0, <1>2, <2>2 DEF Made
    <3>2. db'.row >= w \/ schema_ver' >= w
      BY <1>0, <1>4 DEF Made
    <3>3. w = v /\ k = Len(Block(v))
      BY <1>0, <1>1, <1>2, <3>1, <3>2
    <3>4. ASSUME NEW j \in DOMAIN Changes[w] PROVE Did(db', Changes[w][j])
      <4>1. j \in 1 .. Len(Block(w)) /\ Block(w)[j] = Changes[w][j]
        BY InBlock
      <4>2. Did(db', Block(w)[j])
        BY <1>3, <3>3, <4>1
      <4> QED BY <4>1, <4>2
    <3> QED BY <3>4 DEF Has
  <2> QED BY <2>1, <2>2
<1>5. ASSUME schema_ver' <= 6, NEW j \in 1 .. next' - 1
      PROVE  Did(db', Block(schema_ver' + 1)[j])
  <2>1. next' = k + 1 /\ schema_ver' + 1 = v
    BY <1>0, <1>5
  <2>2. j \in 1 .. k
    BY <1>5, <2>1
  <2> QED BY <1>3, <2>1, <2>2
<1> QED BY <1>0, <1>4, <1>5 DEF SchemaInv

LEMMA ExecuteRow ==
  ASSUME TypeOK, RowInv, NEW v \in 1 .. 7, NEW k \in 1 .. Len(Block(v)), Executed(v, k)
  PROVE  RowInv'
<1>0. /\ phase = "db" /\ phase' = "db" /\ schema_ver = v - 1 /\ lost' = lost
      /\ schema_ver \in 0 .. 6 /\ Latest = 6 /\ Effect(db, db', v, k)
      /\ \/ k < Len(Block(v)) /\ schema_ver' = schema_ver
         \/ k = Len(Block(v)) /\ schema_ver' = v
  BY LatestIs DEF Executed, TypeOK
<1>1. Len(Block(v)) \in Nat
  BY BlockPositive
<1>2. db'.row = IF lost THEN 0 ELSE IF k = Len(Block(v)) /\ v <= 6 THEN v ELSE v - 1
  BY RowAfter
<1>3. lost => v >= 2 /\ db.versioned
  BY RowOf
<1>4. db.versioned => db'.versioned
  BY <1>0 DEF Effect, Keeps
<1>5. PICK n \in Nat : n = Len(Block(v))
  BY <1>1
<1>6. /\ \/ k < n /\ schema_ver' = schema_ver
         \/ k = n /\ schema_ver' = v
      /\ db'.row = IF lost THEN 0 ELSE IF k = n /\ v <= 6 THEN v ELSE v - 1
  BY <1>0, <1>2, <1>5
<1>7. lost' => db'.versioned /\ db'.row = 0 /\ schema_ver' >= 1
  BY <1>0, <1>3, <1>4, <1>6
<1>8. ~lost' => db'.row = IF schema_ver' > Latest THEN Latest ELSE schema_ver'
  <2>1. Latest = 6 /\ schema_ver = v - 1 /\ lost' = lost
    BY <1>0
  <2>2. CASE k < n /\ schema_ver' = schema_ver
    BY <1>6, <2>1, <2>2
  <2>3. CASE k = n /\ schema_ver' = v
    BY <1>6, <2>1, <2>3
  <2> QED BY <1>6, <2>2, <2>3
<1> QED BY <1>0, <1>7, <1>8 DEF RowInv

LEMMA ExecuteEvents ==
  ASSUME TypeOK, RowInv, EventsInv,
         NEW v \in 1 .. 7, NEW k \in 1 .. Len(Block(v)), Executed(v, k)
  PROVE  EventsInv'
<1> SUFFICES ASSUME ~lost'
             PROVE  /\ KeepsTypes'
                    /\ db'.row < 4 => \A i \in DOMAIN db'.events : db'.events[i].wrote = "R"
  BY DEF EventsInv
<1>1. ~lost /\ Effect(db, db', v, k)
  BY DEF Executed
<1>2. /\ db.row = v - 1
      /\ db'.row = IF k = Len(Block(v)) /\ v <= 6 THEN v ELSE v - 1
  BY <1>1, RowOf, RowAfter
<1>3. CASE db'.events = db.events
  BY <1>1, <1>2, <1>3 DEF EventsInv, KeepsTypes
<1>4. CASE db'.events # db.events
  <2>1. /\ v = 4 /\ DOMAIN db'.events = DOMAIN db.events
        /\ \A i \in DOMAIN db.events : /\ db'.events[i].wrote = db.events[i].wrote
                                       /\ db'.events[i].type = "R"
    BY <1>1, <1>4 DEF Effect, Keeps
  <2>2. \A i \in DOMAIN db.events : db.events[i].wrote = "R"
    BY <1>1, <1>2, <2>1 DEF EventsInv
  <2> QED BY <2>1, <2>2 DEF KeepsTypes
<1> QED BY <1>3, <1>4

LEMMA ExecuteTables ==
  ASSUME TypeOK, SchemaInv, TablesInv,
         NEW v \in 1 .. 7, NEW k \in 1 .. Len(Block(v)), Executed(v, k)
  PROVE  TablesInv'
<1>0. /\ phase = "db" /\ phase' = "db" /\ old = {} /\ old' = {} /\ schema_ver = v - 1
      /\ schema_ver \in 0 .. 6 /\ Latest = 6 /\ db' \in Databases /\ db \in Databases
      /\ Effect(db, db', v, k)
      /\ \/ k < Len(Block(v)) /\ schema_ver' = schema_ver
         \/ k = Len(Block(v)) /\ schema_ver' = v
  BY LatestIs DEF Executed, TypeOK
<1>1. ~db.rows /\ db.tether = <<>>
  BY <1>0 DEF TablesInv
<1>6. v = 7 => k \in 1 .. 3 /\ (k < 3 => schema_ver' = schema_ver)
                           /\ (k = 3 => schema_ver' = v)
  <2>1. v = 7 => Len(Block(v)) = 3
    BY BlockLength, Zenon
  <2>2. v = 7 => \/ k < 3 /\ schema_ver' = schema_ver
                 \/ k = 3 /\ schema_ver' = v
    BY <1>0, <2>1, Zenon
  <2>3. v = 7 => k \in 1 .. 3
    BY <2>1
  <2> QED BY <2>2, <2>3
<1>2. ~db'.rows /\ Len(Block(v)) \in Nat
  BY <1>0, <1>1, BlockPositive DEF Effect, Keeps
<1>3. CASE v <= 6
  <2>1. schema_ver' <= 6
    BY <1>0, <1>2, <1>3
  <2>2. db'.tether = <<>>
    BY <1>0, <1>1, <1>3 DEF Effect, Keeps
  <2> QED BY <1>0, <1>2, <2>1, <2>2 DEF TablesInv
<1>4. CASE v = 7 /\ k < 3
  <2>1. schema_ver' <= 6
    BY <1>0, <1>4, <1>6
  <2>2. db'.tether = <<>>
    BY <1>0, <1>1, <1>4 DEF Effect, Keeps
  <2> QED BY <1>0, <1>2, <2>1, <2>2 DEF TablesInv
<1>5. CASE v = 7 /\ k = 3
  <2>1. schema_ver' = 7
    BY <1>5, <1>6
  <2>2. db'.tether = Append(<<>>, "N") /\ db'.tables = db.tables
    BY <1>0, <1>1, <1>5 DEF Effect, Keeps
  <2>3. \A j \in 1 .. 2 : Did(db, Block(7)[j])
    BY <1>5, BlockDone
  <2>4. Did(db, Create("NODES")) /\ Did(db, Create("TETHER"))
    <3>1. 1 \in 1 .. 2 /\ 2 \in 1 .. 2
      OBVIOUS
    <3> QED BY <2>3, <3>1, LastBlock, Zenon
  <2>5. "NODES" \in db.tables /\ "TETHER" \in db.tables
    BY <2>4 DEF Did, Create
  <2>6. db'.tables = Ephemeral
    BY <1>0, <2>2, <2>5 DEF Databases, Ephemeral
  <2>7. db'.tether = <<"N">>
    BY <2>2
  <2>8. "TETHER" \in db'.tables
    BY <2>2, <2>5
  <2> QED BY <1>0, <1>2, <2>1, <2>6, <2>7, <2>8 DEF TablesInv
<1>7. v <= 6 \/ (v = 7 /\ k < 3) \/ (v = 7 /\ k = 3)
  BY <1>6
<1> QED BY <1>3, <1>4, <1>5, <1>7

LEMMA ExecuteType ==
  ASSUME TypeOK, SchemaInv, RowInv,
         NEW v \in 1 .. 7, NEW k \in 1 .. Len(Block(v)), Executed(v, k)
  PROVE  TypeOK'
<1>0. /\ phase = "db" /\ phase' = "db" /\ schema_ver = v - 1 /\ next = k
      /\ schema_ver \in 0 .. 6 /\ Latest = 6
      /\ db' \in Databases /\ Effect(db, db', v, k)
      /\ \/ k < Len(Block(v)) /\ next' = k + 1 /\ schema_ver' = schema_ver
         \/ k = Len(Block(v)) /\ next' = 1 /\ schema_ver' = v
  BY LatestIs DEF Executed, TypeOK
<1>1. \A w \in 1 .. 7 : Len(Block(w)) \in Nat /\ Len(Block(w)) >= 1
  BY BlockPositive
<1>2. schema_ver' \in 0 .. Latest + 1
  BY <1>0
<1>3. next' \in 1 .. IF schema_ver' > Latest THEN 1 ELSE Len(Block(schema_ver' + 1))
  <2>1. CASE schema_ver' = v /\ next' = 1
    <3>1. v <= 6 => v + 1 \in 1 .. 7
      OBVIOUS
    <3>2. v <= 6 => Len(Block(v + 1)) \in Nat /\ Len(Block(v + 1)) >= 1
      BY <1>1, <3>1
    <3> QED BY <1>0, <2>1, <3>2
  <2>2. CASE k < Len(Block(v)) /\ next' = k + 1 /\ schema_ver' = schema_ver
    <3>1. schema_ver' + 1 = v
      BY <1>0, <2>2
    <3>2. Len(Block(v)) \in Nat
      BY <1>1
    <3>3. k + 1 \in 1 .. Len(Block(v))
      BY <2>2, <3>2
    <3>4. ~(schema_ver' > Latest)
      BY <1>0, <2>2
    <3> QED BY <2>2, <3>1, <3>3, <3>4
  <2> QED BY <1>0, <2>1, <2>2
<1>4. db'.row > 0 => db'.versioned
  <2>1. db'.row = db.row /\ db.row > 0 => db.versioned
    BY DEF TypeOK
  <2>2. db.versioned => db'.versioned
    BY <1>0 DEF Effect, Keeps
  <2>3. CASE v = 1 /\ k = 2
    <3>1. Did(db, Block(1)[1])
      <4>1. \A j \in 1 .. k - 1 : Did(db, Block(v)[j])
        BY BlockDone
      <4>2. 1 \in 1 .. k - 1
        BY <2>3
      <4> QED BY <2>3, <4>1, <4>2
    <3>2. Did(db, [do |-> "create version"])
      BY <3>1, FirstBlock, Zenon
    <3>3. db.versioned
      BY <3>2 DEF Did
    <3> QED BY <2>2, <3>3
  <2>4. CASE ~(v = 1 /\ k = 2)
    <3>1. db'.row > 0 => db.row > 0
      <4>1. db.row \in Nat
        BY LatestIs DEF TypeOK, Databases
      <4> QED BY <1>0, <2>4, <4>1 DEF Effect, Keeps
    <3> QED BY <2>2, <3>1 DEF TypeOK
  <2> QED BY <2>3, <2>4
<1>5. UNCHANGED <<old, writeable, nodes, lost, procs, crashes>>
  BY DEF Executed
<1> QED BY <1>0, <1>2, <1>3, <1>4, <1>5 DEF TypeOK, procs

\* Tables that are dropped are none the versions made.
LEMMA HasDropped ==
  ASSUME NEW d, NEW e, NEW v \in 1 .. 6, Keeps(d, e, {"tables", "rows", "tether"}), Has(d, v)
  PROVE  Has(e, v)
<1> SUFFICES ASSUME NEW j \in DOMAIN Changes[v] PROVE Did(e, Changes[v][j])
  BY DEF Has
<1>1. PICK t : t = Changes[v][j]
  OBVIOUS
<1>2. Did(d, t)
  BY <1>1 DEF Has
<1>3. t.do # "create"
  <2>1. CASE v = 1
    <3>1. j = 1 \/ j = 2
      <4>1. DOMAIN Changes[v] = 1 .. 2
        BY <2>1, ChangesLength, Zenon
      <4>2. j \in 1 .. 2
        BY <4>1
      <4> QED BY <4>2
    <3>2. j = 1 => t = [do |-> "create version"]
      BY <1>1, <2>1, ChangesAre, Zenon
    <3>3. j = 2 => t = [do |-> "insert version", version |-> 1]
      BY <1>1, <2>1, ChangesAre, Zenon
    <3>4. j = 1 => t.do = "create version"
      BY <3>2, DoOf, Zenon
    <3>5. j = 2 => t.do = "insert version"
      BY <3>3, DoOf, Zenon
    <3> QED BY <3>1, <3>4, <3>5
  <2>2. CASE v \in 2 .. 6
    <3>1. Change(v, t)
      BY <1>1, <2>2, ChangeKinds
    <3>2. t = Enum({"C", "R"}) \/ t = Enum({"C", "R", "S"}) => t.do = "enum"
      BY DEF Enum
    <3>3. t.do \in {"create log", "retype", "enum", "add", "widen"}
      <4>1. t = [do |-> "create log"] => t.do = "create log"
        BY DoOf, Zenon
      <4>2. t = [do |-> "retype"] => t.do = "retype"
        BY DoOf, Zenon
      <4>3. \A c \in Column : t = Add(c) => t.do = "add"
        BY DoOf, Zenon
      <4>4. \A c \in Widened : t = Widen(c) => t.do = "widen"
        BY DoOf, Zenon
      <4>5. \/ t.do = "create log" \/ t.do = "retype" \/ t.do = "enum"
            \/ t.do = "add" \/ t.do = "widen"
        BY <3>1, <3>2, <4>1, <4>2, <4>3, <4>4, Zenon DEF Change
      <4> QED BY <4>5
    <3> QED BY <3>3
  <2> QED BY <2>1, <2>2
<1>4. Did(e, t)
  BY <1>2, <1>3 DEF Did, Keeps
<1> QED BY <1>1, <1>4

\* A table of the last life is dropped.
LEMMA DropStep ==
  ASSUME IInv, StartDb, DropTable
  PROVE  IInv'
<1> USE DEF procs
<1>1. PICK t \in old : db' = Apply(db, Drop(t)) /\ old' = old \ {t}
  BY DEF DropTable
<1>2. /\ UNCHANGED <<phase, schema_ver, next, writeable, nodes, lost, procs, crashes>>
      /\ phase = "db" /\ TypeOK /\ db \in Databases /\ t \in Ephemeral
  BY <1>1 DEF StartDb, DropTable, IInv, TypeOK
<1>3. /\ db' \in Databases /\ Keeps(db, db', {"tables", "rows", "tether"})
      /\ db'.tables = db.tables \ {t}
      /\ db'.rows = (db.rows /\ t # "NODES")
      /\ db'.tether = IF t = "TETHER" THEN <<>> ELSE db.tether
  <2>1. PICK e : e = db'
    OBVIOUS
  <2>2. e = Apply(db, Drop(t))
    BY <1>1, <2>1
  <2>3. /\ e \in Databases /\ Keeps(db, e, {"tables", "rows", "tether"})
        /\ e.tables = db.tables \ {t}
        /\ e.rows = (db.rows /\ t # "NODES")
        /\ e.tether = IF t = "TETHER" THEN <<>> ELSE db.tether
    <3>1. db \in Databases /\ t \in Ephemeral
      BY <1>2
    <3> HIDE DEF procs
    <3> QED BY <2>2, <3>1, Drops
  <2> QED BY <2>1, <2>3
<1>4. next = 1 /\ schema_ver <= Latest /\ old = db.tables
  BY <1>1 DEF IInv, TablesInv
<1>5. TypeOK'
  BY <1>1, <1>2, <1>3 DEF TypeOK, Keeps
<1>6. SchemaInv'
  <2>1. ASSUME NEW v \in 1 .. Latest, Made(v)' PROVE Has(db', v)
    <3>1. Made(v) /\ v \in 1 .. 6
      BY <1>2, <1>3, <2>1, LatestIs DEF Made, Keeps
    <3>2. Has(db, v)
      BY <2>1, <3>1 DEF IInv, SchemaInv
    <3> QED BY <1>3, <3>1, <3>2, HasDropped
  <2> QED BY <1>2, <1>4, <2>1 DEF SchemaInv
<1>7. RowInv'
  BY <1>2, <1>3 DEF IInv, RowInv, Keeps
<1>8. EventsInv'
  BY <1>2, <1>3 DEF IInv, EventsInv, KeepsTypes, Keeps
<1>9. TablesInv'
  <2>1. db.rows => "NODES" \in db.tables
    BY DEF IInv, TablesInv
  <2>2. db.tether # <<>> => "TETHER" \in db.tables
    BY DEF IInv, TablesInv
  <2>3. db'.rows => "NODES" \in db'.tables
    BY <1>3, <2>1
  <2>4. db'.tether # <<>> => "TETHER" \in db'.tables
    BY <1>3, <2>2
  <2>5. next' = 1 /\ schema_ver' <= Latest /\ old' = db'.tables /\ phase' = "db"
    BY <1>1, <1>2, <1>3, <1>4
  <2>6. ~(schema_ver' > Latest)
    BY <1>2, <2>5, LatestIs DEF TypeOK
  <2> QED BY <2>3, <2>4, <2>5, <2>6 DEF TablesInv
<1>10. ProcInv'
  BY <1>2 DEF IInv, ProcInv
<1> QED BY <1>5, <1>6, <1>7, <1>8, <1>9, <1>10 DEF IInv

LEMMA StartDbStep ==
  ASSUME IInv, StartDb
  PROVE  IInv'
<1>1. CASE DropTable
  BY <1>1, DropStep
<1>2. CASE Execute
  <2>1. PICK v \in 1 .. 7 : \E k \in 1 .. Len(Block(v)) : Executed(v, k)
    BY <1>2, ExecuteTells DEF IInv
  <2>2. PICK k \in 1 .. Len(Block(v)) : Executed(v, k)
    BY <2>1
  <2>3. TypeOK' /\ SchemaInv' /\ RowInv'
    BY <2>2, ExecuteType, ExecuteSchema, ExecuteRow DEF IInv
  <2>4. EventsInv' /\ TablesInv'
    BY <2>2, ExecuteEvents, ExecuteTables DEF IInv
  <2>5. ProcInv'
    BY <2>2 DEF Executed, IInv, ProcInv, procs
  <2> QED BY <2>3, <2>4, <2>5 DEF IInv
<1> QED BY <1>1, <1>2 DEF StartDb

-----------------------------------------------------------------------------
(* The life of the daemon.                                                  *)

\* A version table is all of the first version that can be there without its row.
LEMMA FirstHas == ASSUME NEW d, d.versioned PROVE Has(d, 1)
<1> SUFFICES ASSUME NEW j \in DOMAIN Changes[1] PROVE Did(d, Changes[1][j])
  BY DEF Has
<1>1. PICK t : t = Changes[1][j]
  OBVIOUS
<1>2. j = 1 \/ j = 2
  <2>1. j \in 1 .. 2
    BY ChangesLength
  <2> QED BY <2>1
<1>3. j = 1 => t = [do |-> "create version"]
  BY <1>1, ChangesAre, Zenon
<1>4. j = 2 => t = [do |-> "insert version", version |-> 1]
  BY <1>1, ChangesAre, Zenon
<1>5. t.do = "create version" \/ t.do = "insert version"
  BY <1>2, <1>3, <1>4, DoOf, Zenon
<1> QED BY <1>1, <1>5 DEF Did

LEMMA StartStep ==
  ASSUME IInv, Start
  PROVE  IInv'
<1> USE DEF procs
<1>1. /\ phase = "dead" /\ phase' = "db" /\ old' = db.tables /\ next' = 1
      /\ schema_ver' = SchemaVersion(db) /\ lost' = (lost \/ (db.versioned /\ db.row = 0))
      /\ UNCHANGED <<db, writeable, nodes, procs, crashes>>
  BY DEF Start, OldTables
<1>2. /\ TypeOK /\ db \in Databases /\ db.row \in 0 .. 6 /\ Latest = 6
      /\ (db.row > 0 => db.versioned) /\ db.tables \subseteq Ephemeral /\ lost \in BOOLEAN
      /\ db.versioned \in BOOLEAN
  BY LatestIs DEF IInv, TypeOK, Databases
<1>3. schema_ver' = IF ~db.versioned THEN 0 ELSE IF db.row = 0 THEN 1 ELSE db.row
  BY <1>1 DEF SchemaVersion
<1>4. schema_ver' \in 0 .. 6 /\ ~(schema_ver' > Latest) /\ schema_ver' <= Latest
  BY <1>2, <1>3
<1>11. PICK n \in 0 .. 6 : n = schema_ver'
  BY <1>4
<1>5. TypeOK'
  <2>1. schema_ver' + 1 \in 1 .. 7
    <3>1. n + 1 \in 1 .. 7
      OBVIOUS
    <3> QED BY <1>11, <3>1
  <2>2. Len(Block(schema_ver' + 1)) \in Nat /\ Len(Block(schema_ver' + 1)) >= 1
    BY <2>1, BlockPositive
  <2>3. next' \in 1 .. IF schema_ver' > Latest THEN 1 ELSE Len(Block(schema_ver' + 1))
    BY <1>1, <1>4, <2>2
  <2>4. schema_ver' \in 0 .. Latest + 1
    BY <1>2, <1>4
  <2>5. lost' \in BOOLEAN
    BY <1>1, <1>2
  <2> QED BY <1>1, <1>2, <2>3, <2>4, <2>5 DEF TypeOK
<1>6. SchemaInv'
  <2>1. ASSUME NEW v \in 1 .. Latest, Made(v)' PROVE Has(db', v)
    <3>1. db.row >= v \/ schema_ver' >= v
      BY <1>1, <2>1 DEF Made
    <3>2. db.row >= v \/ (v = 1 /\ db.versioned)
      BY <1>2, <1>3, <2>1, <3>1
    <3>3. CASE db.row >= v
      BY <1>1, <2>1, <3>3 DEF IInv, SchemaInv, Made
    <3>4. CASE v = 1 /\ db.versioned
      BY <1>1, <3>4, FirstHas
    <3> QED BY <3>2, <3>3, <3>4
  <2> QED BY <1>1, <2>1 DEF SchemaInv
<1>7. RowInv'
  <2>1. lost => db.versioned /\ db.row = 0
    BY DEF IInv, RowInv
  <2>2. ASSUME lost' PROVE db'.versioned /\ db'.row = 0 /\ schema_ver' >= 1
    <3>1. db.versioned /\ db.row = 0 /\ db' = db
      BY <1>1, <2>1, <2>2
    <3>2. schema_ver' = 1
      BY <1>3, <3>1
    <3> QED BY <3>1, <3>2
  <2>3. ~lost' => db'.row = schema_ver'
    BY <1>1, <1>2, <1>3
  <2> QED BY <1>1, <1>4, <2>2, <2>3 DEF RowInv
<1>8. EventsInv'
  BY <1>1 DEF IInv, EventsInv, KeepsTypes
<1>9. TablesInv'
  <2>1. db.rows => "NODES" \in db.tables
    BY DEF IInv, TablesInv
  <2>2. db.tether # <<>> => "TETHER" \in db.tables
    BY DEF IInv, TablesInv
  <2>3. old' = {} => ~db.rows /\ db.tether = <<>>
    BY <1>1, <2>1, <2>2
  <2> QED BY <1>1, <1>4, <2>1, <2>2, <2>3 DEF TablesInv
<1>10. ProcInv'
  BY <1>1 DEF IInv, ProcInv
<1> QED BY <1>5, <1>6, <1>7, <1>8, <1>9, <1>10 DEF IInv

LEMMA StartedStep ==
  ASSUME IInv, Started
  PROVE  IInv'
<1> USE DEF procs, local
<1>1. /\ phase = "db" /\ schema_ver > Latest /\ phase' = "running"
      /\ db' = WriteEvent(db, "C")
      /\ UNCHANGED <<old, schema_ver, next, writeable, nodes, lost, procs, crashes>>
  BY DEF Started
<1>2. TypeOK /\ db \in Databases /\ schema_ver \in 0 .. 7 /\ Latest = 6
  BY LatestIs DEF IInv, TypeOK
<1>3. /\ db' \in Databases /\ Keeps(db, db', {"events"})
      /\ db'.events = Append(db.events, [wrote |-> "C", type |-> "C"])
  BY <1>1, <1>2, Writes
<1>4. old = {} /\ ~writeable
  BY <1>1, <1>2 DEF IInv, TablesInv, ProcInv
<1>5. TypeOK'
  BY <1>1, <1>2, <1>3, <1>4 DEF TypeOK, Keeps
<1>6. SchemaInv'
  <2>1. ASSUME NEW v \in 1 .. Latest PROVE Has(db', v)
    <3>1. Made(v) /\ v \in 1 .. 6
      BY <1>1, <1>2, <2>1 DEF Made
    <3>2. Has(db, v)
      BY <2>1, <3>1 DEF IInv, SchemaInv
    <3>3. Keeps(db, db', {"row", "events", "rows", "tether"})
      BY <1>3 DEF Keeps
    <3> QED BY <3>2, <3>3, HasSame
  <2> QED BY <1>1, <2>1 DEF SchemaInv
<1>7. ~lost => db.row = Latest
  BY <1>1 DEF IInv, RowInv
<1>8. db'.row = db.row /\ db'.versioned = db.versioned /\ db'.tables = db.tables
      /\ db'.rows = db.rows /\ db'.tether = db.tether
  BY <1>3 DEF Keeps
<1>9. RowInv'
  BY <1>1, <1>7, <1>8 DEF IInv, RowInv
<1>10. EventsInv'
  <2>1. EventsInv /\ UNCHANGED lost /\ "C" \in {"C", "R", "S"}
    BY <1>1 DEF IInv
  <2> QED BY <1>2, <1>3, <1>7, <1>8, <2>1, EventWritten
<1>11. TablesInv'
  <2>1. ~db.rows /\ db.tether = <<"N">> /\ db.tables = Ephemeral
    BY <1>1, <1>4 DEF IInv, TablesInv
  <2>2. "NODES" \in Ephemeral /\ "TETHER" \in Ephemeral
    BY DEF Ephemeral
  <2> QED BY <1>1, <1>4, <1>8, <2>1, <2>2 DEF TablesInv, FreshTables
<1>12. ProcInv'
  BY <1>1 DEF IInv, ProcInv
<1> QED BY <1>5, <1>6, <1>9, <1>10, <1>11, <1>12 DEF IInv

\* A running daemon changes nothing of the database but events, nodes and TETHER.
LEMMA RunningStep ==
  ASSUME IInv, phase = "running", UNCHANGED <<phase, local, lost>>,
         db' \in Databases, Keeps(db, db', {"events", "rows", "tether"})
  PROVE  SchemaInv' /\ RowInv' /\ (~lost => db.row = Latest) /\ db'.row = db.row
<1> USE DEF local
<1>1. db'.row = db.row /\ db'.versioned = db.versioned
  BY DEF Keeps
<1>2. ~lost => db.row = Latest
  BY DEF IInv, RowInv
<1>3. RowInv'
  BY <1>1 DEF IInv, RowInv
<1>4. ASSUME NEW v \in 1 .. Latest PROVE Has(db', v)
  <2>1. Has(db, v)
    BY <1>4 DEF IInv, SchemaInv, Made
  <2>2. Keeps(db, db', {"row", "events", "rows", "tether"})
    BY DEF Keeps
  <2> QED BY <2>1, <2>2, HasSame
<1>5. SchemaInv'
  BY <1>4 DEF SchemaInv
<1> QED BY <1>1, <1>2, <1>3, <1>5

LEMMA NodeConnectedStep ==
  ASSUME IInv, NodeConnected
  PROVE  IInv'
<1> USE DEF procs, local
<1>1. /\ phase = "running" /\ nodes' = TRUE /\ db' = [db EXCEPT !.rows = TRUE]
      /\ UNCHANGED <<phase, local, writeable, lost, procs, crashes>>
  BY DEF NodeConnected
<1>2. db \in Databases
  BY DEF IInv, TypeOK
<1>3. db' \in Databases /\ Keeps(db, db', {"rows"}) /\ db'.rows = TRUE
  BY <1>1, <1>2 DEF Databases, Keeps
<1>4. Keeps(db, db', {"events", "rows", "tether"})
  BY <1>3 DEF Keeps
<1>5. SchemaInv' /\ RowInv'
  BY <1>1, <1>3, <1>4, RunningStep
<1>6. TypeOK'
  BY <1>1, <1>3 DEF IInv, TypeOK, Keeps
<1>7. EventsInv'
  BY <1>1, <1>3 DEF IInv, EventsInv, KeepsTypes, Keeps
<1>8. TablesInv'
  <2>1. db.tables = Ephemeral /\ FreshTables /\ "NODES" \in Ephemeral /\ "TETHER" \in Ephemeral
    BY <1>1 DEF IInv, TablesInv, Ephemeral
  <2>2. old = {}
    BY <1>1 DEF IInv, TypeOK
  <2> QED BY <1>1, <1>3, <2>1, <2>2 DEF TablesInv, FreshTables, Keeps
<1>9. ProcInv'
  BY <1>1 DEF IInv, ProcInv
<1> QED BY <1>5, <1>6, <1>7, <1>8, <1>9 DEF IInv

LEMMA SetWriteableStep ==
  ASSUME IInv, SetWriteable
  PROVE  IInv'
<1> USE DEF procs, local
<1>1. /\ phase = "running" /\ forked /\ writeable' = ~writeable /\ db' = Told(db, ~writeable)
      /\ UNCHANGED <<phase, local, nodes, lost, procs, crashes>>
  BY DEF SetWriteable
<1>2. TypeOK /\ db \in Databases /\ writeable \in BOOLEAN /\ (~writeable) \in BOOLEAN
  <2>1. TypeOK /\ db \in Databases /\ writeable \in BOOLEAN
    BY DEF IInv, TypeOK
  <2> QED BY <2>1, Zenon
<1>3. db.tables = Ephemeral /\ FreshTables /\ "NODES" \in Ephemeral /\ "TETHER" \in Ephemeral
  BY <1>1 DEF IInv, TablesInv, Ephemeral
<1>4. Len(db.tether) = 1
  BY <1>1, <1>3 DEF FreshTables
<1>5. /\ db' \in Databases
      /\ Keeps(db, db', {"events", "tether"})
      /\ db'.tether = << IF ~writeable THEN "Y" ELSE "N" >>
      /\ db'.events = Append(db.events, [wrote |-> "C", type |-> "C"])
  BY <1>1, <1>2, <1>4, Tells
<1>6. Keeps(db, db', {"events", "rows", "tether"})
  BY <1>5 DEF Keeps
<1>7. SchemaInv' /\ RowInv' /\ (~lost => db.row = Latest) /\ db'.row = db.row
  BY <1>1, <1>5, <1>6, RunningStep
<1>8. TypeOK'
  BY <1>1, <1>2, <1>5 DEF TypeOK, Keeps
<1>9. EventsInv'
  <2>1. EventsInv /\ UNCHANGED lost /\ "C" \in {"C", "R", "S"}
    BY <1>1 DEF IInv
  <2> QED BY <1>2, <1>5, <1>7, <2>1, EventWritten
<1>10. TablesInv'
  <2>1. old = {}
    BY <1>1 DEF IInv, TypeOK
  <2>2. db'.rows = db.rows /\ db'.tables = db.tables
    BY <1>5 DEF Keeps
  <2>3. db'.tether = << IF writeable' THEN "Y" ELSE "N" >>
    BY <1>1, <1>2, <1>5
  <2> QED BY <1>1, <1>3, <2>1, <2>2, <2>3 DEF TablesInv, FreshTables
<1>11. ProcInv'
  BY <1>1 DEF IInv, ProcInv
<1> QED BY <1>7, <1>8, <1>9, <1>10, <1>11 DEF IInv

LEMMA AddSnapEventStep ==
  ASSUME IInv, AddSnapEvent
  PROVE  IInv'
<1> USE DEF procs, local, daemon
<1>1. "sa" \in listening /\ db' = WriteEvent(db, "S") /\ UNCHANGED <<daemon, procs, crashes>>
  BY DEF AddSnapEvent
<1>2. TypeOK /\ db \in Databases
  BY DEF IInv, TypeOK
<1>3. phase = "running"
  BY <1>1 DEF IInv, ProcInv
<1>4. /\ db' \in Databases /\ Keeps(db, db', {"events"})
      /\ db'.events = Append(db.events, [wrote |-> "S", type |-> "S"])
  BY <1>1, <1>2, Writes
<1>5. Keeps(db, db', {"events", "rows", "tether"})
  BY <1>4 DEF Keeps
<1>6. SchemaInv' /\ RowInv' /\ (~lost => db.row = Latest) /\ db'.row = db.row
  BY <1>1, <1>3, <1>4, <1>5, RunningStep
<1>7. TypeOK'
  BY <1>1, <1>2, <1>4 DEF TypeOK, Keeps
<1>8. EventsInv'
  <2>1. EventsInv /\ UNCHANGED lost /\ "S" \in {"C", "R", "S"}
    BY <1>1 DEF IInv
  <2> QED BY <1>2, <1>4, <1>6, <2>1, EventWritten
<1>9. TablesInv'
  <2>1. /\ db'.rows = db.rows /\ db'.tables = db.tables /\ db'.tether = db.tether
    BY <1>4 DEF Keeps
  <2> QED BY <1>1, <2>1 DEF IInv, TablesInv, FreshTables
<1>10. ProcInv'
  BY <1>1 DEF IInv, ProcInv
<1> QED BY <1>6, <1>7, <1>8, <1>9, <1>10 DEF IInv

\* Whatever ends the daemon, the database has the versions it has, and the rest begins
\* anew.
LEMMA EndStep ==
  ASSUME IInv, End, db' \in Databases, Keeps(db, db', {"events", "tether"}), EventsInv',
         db'.tether # <<>> => "TETHER" \in db.tables
  PROVE  IInv'
<1>1. /\ phase' = "dead" /\ old' = {} /\ schema_ver' = 0 /\ next' = 1
      /\ writeable' = FALSE /\ nodes' = FALSE /\ lost' = lost
      /\ crashes < MaxCrashes /\ crashes' = crashes + 1
      /\ forked' = FALSE /\ scanning' = FALSE
      /\ proc' = [s \in Slot |-> "none"] /\ engine' = [s \in Slot |-> "absent"]
      /\ asked' = {} /\ socket' = Proto /\ listening' = {}
  BY DEF End, NoProcesses
<1>2. /\ db'.row = db.row /\ db'.versioned = db.versioned /\ db'.tables = db.tables
      /\ db'.rows = db.rows
  BY DEF Keeps
<1>3. Proto \subseteq Slot /\ Latest = 6 /\ Len(Block(1)) = 2
  BY LatestIs, BlockLength DEF Slot
<1>4. TypeOK'
  <2>1. next' \in 1 .. IF schema_ver' > Latest THEN 1 ELSE Len(Block(schema_ver' + 1))
    <3>1. schema_ver' + 1 = 1 /\ ~(schema_ver' > Latest) /\ 1 \in 1 .. 2
      BY <1>1, <1>3
    <3> QED BY <1>1, <1>3, <3>1, Zenon
  <2>2. crashes' \in 0 .. MaxCrashes
    BY <1>1, StartupAssumption DEF IInv, TypeOK
  <2>3. /\ proc' \in [Slot -> {"none", "running", "phantom", "zombie"}]
        /\ engine' \in [Slot -> {"absent", "empty"} \cup Script]
    BY <1>1
  <2>4. schema_ver' \in 0 .. Latest + 1
    BY <1>1, <1>3
  <2> QED BY <1>1, <1>2, <2>1, <2>2, <2>3, <2>4 DEF IInv, TypeOK
<1>5. SchemaInv'
  <2>1. ASSUME NEW v \in 1 .. Latest, Made(v)' PROVE Has(db', v)
    <3>1. Made(v)
      BY <1>1, <1>2, <2>1 DEF Made
    <3>2. Has(db, v)
      BY <2>1, <3>1 DEF IInv, SchemaInv
    <3>3. Keeps(db, db', {"row", "events", "rows", "tether"})
      BY DEF Keeps
    <3> QED BY <3>2, <3>3, HasSame
  <2> QED BY <1>1, <2>1 DEF SchemaInv
<1>6. RowInv'
  BY <1>1, <1>2 DEF IInv, RowInv
<1>7. TablesInv'
  BY <1>1, <1>2 DEF IInv, TablesInv
<1>8. ProcInv'
  BY <1>1, <1>3 DEF ProcInv
<1> QED BY <1>4, <1>5, <1>6, <1>7, <1>8 DEF IInv

\* Killed, the daemon leaves the database as it is.
LEMMA KilledStep ==
  ASSUME IInv, End, UNCHANGED db
  PROVE  IInv'
<1>1. db' \in Databases /\ Keeps(db, db', {"events", "tether"})
  BY DEF IInv, TypeOK, Keeps
<1>2. EventsInv'
  BY DEF IInv, EventsInv, KeepsTypes, End
<1>3. db'.tether # <<>> => "TETHER" \in db.tables
  BY DEF IInv, TablesInv
<1> QED BY <1>1, <1>2, <1>3, EndStep

\* An event of the type it was written with behind others like that.
LEMMA AppendedTyped ==
  ASSUME NEW s \in Seq(Event), NEW q, q = Append(s, [wrote |-> "C", type |-> "C"]),
         \A i \in DOMAIN s : s[i].type = s[i].wrote \/ (s[i].type = "none" /\ s[i].wrote = "R")
  PROVE  \A i \in DOMAIN q : q[i].type = q[i].wrote \/ (q[i].type = "none" /\ q[i].wrote = "R")
<1>1. PICK x : x = [wrote |-> "C", type |-> "C"]
  OBVIOUS
<1>2. x.wrote = "C" /\ x.type = "C" /\ x \in Event
  BY <1>1 DEF Event
<1>3. q = Append(s, x)
  BY <1>1
<1>4. /\ DOMAIN q = 1 .. Len(s) + 1 /\ DOMAIN s = 1 .. Len(s) /\ Len(s) \in Nat
      /\ q[Len(s) + 1] = x /\ \A i \in 1 .. Len(s) : q[i] = s[i]
  BY <1>2, <1>3
<1> SUFFICES ASSUME NEW i \in DOMAIN q
             PROVE  q[i].type = q[i].wrote \/ (q[i].type = "none" /\ q[i].wrote = "R")
  OBVIOUS
<1>5. CASE i = Len(s) + 1
  BY <1>2, <1>4, <1>5
<1>6. CASE i # Len(s) + 1
  <2>1. i \in DOMAIN s /\ q[i] = s[i]
    BY <1>4, <1>6
  <2> QED BY <2>1
<1> QED BY <1>5, <1>6

LEMMA ExitStep ==
  ASSUME IInv, Exit
  PROVE  IInv'
<1> DEFINE Before == IF writeable THEN Told(db, FALSE) ELSE db
<1>1. phase = "running" /\ End /\ db' = WriteEvent(Before, "C") /\ lost' = lost
  BY DEF Exit, End
<1>2. TypeOK /\ db \in Databases /\ writeable \in BOOLEAN /\ old = {}
  BY <1>1 DEF IInv, TypeOK
<1>3. db.tables = Ephemeral /\ FreshTables /\ "TETHER" \in Ephemeral
  BY <1>1 DEF IInv, TablesInv, Ephemeral
<1>4. Len(db.tether) = 1 /\ FALSE \in BOOLEAN
  BY <1>1, <1>3 DEF FreshTables
<1>5. ~lost => db.row = Latest
  BY <1>1 DEF IInv, RowInv
<1>6. PICK c : c = Before
  OBVIOUS
<1>7. /\ c \in Databases /\ Keeps(db, c, {"events", "tether"})
      /\ c = db \/ c.events = Append(db.events, [wrote |-> "C", type |-> "C"])
  <2>1. CASE writeable
    <3>1. c = Told(db, FALSE)
      BY <1>6, <2>1
    <3> QED BY <1>2, <1>4, <3>1, Tells
  <2>2. CASE ~writeable
    <3>1. c = db
      BY <1>6, <2>2
    <3> QED BY <1>2, <3>1 DEF Keeps
  <2> QED BY <2>1, <2>2
<1>8. /\ db' \in Databases /\ Keeps(c, db', {"events"})
      /\ db'.events = Append(c.events, [wrote |-> "C", type |-> "C"])
  BY <1>1, <1>6, <1>7, Writes
<1>9. Keeps(db, db', {"events", "tether"})
  BY <1>7, <1>8 DEF Keeps
<1>10. ~lost => \A i \in DOMAIN c.events :
                  \/ c.events[i].type = c.events[i].wrote
                  \/ c.events[i].type = "none" /\ c.events[i].wrote = "R"
  <2> SUFFICES ASSUME ~lost PROVE \A i \in DOMAIN c.events :
                                    \/ c.events[i].type = c.events[i].wrote
                                    \/ c.events[i].type = "none" /\ c.events[i].wrote = "R"
    OBVIOUS
  <2>1. \A i \in DOMAIN db.events :
          \/ db.events[i].type = db.events[i].wrote
          \/ db.events[i].type = "none" /\ db.events[i].wrote = "R"
    BY DEF IInv, EventsInv, KeepsTypes
  <2>2. CASE c = db
    BY <2>1, <2>2
  <2>3. CASE c.events = Append(db.events, [wrote |-> "C", type |-> "C"])
    BY <1>2, <2>1, <2>3, AppendedTyped DEF Databases
  <2> QED BY <1>7, <2>2, <2>3
<1>11. EventsInv'
  <2> SUFFICES ASSUME ~lost PROVE KeepsTypes' /\ ~(db'.row < 4)
    BY <1>1 DEF EventsInv
  <2>1. db'.row = 6
    BY <1>5, <1>9, LatestIs DEF Keeps
  <2>2. \A i \in DOMAIN db'.events :
          \/ db'.events[i].type = db'.events[i].wrote
          \/ db'.events[i].type = "none" /\ db'.events[i].wrote = "R"
    BY <1>7, <1>8, <1>10, AppendedTyped DEF Databases
  <2> QED BY <2>1, <2>2 DEF KeepsTypes
<1> QED BY <1>1, <1>3, <1>8, <1>9, <1>11, EndStep

-----------------------------------------------------------------------------
(* The databases of the earlier versions.                                   *)

\* What a version adds are columns.
LEMMA AddedAre ==
  ASSUME NEW v \in 2 .. 6, NEW j \in DOMAIN Changes[v], Changes[v][j].do = "add"
  PROVE  Changes[v][j].column \in Column
<1>1. PICK t : t = Changes[v][j]
  OBVIOUS
<1>2. Change(v, t) /\ t.do = "add"
  BY <1>1, ChangeKinds
<1>3. /\ t # [do |-> "create log"] /\ t # [do |-> "retype"]
      /\ \A c \in Widened : t # Widen(c)
  <2>1. "create log" # "add" /\ "retype" # "add" /\ "widen" # "add"
    OBVIOUS
  <2> QED BY <1>2, <2>1, DoOf, Zenon
<1>4. t # Enum({"C", "R"}) /\ t # Enum({"C", "R", "S"})
  BY <1>2 DEF Enum
<1>5. PICK c \in Column : t = Add(c)
  BY <1>2, <1>3, <1>4, Zenon DEF Change
<1>6. t.column = c
  BY <1>5 DEF Add
<1> QED BY <1>1, <1>6

LEMMA DatabaseIs ==
  ASSUME NEW v \in 0 .. 6, NEW d, d = Database(v)
  PROVE  /\ d.versioned = (v >= 1) /\ d.row = v /\ d.log = (v >= 2)
         /\ d.columns = UNION {Added(w) : w \in 2 .. v}
         /\ d.types = IF v < 4 THEN {} ELSE IF v < 6 THEN {"C", "R"} ELSE {"C", "R", "S"}
         /\ d.wide = IF v < 6 THEN {} ELSE Widened
         /\ d.events = IF v < 2 THEN <<>>
                       ELSE << IF v < 4 THEN [wrote |-> "R", type |-> "none"]
                                        ELSE [wrote |-> "C", type |-> "C"] >>
         /\ d.tables = {} /\ d.rows = FALSE /\ d.tether = <<>>
         /\ d \in Databases
<1> DEFINE ver == (v >= 1)
           log == (v >= 2)
           cols == UNION {Added(w) : w \in 2 .. v}
           typ == IF v < 4 THEN {} ELSE IF v < 6 THEN {"C", "R"} ELSE {"C", "R", "S"}
           wid == IF v < 6 THEN {} ELSE Widened
           evs == IF v < 2 THEN <<>>
                  ELSE << IF v < 4 THEN [wrote |-> "R", type |-> "none"]
                                   ELSE [wrote |-> "C", type |-> "C"] >>
<1>1. d = [versioned |-> ver, row |-> v, log |-> log, columns |-> cols, types |-> typ,
           wide |-> wid, events |-> evs, tables |-> {}, rows |-> FALSE, tether |-> <<>>]
  BY DEF Database, NoDatabase
<1>2. ver \in BOOLEAN /\ log \in BOOLEAN /\ v \in 0 .. Latest
  BY LatestIs
<1>3. cols \in SUBSET Column
  <2>1. ASSUME NEW w \in 2 .. v PROVE Added(w) \subseteq Column
    BY AddedAre DEF Added
  <2> QED BY <2>1
<1>4. typ \in {{}, {"C", "R"}, {"C", "R", "S"}}
  OBVIOUS
<1>5. wid \in SUBSET Widened
  OBVIOUS
<1>6. evs \in Seq(Event)
  <2>1. [wrote |-> "R", type |-> "none"] \in Event /\ [wrote |-> "C", type |-> "C"] \in Event
    BY DEF Event
  <2> QED BY <2>1
<1>7. {} \in SUBSET Ephemeral /\ FALSE \in BOOLEAN /\ <<>> \in Seq({"N", "Y"})
  OBVIOUS
<1> HIDE DEF ver, log, cols, typ, wid, evs
<1>8. d \in Databases
  BY <1>1, <1>2, <1>3, <1>4, <1>5, <1>6, <1>7 DEF Databases
<1>9. /\ d.versioned = ver /\ d.row = v /\ d.log = log /\ d.columns = cols /\ d.types = typ
      /\ d.wide = wid /\ d.events = evs /\ d.tables = {} /\ d.rows = FALSE
      /\ d.tether = <<>>
  BY <1>1
<1> QED BY <1>8, <1>9 DEF ver, log, cols, typ, wid, evs

\* The database of a version has all earlier ones.
LEMMA DatabaseHas ==
  ASSUME NEW v \in 0 .. 6, NEW d, d = Database(v), NEW w \in 1 .. 6, w <= v
  PROVE  Has(d, w)
<1>1. /\ d.versioned = (v >= 1) /\ d.log = (v >= 2)
      /\ d.columns = UNION {Added(u) : u \in 2 .. v}
      /\ d.types = IF v < 4 THEN {} ELSE IF v < 6 THEN {"C", "R"} ELSE {"C", "R", "S"}
      /\ d.wide = IF v < 6 THEN {} ELSE Widened
  BY DatabaseIs
<1>2. CASE w = 1
  BY <1>1, <1>2, FirstHas
<1>3. CASE w \in 2 .. 6
  <2> SUFFICES ASSUME NEW j \in DOMAIN Changes[w] PROVE Did(d, Changes[w][j])
    BY DEF Has
  <2>1. PICK t : t = Changes[w][j]
    OBVIOUS
  <2>2. Change(w, t)
    BY <1>3, <2>1, ChangeKinds
  <2>3. CASE w = 2 /\ t = [do |-> "create log"]
    <3>1. t.do = "create log"
      BY <2>3
    <3>2. d.log
      BY <1>1, <2>3
    <3> QED BY <2>1, <3>1, <3>2 DEF Did
  <2>4. ASSUME NEW c \in Column, t = Add(c) PROVE Did(d, t)
    <3>1. t.do = "add" /\ t.column = c
      BY <2>4 DEF Add
    <3>2. t.column \in Added(w)
      BY <2>1, <3>1 DEF Added
    <3>3. t.column \in d.columns
      BY <1>1, <1>3, <3>2
    <3> QED BY <3>1, <3>3 DEF Did
  <2>5. CASE t = [do |-> "retype"]
    <3>1. t.do = "retype"
      BY <2>5
    <3> QED BY <2>1, <3>1 DEF Did
  <2>6. CASE w = 4 /\ t = Enum({"C", "R"})
    <3>1. t.do = "enum" /\ t.types = {"C", "R"}
      BY <2>6 DEF Enum
    <3>2. {"C", "R"} \subseteq d.types
      BY <1>1, <2>6
    <3> QED BY <2>1, <3>1, <3>2 DEF Did
  <2>7. CASE w = 6 /\ t = Enum({"C", "R", "S"})
    <3>1. t.do = "enum" /\ t.types = {"C", "R", "S"}
      BY <2>7 DEF Enum
    <3>2. {"C", "R", "S"} \subseteq d.types
      BY <1>1, <2>7
    <3> QED BY <2>1, <3>1, <3>2 DEF Did
  <2>8. ASSUME w = 6, NEW c \in Widened, t = Widen(c) PROVE Did(d, t)
    <3>1. t.do = "widen" /\ t.column = c
      BY <2>8 DEF Widen
    <3>2. c \in d.wide
      BY <1>1, <2>8
    <3> QED BY <3>1, <3>2 DEF Did
  <2>9. Did(d, t)
    BY <2>1, <2>2, <2>3, <2>4, <2>5, <2>6, <2>7, <2>8, Zenon DEF Change
  <2> QED BY <2>1, <2>9
<1> QED BY <1>2, <1>3

LEMMA InitInv ==
  ASSUME Init
  PROVE  IInv
<1>1. PICK v \in OldVersion : db = Database(v)
  BY DEF Init
<1>2. v \in 0 .. 6
  BY StartupAssumption
<1>3. /\ db.versioned = (v >= 1) /\ db.row = v
      /\ db.events = IF v < 2 THEN <<>>
                     ELSE << IF v < 4 THEN [wrote |-> "R", type |-> "none"]
                                      ELSE [wrote |-> "C", type |-> "C"] >>
      /\ db.tables = {} /\ db.rows = FALSE /\ db.tether = <<>>
      /\ db \in Databases
  BY <1>1, <1>2, DatabaseIs
<1>4. /\ phase = "dead" /\ old = {} /\ schema_ver = 0 /\ next = 1
      /\ writeable = FALSE /\ nodes = FALSE /\ lost = FALSE
      /\ forked = FALSE /\ scanning = FALSE
      /\ proc = [s \in Slot |-> "none"] /\ engine = [s \in Slot |-> "absent"]
      /\ asked = {} /\ socket = Proto /\ listening = {} /\ crashes = 0
  BY DEF Init
<1>5. Proto \subseteq Slot /\ Latest = 6 /\ Len(Block(1)) = 2
  BY LatestIs, BlockLength DEF Slot
<1>6. TypeOK
  <2>1. next \in 1 .. IF schema_ver > Latest THEN 1 ELSE Len(Block(schema_ver + 1))
    <3>1. schema_ver + 1 = 1 /\ ~(schema_ver > Latest) /\ 1 \in 1 .. 2
      BY <1>4, <1>5
    <3> QED BY <1>4, <1>5, <3>1, Zenon
  <2>2. crashes \in 0 .. MaxCrashes
    BY <1>4, StartupAssumption
  <2>3. /\ proc \in [Slot -> {"none", "running", "phantom", "zombie"}]
        /\ engine \in [Slot -> {"absent", "empty"} \cup Script]
    BY <1>4
  <2>4. schema_ver \in 0 .. Latest + 1
    BY <1>4, <1>5
  <2>5. db.row > 0 => db.versioned
    <3>1. v >= 1 => db.versioned
      BY <1>3
    <3> QED BY <1>2, <1>3, <3>1
  <2> QED BY <1>3, <1>4, <2>1, <2>2, <2>3, <2>4, <2>5 DEF TypeOK
<1>7. SchemaInv
  <2>1. ASSUME NEW w \in 1 .. Latest, Made(w) PROVE Has(db, w)
    <3>1. w \in 1 .. 6 /\ w <= v
      BY <1>3, <1>4, <1>5, <2>1 DEF Made
    <3> QED BY <1>1, <1>2, <3>1, DatabaseHas
  <2> QED BY <1>4, <2>1 DEF SchemaInv
<1>8. RowInv
  BY <1>4 DEF RowInv
<1>9. EventsInv
  <2>1. CASE v < 2
    <3>1. DOMAIN db.events = {}
      BY <1>3, <2>1
    <3> QED BY <3>1 DEF EventsInv, KeepsTypes
  <2>2. CASE v >= 2 /\ v < 4
    <3>1. PICK x : x = [wrote |-> "R", type |-> "none"]
      OBVIOUS
    <3>2. db.events = <<x>>
      BY <1>2, <1>3, <2>2, <3>1
    <3>3. x.wrote = "R" /\ x.type = "none"
      BY <3>1
    <3>4. \A i \in DOMAIN db.events : db.events[i] = x
      BY <3>2
    <3> QED BY <3>3, <3>4 DEF EventsInv, KeepsTypes
  <2>3. CASE v >= 4
    <3>1. PICK x : x = [wrote |-> "C", type |-> "C"]
      OBVIOUS
    <3>2. db.events = <<x>>
      BY <1>2, <1>3, <2>3, <3>1
    <3>3. x.wrote = "C" /\ x.type = "C"
      BY <3>1
    <3>4. \A i \in DOMAIN db.events : db.events[i] = x
      BY <3>2
    <3>5. ~(db.row < 4)
      BY <1>2, <1>3, <2>3
    <3> QED BY <3>3, <3>4, <3>5 DEF EventsInv, KeepsTypes
  <2> QED BY <1>2, <2>1, <2>2, <2>3
<1>10. TablesInv
  BY <1>3, <1>4 DEF TablesInv
<1>11. ProcInv
  BY <1>4, <1>5 DEF ProcInv
<1> QED BY <1>6, <1>7, <1>8, <1>9, <1>10, <1>11 DEF IInv

-----------------------------------------------------------------------------
(* The theorems.                                                            *)

LEMMA NextInv == ASSUME IInv, [Next]_vars PROVE IInv'
<1>1. CASE Start
  BY <1>1, StartStep
<1>2. CASE StartDb
  BY <1>2, StartDbStep
<1>3. CASE Started
  BY <1>3, StartedStep
<1>4. CASE NodeConnected
  BY <1>4, NodeConnectedStep
<1>5. CASE SetWriteable
  BY <1>5, SetWriteableStep
<1>6. CASE AddSnapEvent
  BY <1>6, AddSnapEventStep
<1>7. CASE Crash
  BY <1>7, KilledStep DEF Crash
<1>8. CASE Exit
  BY <1>8, ExitStep
<1>9. CASE \E p \in Proto : SendFailed(p)
  BY <1>9, KilledStep DEF SendFailed
<1>10. CASE \/ ProtocolData \/ ScriptsData \/ ScanData
            \/ \E p \in Proto : Ask(p) \/ SendProtoSocket(p)
            \/ \E s \in Slot : ChildEnds(s)
  <2>1. TypeOK' /\ ProcInv' /\ UNCHANGED <<db, daemon>>
    BY <1>10, ProcessStep DEF IInv
  <2> QED BY <2>1, DaemonStill DEF IInv
<1>11. CASE UNCHANGED vars
  <2>1. UNCHANGED <<db, daemon>>
    BY <1>11 DEF vars
  <2>2. SchemaInv' /\ RowInv' /\ EventsInv' /\ TablesInv'
    BY <2>1, DaemonStill DEF IInv
  <2>3. TypeOK' /\ ProcInv'
    BY <1>11 DEF IInv, TypeOK, ProcInv, vars, daemon, local, procs
  <2> QED BY <2>2, <2>3 DEF IInv
<1>12. \/ Start \/ StartDb \/ Started \/ NodeConnected \/ SetWriteable \/ AddSnapEvent
       \/ Crash \/ Exit \/ ProtocolData \/ ScriptsData \/ ScanData
       \/ (\E p \in Proto : Ask(p)) \/ (\E p \in Proto : SendProtoSocket(p))
       \/ (\E p \in Proto : SendFailed(p)) \/ (\E s \in Slot : ChildEnds(s))
       \/ UNCHANGED vars
  BY Zenon DEF Next
<1> QED BY <1>1, <1>2, <1>3, <1>4, <1>5, <1>6, <1>7, <1>8, <1>9, <1>10, <1>11, <1>12, Zenon

LEMMA Inductive == Spec => []IInv
<1>1. Init => IInv
  BY InitInv
<1>2. IInv /\ [Next]_vars => IInv'
  BY NextInv
<1> QED BY <1>1, <1>2, PTL DEF Spec

\* Whatever cut the starts of drouterd off, the database, StartDb's place in its
\* statements, and the processes and their sockets keep their types.
THEOREM TypeCorrect == Spec => []TypeOK
<1>1. IInv => TypeOK
  BY DEF IInv
<1> QED BY <1>1, Inductive, PTL

\* What every version made is the whole schema.
LEMMA WholeSchema ==
  ASSUME NEW d \in Databases, \A v \in 1 .. 6 : Has(d, v)
  PROVE  d.columns = Column /\ d.types = {"C", "R", "S"} /\ d.wide = Widened
<1>1. \A v \in 1 .. 6 : \A j \in DOMAIN Changes[v] : Did(d, Changes[v][j])
  BY DEF Has
<1>2. /\ 1 \in DOMAIN Changes[3] /\ 2 \in DOMAIN Changes[3]
      /\ 1 \in DOMAIN Changes[4] /\ 4 \in DOMAIN Changes[4]
      /\ 1 \in DOMAIN Changes[5] /\ 2 \in DOMAIN Changes[5] /\ 3 \in DOMAIN Changes[5]
      /\ 1 \in DOMAIN Changes[6] /\ 2 \in DOMAIN Changes[6]
      /\ 3 \in DOMAIN Changes[6] /\ 4 \in DOMAIN Changes[6]
  BY ChangesLength
<1>3. /\ 3 \in 1 .. 6 /\ 4 \in 1 .. 6 /\ 5 \in 1 .. 6 /\ 6 \in 1 .. 6
  OBVIOUS
<1>4. ASSUME NEW c, Did(d, Add(c)) PROVE c \in d.columns
  BY <1>4 DEF Did, Add
<1>5. ASSUME NEW c, Did(d, Widen(c)) PROVE c \in d.wide
  BY <1>5 DEF Did, Widen
<1>6. ASSUME NEW T, Did(d, Enum(T)) PROVE T \subseteq d.types
  BY <1>6 DEF Did, Enum
<1>7. "USERNAME" \in d.columns /\ "HOSTNAME" \in d.columns
  BY <1>1, <1>2, <1>3, <1>4, ChangesAre, Zenon
<1>8. "TYPE" \in d.columns /\ "COMMENT" \in d.columns
  BY <1>1, <1>2, <1>3, <1>4, ChangesAre, Zenon
<1>9. "ROUTER_NAME" \in d.columns /\ "SOURCE_NAME" \in d.columns /\ "DESTINATION_NAME" \in d.columns
  BY <1>1, <1>2, <1>3, <1>4, ChangesAre, Zenon
<1>10. "USERNAME" \in d.wide /\ "HOSTNAME" \in d.wide /\ "ORIGINATING_ADDRESS" \in d.wide
  BY <1>1, <1>2, <1>3, <1>5, ChangesAre, Zenon
<1>11. {"C", "R", "S"} \subseteq d.types
  BY <1>1, <1>2, <1>3, <1>6, ChangesAre, Zenon
<1>12. /\ d.columns \subseteq Column /\ d.wide \subseteq Widened
       /\ d.types \in {{}, {"C", "R"}, {"C", "R", "S"}}
  BY DEF Databases
<1>13. d.columns = Column
  BY <1>7, <1>8, <1>9, <1>12 DEF Column
<1>14. d.wide = Widened
  BY <1>10, <1>12 DEF Widened
<1>15. d.types = {"C", "R", "S"}
  BY <1>11, <1>12
<1> QED BY <1>13, <1>14, <1>15

\* Start-ups cut off after any statement of StartDb's upgrades, in any number and from
\* any earlier schema, leave the version in PERM_VERSION one whose columns are there,
\* and a core that runs has the present schema.
THEOREM VersionsStand == Spec => []SchemaHolds
<1>1. ASSUME IInv PROVE SchemaHolds
  <2>1. db \in Databases /\ db.row \in 0 .. 6 /\ Latest = 6
    BY <1>1, LatestIs DEF IInv, TypeOK, Databases
  <2>2. ASSUME NEW v \in 2 .. db.row PROVE db.log /\ Added(v) \subseteq db.columns
    <3>1. v \in 1 .. 6 /\ 2 \in 1 .. 6 /\ db.row >= v /\ db.row >= 2
      BY <2>1
    <3>2. Has(db, v) /\ Has(db, 2)
      BY <1>1, <2>1, <3>1 DEF IInv, SchemaInv, Made
    <3>3. Added(v) \subseteq db.columns
      BY <3>2 DEF Has, Did, Added
    <3>4. db.log
      <4>1. Did(db, Changes[2][1])
        BY <3>2, ChangesLength DEF Has
      <4>2. PICK t : t = Changes[2][1]
        OBVIOUS
      <4>3. t.do = "create log"
        BY <4>2, ChangesAre, DoOf, Zenon
      <4> QED BY <4>1, <4>2, <4>3 DEF Did
    <3> QED BY <3>3, <3>4
  <2>3. ASSUME db.row = Latest \/ phase = "running"
        PROVE  db.columns = Column /\ db.types = {"C", "R", "S"} /\ db.wide = Widened
    <3>1. \A v \in 1 .. 6 : Has(db, v)
      BY <1>1, <2>1, <2>3 DEF IInv, SchemaInv, Made
    <3> QED BY <2>1, <3>1, WholeSchema
  <2> QED BY <2>2, <2>3 DEF SchemaHolds
<1> QED BY <1>1, Inductive, PTL

\* Over all restarts an event of PERM_SA_EVENTS keeps the type it was written with,
\* unless a daemon was killed between the two statements of version 1.
THEOREM TypesStay == Spec => []KeepsTypes
<1>1. IInv => KeepsTypes
  BY DEF IInv, EventsInv, KeepsTypes
<1> QED BY <1>1, Inductive, PTL

\* A running core has one row in TETHER, which tells whether it may write, and no node
\* of an earlier life in its tables.
THEOREM NothingOld == Spec => []FreshTables
<1>1. IInv => FreshTables
  BY DEF IInv, TablesInv, FreshTables
<1> QED BY <1>1, Inductive, PTL

\* SendProtoSocket fails, and ends the core, only for a process that has gone.
THEOREM OnlyDeadAskers == Spec => DiesOfTheDead
<1>1. ASSUME IInv, NEW p \in Proto, SendFailed(p) PROVE proc[p] # "running"
  <2> SUFFICES ASSUME proc[p] = "running" PROVE FALSE
    OBVIOUS
  <2>1. p \in asked /\ p \notin socket
    BY <1>1 DEF SendFailed
  <2>2. p \in listening
    BY <1>1, <2>1 DEF IInv, ProcInv
  <2> QED BY <1>1, <2>1, <2>2 DEF IInv, ProcInv
<1>2. IInv => [\A p \in Proto : SendFailed(p) => proc[p] # "running"]_vars
  BY <1>1
<1> QED BY <1>2, Inductive, PTL DEF DiesOfTheDead

=============================================================================
