----------------------------- MODULE EndPointMap -----------------------------
(***************************************************************************)
(* The endpoint maps, which number the sources and destinations of many    *)
(* nodes as the inputs and outputs of one router (endpointmap.cpp).  dmap  *)
(* generates a map file from the nodes the core knows (dmap.cpp), someone  *)
(* edits it, the core and the Software Authority process each load all of  *)
(* them when they start: the core makes rows of its tables from them when  *)
(* a node connects (drouter.cpp), the other process activates their        *)
(* snapshots (protocol_sa.cpp).                                            *)
(*                                                                         *)
(* A file is a record of its parts, a section's number is a key.  Numbers  *)
(* in a file start from 1 and in a program from 0, but those of a snapshot *)
(* keep those of the file.  The null address is 0.                         *)
(***************************************************************************)
EXTENDS Integers, Sequences, FiniteSets, Functions

CONSTANTS
  File,           \* the names of map files
  Host,           \* the addresses of nodes
  Slots,          \* Slots[h]: sources (and destinations) of node h
  Hand,           \* the map files someone may write by hand
  Args,           \* the arguments someone may give dmap
  MaxChanges      \* bound: files written, runs of dmap, renamed sources, ends

Kind == {"Input", "Output"}

\* A file has so many sections, and the numbers in its routes are not negative.
IsText(t) ==
  /\ \A k \in Kind : /\ IsFiniteSet(DOMAIN t.entries[k])
                    /\ \A i \in DOMAIN t.entries[k] : t.entries[k][i].slot \in Int
  /\ IsFiniteSet(DOMAIN t.snaps)
  /\ \A s \in DOMAIN t.snaps :
       /\ IsFiniteSet(DOMAIN t.snaps[s].routes)
       /\ \A r \in DOMAIN t.snaps[s].routes :
            t.snaps[s].routes[r].output \in Nat /\ t.snaps[s].routes[r].input \in Nat

ASSUME EndPointMapAssumption ==
  /\ Host \subseteq Nat \ {0} /\ IsFiniteSet(Host)
  /\ Slots \in [Host -> Nat]
  /\ \A t \in Hand : IsText(t)
  /\ \A a \in Args : /\ a.file \in File /\ a.names \in BOOLEAN /\ a.number \in Int
                    /\ a.use \in Seq(Host) /\ a.skip \subseteq Host
  /\ MaxChanges \in Nat

VARIABLES
  dir,            \* dir[<<f, "map">>] and dir[<<f, "temp">>]: texts, or NoFile
  job,            \* the running dmap
  core, maps,     \* the core (up or dead) and its drouter_maps, by router number
  rows,           \* the rows of SA_SOURCES and the like
  known,          \* the nodes in NODES
  label,          \* label[h]: what the node calls its endpoints, but GPIs, at present
  sa, saMaps,     \* the Software Authority process and its proto_maps
  activated,      \* the last snapshot activated, and the commands sent for it
  origin,         \* history: the map that a file was generated from
  metAs,          \* history: label[h] when the node connected
  changes         \* bounded by MaxChanges

files    == <<dir, job, origin>>
coreVs   == <<core, maps, rows, known, metAs>>
saVs     == <<sa, saMaps, activated>>
mapsVars == <<files, coreVs, label, saVs, changes>>

-----------------------------------------------------------------------------
(* Texts and maps.                                                         *)

Empty == [k \in {} |-> 0]

NoFile == [type |-> "none"]

\* The sections from 1 on without a gap, numbered from 0.
Run(f) ==
  LET n == CHOOSE n \in 0 .. Cardinality(DOMAIN f) :
             1 .. n \subseteq DOMAIN f /\ n + 1 \notin DOMAIN f
  IN [i \in 0 .. n - 1 |-> f[i + 1]]

Quantity(f) == Cardinality(DOMAIN f)

\* EndPointMap::load.  A Slot that is missing reads as 0.
Load(t) ==
  [type   |-> t.type,
   name   |-> t.name,
   number |-> t.number - 1,
   ends   |-> [k \in Kind |-> LET r == Run(t.entries[k]) IN
                [i \in DOMAIN r |-> [host |-> r[i].host, slot |-> r[i].slot - 1]]],
   names  |-> [k \in Kind |-> LET r == Run(t.entries[k]) IN
                [i \in DOMAIN r |-> [name |-> r[i].name, custom |-> r[i].named]]],
   snaps  |-> LET r == Run(t.snaps) IN
                [i \in DOMAIN r |-> [name |-> r[i].name, routes |-> Run(r[i].routes)]]]

\* SyProfile::unusedLines: what load has not asked for.
Unused(t) ==
  \/ \E k \in Kind : Quantity(Run(t.entries[k])) # Quantity(t.entries[k])
  \/ Quantity(Run(t.snaps)) # Quantity(t.snaps)
  \/ \E s \in DOMAIN t.snaps :
       Quantity(Run(t.snaps[s].routes)) # Quantity(t.snaps[s].routes)

Numbered(f) == [i \in {j + 1 : j \in DOMAIN f} |-> f[i - 1]]

\* EndPointMap::save: without incl_names a name is a comment.
Save(m, inclNames) ==
  [type    |-> m.type,
   name    |-> m.name,
   number  |-> m.number + 1,
   entries |-> [k \in Kind |-> Numbered(
                 [i \in DOMAIN m.ends[k] |->
                   [host  |-> m.ends[k][i].host,
                    slot  |-> m.ends[k][i].slot + 1,
                    named |-> inclNames,
                    name  |-> IF inclNames THEN m.names[k][i].name ELSE <<>>]])],
   snaps   |-> Numbered([s \in DOMAIN m.snaps |->
                 [m.snaps[s] EXCEPT !.routes = Numbered(@)]])]

\* A file that ends early.
Torn(t) == [t EXCEPT !.entries["Output"] = Empty, !.snaps = Empty]

\* Mutant: only the slot is compared.
EndPointOfSlot(m, k, h, slot) ==
  {i \in DOMAIN m.ends[k] : m.ends[k][i].slot = slot
                            /\ \A j \in 0 .. i - 1 : m.ends[k][j].slot # slot}

\* EndPointMap::endPoint, the first that matches, as a set of at most one number.
EndPoint(m, k, h, slot) ==
  LET at == [host |-> h, slot |-> slot] IN
  {i \in DOMAIN m.ends[k] : m.ends[k][i] = at /\ \A j \in 0 .. i - 1 : m.ends[k][j] # at}

-----------------------------------------------------------------------------
(* EndPointMap::loadSet.                                                   *)

\* The limits are those of numbers from 0.
RoutesValid(m) ==
  \A s \in DOMAIN m.snaps : \A r \in DOMAIN m.snaps[s].routes :
    /\ m.snaps[s].routes[r].output < Quantity(m.ends["Output"])
    /\ m.snaps[s].routes[r].input < Quantity(m.ends["Input"])

NamesDiffer(m) ==
  \A s, z \in DOMAIN m.snaps : s # z => m.snaps[s].name # m.snaps[z].name

Fits(m, o) == m.number # o.number /\ m.name # o.name

\* Only the names that end in .map are read; a file that cannot be is passed over.
Readable(d) == {f \in File : d[<<f, "map">>] # NoFile}

\* It stops at the first file that is wrong or has what an earlier one has.
ValidSet(d) ==
  /\ \A f \in Readable(d) :
       /\ ~Unused(d[<<f, "map">>])
       /\ NamesDiffer(Load(d[<<f, "map">>]))
       /\ RoutesValid(Load(d[<<f, "map">>]))
  /\ \A f, g \in Readable(d) :
       f # g => Fits(Load(d[<<f, "map">>]), Load(d[<<g, "map">>]))

\* The maps of a valid set by their router numbers.
LoadSet(d) ==
  LET loaded == {Load(d[<<f, "map">>]) : f \in Readable(d)} IN
  [n \in {m.number : m \in loaded} |-> CHOOSE m \in loaded : m.number = n]

-----------------------------------------------------------------------------
Idle == [stage |-> "idle"]

MapsInit ==
  /\ dir = [n \in File \X {"map", "temp"} |-> NoFile]
  /\ job = Idle
  /\ core = "dead" /\ maps = Empty
  /\ rows = {} /\ known = {}
  /\ label = [h \in Host |-> 1]
  /\ sa = "none" /\ saMaps = Empty
  /\ activated = <<>>
  /\ origin = [f \in File |-> NoFile]
  /\ metAs = [h \in Host |-> 1]
  /\ changes = 0

Changed ==
  /\ changes < MaxChanges
  /\ changes' = changes + 1

\* Someone writes a map file.
Edit(f, t) ==
  /\ Changed
  /\ dir' = [dir EXCEPT ![<<f, "map">>] = t]
  /\ origin' = [origin EXCEPT ![f] = NoFile]
  /\ UNCHANGED <<job, coreVs, label, saVs>>

-----------------------------------------------------------------------------
(* dmap.                                                                   *)

Generate(a) ==
  /\ Changed
  /\ job = Idle /\ core = "up"
  /\ job' = [stage |-> "connecting", args |-> a]
  /\ UNCHANGED <<dir, origin, coreVs, label, saVs>>

\* The nodes to use (as often as they are listed), or all, without those to skip.
Places(a) ==
  {x \in IF a.use = <<>> THEN {[host |-> h, place |-> 0] : h \in known}
                         ELSE {[host |-> a.use[i], place |-> i] : i \in DOMAIN a.use} :
     x.host \notin a.skip}

\* Their slots, by address.
SlotsOf(a) ==
  UNION {{[host |-> x.host, place |-> x.place, slot |-> s] : s \in 0 .. Slots[x.host] - 1} :
         x \in Places(a)}

Before(x, y) ==
  \/ x.host < y.host
  \/ x.host = y.host /\ x.place < y.place
  \/ x.host = y.host /\ x.place = y.place /\ x.slot < y.slot

InOrder(S) ==
  [i \in 0 .. Cardinality(S) - 1 |->
    CHOOSE x \in S : Cardinality({y \in S : Before(y, x)}) = i]

EndPoints(S) ==
  LET all == InOrder(S) IN
  [i \in DOMAIN all |-> [host |-> all[i].host, slot |-> all[i].slot]]

\* A source or destination has its node's name for it, a GPI or GPO one from its number.
MadeName(type, e) ==
  IF type = "GPIO" THEN <<"OUT", e.slot + 1>> ELSE <<label[e.host], e.host, e.slot>>

Made(a) ==
  LET ends == EndPoints(SlotsOf(a)) IN
  [type   |-> a.type, name |-> a.name, number |-> a.number - 1,
   ends   |-> [k \in Kind |-> ends],
   names  |-> [k \in Kind |-> [i \in DOMAIN ends |->
                [name |-> MadeName(a.type, ends[i]), custom |-> TRUE]]],
   snaps  |-> Empty]

\* connectedData; DParser has no node of an address that is not known, and gives a
\* null pointer that is used.
Connected ==
  /\ job.stage = "connecting" /\ core = "up"
  /\ job' = IF \E x \in Places(job.args) : x.host \notin known
            THEN Idle
            ELSE [stage |-> "made", args |-> job.args, map |-> Made(job.args)]
  /\ UNCHANGED <<dir, origin, coreVs, label, saVs, changes>>

\* Mutant: the file is written in place.
InPlace(f) == <<f, "map">>

TempName(f) == <<f, "temp">>

\* The temporary file is opened and holds the beginning of the text.
SaveOpen ==
  /\ job.stage = "made"
  /\ job' = [job EXCEPT !.stage = "open"]
  /\ dir' = [dir EXCEPT ![TempName(job.args.file)] = Torn(Save(job.map, job.args.names))]
  /\ UNCHANGED <<origin, coreVs, label, saVs, changes>>

\* The rest is written; nobody looks whether the disk had room for it.
SaveWrite(room) ==
  /\ job.stage = "open"
  /\ job' = [stage |-> "written", args |-> job.args, map |-> job.map, torn |-> ~room]
  /\ dir' = [dir EXCEPT ![TempName(job.args.file)] =
              LET t == Save(job.map, job.args.names) IN IF room THEN t ELSE Torn(t)]
  /\ UNCHANGED <<origin, coreVs, label, saVs, changes>>

SaveRename ==
  LET f == job.args.file IN
  /\ job.stage = "written"
  /\ job' = Idle
  /\ dir' = [dir EXCEPT ![<<f, "map">>] = dir[TempName(f)], ![<<f, "temp">>] = NoFile]
  /\ origin' = [origin EXCEPT ![f] =
                 IF job.torn THEN NoFile
                 ELSE [type |-> "made", map |-> job.map, args |-> job.args]]
  /\ UNCHANGED <<coreVs, label, saVs, changes>>

\* dmap is interrupted.
Interrupted ==
  /\ Changed
  /\ job # Idle
  /\ job' = Idle
  /\ UNCHANGED <<dir, origin, coreVs, label, saVs>>

-----------------------------------------------------------------------------
(* The core.                                                               *)

\* LoadMaps: the core ends at once when the set is not valid.
Start ==
  /\ core = "dead"
  /\ ValidSet(dir)
  /\ core' = "up"
  /\ maps' = LoadSet(dir)
  /\ UNCHANGED <<rows, known, metAs, files, label, saVs, changes>>

\* What the core calls an endpoint: sources, destinations and GPOs have the names that
\* their node gives them, GPIs have numbers.
NodeName(type, k, e) ==
  IF type = "GPIO" /\ k = "Input" THEN <<"GPI", e.slot + 1>>
                                  ELSE <<label[e.host], e.host, e.slot>>

\* What a map calls an endpoint of the node from now on.
Renamed(m, h) ==
  [m EXCEPT !.names = [k \in Kind |-> [i \in DOMAIN @[k] |->
    IF ~@[k][i].custom
       /\ \E s \in 0 .. Slots[h] - 1 : i \in EndPoint(m, k, h, s)
    THEN [@[k][i] EXCEPT !.name = NodeName(m.type, k, m.ends[k][i])]
    ELSE @[k][i]]]]

RowsOf(m, h) ==
  UNION {{[router |-> m.number, kind |-> x[1], number |-> i, host |-> h, slot |-> x[2],
           name |-> m.names[x[1]][i].name] : i \in EndPoint(m, x[1], h, x[2])} :
         x \in Kind \X (0 .. Slots[h] - 1)}

\* nodeConnectedData: a name that is not the map's own is the node's.
NodeConnected(h) ==
  LET named == [n \in DOMAIN maps |-> Renamed(maps[n], h)] IN
  /\ core = "up" /\ h \notin known
  /\ known' = known \cup {h}
  /\ maps' = named
  /\ rows' = rows \cup UNION {RowsOf(named[n], h) : n \in DOMAIN maps}
  /\ metAs' = [metAs EXCEPT ![h] = label[h]]
  /\ UNCHANGED <<core, files, label, saVs, changes>>

\* Mutant: the rows of destinations are not deleted.
KeptRows(h) == {r \in rows : r.host # h \/ r.kind = "Output"}

RemainingRows(h) == {r \in rows : r.host # h}

NodeDisconnected(h) ==
  /\ h \in known
  /\ known' = known \ {h}
  /\ rows' = RemainingRows(h)
  /\ UNCHANGED <<core, maps, metAs, files, label, saVs, changes>>

\* A node's endpoints get other names.  sourceChangedData and its like change only those
\* of the tables SOURCES, DESTINATIONS and GPOS, which the core's clients see.
SourceChanged(h) ==
  /\ Changed
  /\ label' = [label EXCEPT ![h] = 3 - @]
  /\ UNCHANGED <<files, coreVs, saVs>>

\* The core ends, and the Software Authority process with it.
Ends ==
  /\ Changed
  /\ core = "up"
  /\ core' = "dead" /\ maps' = Empty /\ rows' = {} /\ known' = {}
  /\ sa' = "none" /\ saMaps' = Empty /\ activated' = <<>>
  /\ job' = IF job.stage = "connecting" THEN Idle ELSE job
  /\ UNCHANGED <<dir, origin, label, metAs>>

-----------------------------------------------------------------------------
(* The Software Authority process.                                         *)

\* It is started some time after the core and ends, for good, when the maps are no
\* longer a valid set.
LoadMaps ==
  /\ core = "up" /\ sa = "none"
  /\ IF ValidSet(dir) THEN sa' = "up" /\ saMaps' = LoadSet(dir)
                      ELSE sa' = "ended" /\ UNCHANGED saMaps
  /\ UNCHANGED <<activated, files, coreVs, label, changes>>

Null == [host |-> 0, slot |-> -1]

\* hostAddress and slot together.
At(m, k, i) == IF i \in DOMAIN m.ends[k] THEN m.ends[k][i] ELSE Null

\* Mutant: the number is not converted.
CommandUnconverted(m, r) ==
  [dst |-> At(m, "Output", r.output),
   src |-> IF r.input = 0 THEN Null ELSE At(m, "Input", r.input - 1)]

\* What ActivateRoute is called with: the output from 0, the input from 1.
Command(m, r) ==
  [dst |-> At(m, "Output", r.output - 1),
   src |-> IF r.input = 0 THEN Null ELSE At(m, "Input", r.input - 1)]

\* An endpoint that is not there, or has no slot, gets no command.
Commands(m, s) ==
  {Command(m, r) : r \in {q \in Range(m.snaps[s].routes) :
     /\ Command(m, q).dst.slot >= 0
     /\ q.input # 0 => Command(m, q).src.slot >= 0}}

\* An output below 1 indexes the list of addresses below its start: the process may
\* end, or read something else, taken here as no endpoint.
ActivateSnapshot(n, s) ==
  /\ sa = "up" /\ n \in DOMAIN saMaps /\ s \in DOMAIN saMaps[n].snaps
  /\ \/ /\ activated' = <<n, s, Commands(saMaps[n], s)>>
        /\ UNCHANGED <<sa, saMaps>>
     \/ /\ \E r \in Range(saMaps[n].snaps[s].routes) : r.output < 1
        /\ sa' = "ended" /\ saMaps' = Empty /\ activated' = <<>>
  /\ UNCHANGED <<files, coreVs, label, changes>>

MapsNext ==
  \/ \E f \in File, t \in Hand : Edit(f, t)
  \/ \E a \in Args : Generate(a)
  \/ Connected
  \/ SaveOpen
  \/ \E room \in BOOLEAN : SaveWrite(room)
  \/ SaveRename
  \/ Interrupted
  \/ Start
  \/ \E h \in Host : NodeConnected(h)
  \/ \E h \in Host : NodeDisconnected(h)
  \/ \E h \in Host : SourceChanged(h)
  \/ Ends
  \/ LoadMaps
  \/ \E n \in DOMAIN saMaps : \E s \in DOMAIN saMaps[n].snaps : ActivateSnapshot(n, s)

MapsSpec == MapsInit /\ [][MapsNext]_mapsVars

-----------------------------------------------------------------------------
(* Properties.                                                             *)

\* Whatever was interrupted and whoever reads it, a file that dmap has finished (and
\* the disk had room for) reads as a valid map with the endpoints dmap found, each at
\* its number, of no node that was to be skipped, with their names if asked for.
ReadsBack ==
  \A f \in File :
    LET o == origin[f]
        t == dir[<<f, "map">>]
        m == Load(t)
    IN o.type = "made" =>
         /\ ~Unused(t)
         /\ m.type = o.map.type /\ m.name = o.map.name /\ m.number = o.map.number
         /\ m.ends = o.map.ends
         /\ \A k \in Kind : \A i \in DOMAIN m.names[k] :
              IF o.args.names THEN m.names[k][i] = o.map.names[k][i]
                              ELSE ~m.names[k][i].custom
         /\ \A k \in Kind : \A i \in DOMAIN m.ends[k] : m.ends[k][i].host \notin o.args.skip

\* The core's tables have, for every map, one row of each endpoint of a connected node
\* at the first number the map gives it, and no other row.  Its name is the map's own,
\* if it has one, or else what the node called it when it connected last, not what it
\* was called earlier or has been called since; GPIs are called by their numbers.
RowsMatch ==
  /\ \A r \in rows :
       /\ r.host \in known
       /\ r.router \in DOMAIN maps
       /\ maps[r.router].ends[r.kind][r.number] = [host |-> r.host, slot |-> r.slot]
       /\ LET own == maps[r.router].names[r.kind][r.number] IN
          r.name = IF own.custom THEN own.name
                   ELSE IF maps[r.router].type = "GPIO" /\ r.kind = "Input"
                     THEN <<"GPI", r.slot + 1>>
                   ELSE <<metAs[r.host], r.host, r.slot>>
  /\ \A n \in DOMAIN maps, k \in Kind, h \in known :
       \A s \in 0 .. Slots[h] - 1 :
         LET listed == {i \in DOMAIN maps[n].ends[k] :
                          maps[n].ends[k][i] = [host |-> h, slot |-> s]}
         IN {r.number : r \in {q \in rows : q.router = n /\ q.kind = k
                                            /\ q.host = h /\ q.slot = s}}
            = {i \in listed : \A j \in listed : i <= j}

\* A snapshot that is activated has only routes of numbers in its map, and sends a
\* command for each whose output is not below 1 and whose endpoints have a slot: to the
\* output with that number in the map file, for the input with that number, or none
\* for 0.
SnapshotsLand ==
  activated # <<>> =>
    LET m == saMaps[activated[1]]
        Listed(k, number) == At(m, k, number - 1)
    IN /\ \A r \in Range(m.snaps[activated[2]].routes) :
            r.output >= 1 =>
              /\ r.output - 1 \in DOMAIN m.ends["Output"]
              /\ r.input = 0 \/ r.input - 1 \in DOMAIN m.ends["Input"]
              /\ /\ Listed("Output", r.output).slot >= 0
                 /\ r.input = 0 \/ Listed("Input", r.input).slot >= 0
                 => \E c \in activated[3] :
                      /\ c.dst = Listed("Output", r.output)
                      /\ c.src = IF r.input = 0 THEN Null ELSE Listed("Input", r.input)
       /\ \A c \in activated[3] : \E r \in Range(m.snaps[activated[2]].routes) :
            r.output >= 1 /\ c.dst = Listed("Output", r.output)

=============================================================================
