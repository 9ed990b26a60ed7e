--------------------------- MODULE SaSessionProofs ---------------------------
(***************************************************************************)
(* What a panel of the Software Authority protocol reads goes to the right *)
(* list (RightList), it does not report that it is connected before it has *)
(* every list (FirstStart), and once it is quiet it shows the crosspoints  *)
(* there are (Converged): for any numbers of routers, inputs, outputs,     *)
(* destinations, changes and lost connections.                             *)
(***************************************************************************)
EXTENDS SaSession, SequenceTheorems, FiniteSetTheorems, FunctionTheorems,
        WellFoundedInduction, TLAPS

\* No source of a router has the null stream, and no two have the same.
PlainSources ==
  /\ \A v \in Sources : v[3] # NullStream
  /\ \A v, w \in Sources : v[1] = w[1] /\ v[3] = w[3] => v = w

-----------------------------------------------------------------------------
(* The invariant.                                                          *)

StatLines == [line : {"RouteStat"}, router : Router, output : Output, input : Nat]

TypeInv ==
  /\ route \in [Dest -> Signal]
  /\ changes \in Nat /\ drops \in Nat
  /\ pending \in Seq(Dest) /\ ipc \in Seq(Dest)
  /\ cmds \in Seq(Command) /\ tcp \in Seq(Line)
  /\ conn \in BOOLEAN /\ torn \in BOOLEAN /\ starting \in BOOLEAN /\ connected \in BOOLEAN
  /\ reading \subseteq Range(List)
  /\ current \in Router \cup {0} /\ last \in Router \cup {0}
  /\ routers \subseteq Router /\ inputs \subseteq Router \cup {0}
  /\ outputs \in [Router -> SUBSET Output]
  /\ shots \in [Router -> SUBSET {"own", "other"}]
  /\ xpoint \in [Router -> [Output -> SUBSET Nat]]

\* The rounds of questions of a session, one after the other.
Round == <<"Login", "RouterNames", "SourceNames", "DestNames", "SnapshotNames", "RouteStat">>

\* The lines of a round that are not reports have numbers in the order of the routers,
\* three for each.
Number(l) == CASE l.line = "Login" -> 0
               [] l.line = "Begin" -> 3 * l.router
               [] l.line = "Names" -> 3 * l.router + 1
               [] l.line = "End"   -> 3 * l.router + 2

Listed(l) == l.line # "RouteStat"

Numbers(lines) == {Number(lines[k]) : k \in {j \in DOMAIN lines : Listed(lines[j])}}

\* Those of the answer to a question.
Answers(c) ==
  CASE c.cmd = "Login"       -> {0}
    [] c.cmd = "RouterNames" -> 0 .. 2
    [] c.cmd = "RouteStat"   -> {}
    [] OTHER                 -> 3 * c.router .. 3 * c.router + 2

Asked(questions) == UNION {Answers(questions[k]) : k \in DOMAIN questions}

OfRouter(r) == 3 * r .. 3 * r + 2

\* All the lines of round n.
All(n) == CASE n = 1 -> {0}
            [] n = 2 -> OfRouter(0)
            [] n = 6 -> {}
            [] OTHER -> UNION {OfRouter(r) : r \in Router}

Whose(c) == IF c.cmd \in {"Login", "RouterNames"} THEN 0 ELSE c.router

Belongs(l, n) == Listed(l) => IF n = 1 THEN l.line = "Login"
                                       ELSE l.line # "Login" /\ l.list = Round[n]

\* The lines that are listed come in the order of their numbers.
InTurn(lines) ==
  \A i, j \in DOMAIN lines :
    i < j /\ Listed(lines[i]) /\ Listed(lines[j]) => Number(lines[i]) < Number(lines[j])

\* Questions and lines under way are of round n, in the order of their numbers, and
\* they are all there are from number m on.
UnderWay(questions, lines, n, m) ==
  /\ \A k \in DOMAIN questions : questions[k].cmd = Round[n]
  /\ \A i, j \in DOMAIN questions : i < j => Whose(questions[i]) < Whose(questions[j])
  /\ \A k \in DOMAIN lines : Belongs(lines[k], n)
  /\ InTurn(lines)
  /\ \A i \in Numbers(lines), j \in Asked(questions) : i < j
  /\ Numbers(lines) \cup Asked(questions) = {i \in All(n) : i >= m}

\* Router r's part of the list of round k has been read.
Read(k, r, n, m) == n > k \/ (n = k /\ 3 * r + 1 < m)

OutputsOf(r) == {w[2] : w \in {v \in Destinations : v[1] = r}}

\* What the panel has read by then.
Progress(n, m) ==
  /\ torn => n = 1 /\ m = 0
  /\ \A k \in 1 .. 4 : k + 1 < n => List[k] \notin reading
  /\ \A r \in Router \cup {0} :
       n \in 2 .. 5 /\ m = 3 * r + 1 => List[n - 1] \in reading /\ (n # 2 => current = r)
  /\ Read(2, 0, n, m) => routers = Router
  /\ \A r \in Router :
       /\ Read(3, r, n, m) => r \in inputs
       /\ Read(4, r, n, m) => outputs[r] = OutputsOf(r)
       /\ Read(5, r, n, m) => "own" \in shots[r]
  /\ n > 2 /\ Router # {} => last \in Router /\ \A r \in Router : r <= last

\* No router is known, or no outputs.
Bare == routers = {} \/ \A r \in Router : outputs[r] = {}

\* A round that the end of a list concludes is over only when that has been read.
Unfinished(n, m) == n \in 2 .. 5 /\ Router # {} => \E i \in All(n) : i >= m

Session(n, m) ==
  /\ UnderWay(cmds, tcp, n, m)
  /\ Progress(n, m)
  /\ n = 1 => Bare
  /\ Unfinished(n, m)
  /\ drops = 0 /\ (awaited # None \/ starting \/ connected) => n = 6

Closed ==
  /\ ipc = <<>> /\ cmds = <<>> /\ tcp = <<>>
  /\ routers = {} /\ inputs = {} /\ outputs = [r \in Router |-> {}]
  /\ drops = 0 => awaited = None /\ ~starting /\ ~connected

First == drops = 0 => ~torn /\ inputs \subseteq Router

Bare0 == torn => routers = {} /\ \A r \in Router : outputs[r] = {}

IInv ==
  /\ TypeInv
  /\ First
  /\ Bare0
  /\ ~conn => Closed
  /\ conn => \E n \in 1 .. 6, m \in Nat : Session(n, m)

-----------------------------------------------------------------------------
(* The crosspoints.                                                        *)

\* Output o of router r will be right when everything has arrived.
Reported(r, o) == \E d \in Dest : <<r, o, d>> \in Destinations
                                  /\ d \in ToSet(pending) \cup ToSet(ipc)

StatOf(l, r, o) == l.line = "RouteStat" /\ l.router = r /\ l.output = o

LastStat(k, r, o) ==
  /\ StatOf(tcp[k], r, o)
  /\ \A j \in DOMAIN tcp : j > k => ~StatOf(tcp[j], r, o)

Shown(r, o) ==
  \/ \E k \in DOMAIN tcp : LastStat(k, r, o) /\ Right(r, o, tcp[k].input)
  \/ /\ \A k \in DOMAIN tcp : ~StatOf(tcp[k], r, o)
     /\ \E i \in xpoint[r][o] : Right(r, o, i)

Questioned(r) == \E k \in DOMAIN cmds : cmds[k] = [cmd |-> "RouteStat", router |-> r]

Crosspoints ==
  \A r \in Router : \A o \in OutputsOf(r) : Reported(r, o) \/ Questioned(r) \/ Shown(r, o)

\* Once the panel has asked for the crosspoints, ...
Stats == conn => \E n \in 1 .. 6, m \in Nat : Session(n, m) /\ (n = 6 => Crosspoints)

-----------------------------------------------------------------------------
(* Numbers, and lists in their order.                                      *)

\* The least member of a set of numbers is one of them.
LEMMA LeastMember ==
  ASSUME NEW S, S \subseteq Nat, S # {}
  PROVE  \E t \in S : \A x \in S : t <= x
<1>1. PICK t \in S : \A y \in S : <<y, t>> \notin OpToRel(<, Nat)
  BY NatLessThanWellFounded, WFMin
<1>2. \A y \in S : ~(y < t)
  BY <1>1 DEF OpToRel
<1>3. \A y \in S : t <= y
  BY <1>2
<1> QED BY <1>3

\* Induction: what holds for 0 and with each number for the next holds for all.
LEMMA Induct ==
  ASSUME NEW T, 0 \in T, \A i \in Nat : i \in T => i + 1 \in T
  PROVE  \A i \in Nat : i \in T
<1> SUFFICES ASSUME NEW i \in Nat, i \notin T PROVE FALSE
  OBVIOUS
<1>1. PICK x \in Nat \ T : \A y \in Nat \ T : x <= y
  <2>1. Nat \ T # {} /\ Nat \ T \subseteq Nat
    OBVIOUS
  <2> QED BY <2>1, LeastMember
<1>2. x # 0 /\ x - 1 \in Nat
  BY <1>1
<1>3. x - 1 \in T
  BY <1>1, <1>2
<1> QED BY <1>1, <1>2, <1>3

\* The list of a finite set in order has all its members, no others, and each once.
LEMMA InOrderEnumerates ==
  ASSUME NEW S, S \subseteq Nat, IsFiniteSet(S)
  PROVE  /\ Cardinality(S) \in Nat /\ InOrder(S) \in [1 .. Cardinality(S) -> S]
         /\ \A i \in S : \E k \in 1 .. Cardinality(S) : InOrder(S)[k] = i
         /\ \A i, j \in 1 .. Cardinality(S) : i < j => InOrder(S)[i] < InOrder(S)[j]
<1> DEFINE below(i) == {j \in S : j < i}
           rank == [i \in S |-> Cardinality(below(i)) + 1]
           n == Cardinality(S)
<1>1. IsFiniteSet(S) /\ n \in Nat
  BY FS_CardinalityType
<1>2. ASSUME NEW i \in S
      PROVE  IsFiniteSet(below(i)) /\ Cardinality(below(i)) \in Nat /\ Cardinality(below(i)) < n
  <2>1. below(i) \in SUBSET S /\ below(i) # S
    OBVIOUS
  <2> HIDE DEF below
  <2>2. IsFiniteSet(below(i)) /\ Cardinality(below(i)) \in Nat
        /\ Cardinality(below(i)) <= n /\ Cardinality(below(i)) # n
    BY <1>1, <2>1, FS_Subset, FS_CardinalityType
  <2> QED BY <1>1, <2>2
<1>3. ASSUME NEW i \in S, NEW j \in S, i < j
      PROVE  rank[i] < rank[j]
  <2>a. \A x \in S : x < i => x < j
    BY <1>3
  <2>b. i \in below(j) /\ i \notin below(i)
    BY <1>3
  <2>1. below(i) \in SUBSET below(j) /\ below(i) # below(j)
    BY <2>a, <2>b
  <2> HIDE DEF below
  <2>2. /\ Cardinality(below(i)) <= Cardinality(below(j))
        /\ Cardinality(below(i)) # Cardinality(below(j))
    BY <1>2, <2>1, FS_Subset
  <2> QED BY <1>2, <2>2
<1>4. rank \in [S -> 1 .. n]
  <2> HIDE DEF below, n
  <2> QED BY <1>1, <1>2
<1>5. \A i, j \in S : rank[i] = rank[j] => i = j
  <2> SUFFICES ASSUME NEW i \in S, NEW j \in S, rank[i] = rank[j] PROVE i = j
    OBVIOUS
  <2>1. rank[i] \in 1 .. n /\ rank[j] \in 1 .. n
    BY <1>4
  <2> HIDE DEF rank
  <2>2. ~(i < j) /\ ~(j < i)
    BY <1>3, <2>1
  <2> QED BY <2>2
<1>6. \A k \in 1 .. n : \E i \in S : rank[i] = k
  <2> HIDE DEF rank, n
  <2>1. rank \in Injection(S, 1 .. n)
    BY <1>4, <1>5, Fun_IsInj
  <2>2. IsFiniteSet(1 .. n) /\ Cardinality(1 .. n) = n
    BY <1>1, FS_Interval
  <2>3. rank \in Surjection(S, 1 .. n)
    BY <2>1, <2>2, FS_Injection DEF n
  <2> QED BY <2>3 DEF Surjection
<1>7. ASSUME NEW k \in 1 .. n
      PROVE  InOrder(S)[k] \in S /\ rank[InOrder(S)[k]] = k
  <2>1. InOrder(S)[k] = CHOOSE i \in S : Cardinality(below(i)) = k - 1
    BY DEF InOrder
  <2>2. \E i \in S : Cardinality(below(i)) = k - 1
    <3>1. PICK i \in S : rank[i] = k
      BY <1>6
    <3>2. Cardinality(below(i)) = k - 1
      <4> HIDE DEF below
      <4> QED BY <1>2, <3>1
    <3> QED BY <3>2
  <2> HIDE DEF below
  <2>3. InOrder(S)[k] \in S /\ Cardinality(below(InOrder(S)[k])) = k - 1
    BY <2>1, <2>2
  <2> QED BY <2>3
<1>8. ASSUME NEW i \in S PROVE \E k \in 1 .. n : InOrder(S)[k] = i
  <2>1. rank[i] \in 1 .. n
    BY <1>4
  <2> HIDE DEF rank
  <2>2. InOrder(S)[rank[i]] = i
    BY <1>5, <1>7, <2>1
  <2> QED BY <2>1, <2>2
<1>9. InOrder(S) \in [1 .. n -> S]
  <2> DEFINE pick(k) == CHOOSE i \in S : Cardinality(below(i)) = k - 1
  <2>1. InOrder(S) = [k \in 1 .. n |-> pick(k)]
    BY DEF InOrder
  <2> HIDE DEF n, pick
  <2>2. \A k \in 1 .. n : pick(k) \in S
    BY <1>7, <2>1
  <2> QED BY <2>1, <2>2
<1>10. ASSUME NEW i \in 1 .. n, NEW j \in 1 .. n, i < j
       PROVE  InOrder(S)[i] < InOrder(S)[j]
  <2> HIDE DEF rank, n
  <2>1. PICK a \in S, b \in S : a = InOrder(S)[i] /\ b = InOrder(S)[j]
    BY <1>7
  <2>2. rank[a] = i /\ rank[b] = j
    BY <1>7, <2>1
  <2>3. ~(b < a) /\ a # b
    BY <1>1, <1>3, <1>10, <2>2
  <2> QED BY <2>1, <2>3
<1> QED BY <1>1, <1>8, <1>9, <1>10

\* Each step of a concatenation joins one more sequence.
Joining(ss, n, f) ==
  /\ f = [i \in 1 .. n |-> f[i]]
  /\ \A i \in 1 .. n : f[i] = IF i = 1 THEN ss[i] ELSE f[i - 1] \o ss[i]

LEMMA JoiningExists ==
  ASSUME NEW ss, NEW n \in Nat
  PROVE  \E f : Joining(ss, n, f)
<1> DEFINE T == {k \in Nat : \E f : Joining(ss, k, f)}
<1>1. 0 \in T
  <2>1. PICK f : f = [i \in 1 .. 0 |-> 0]
    OBVIOUS
  <2>2. f = [i \in 1 .. 0 |-> f[i]] /\ \A i \in 1 .. 0 : FALSE
    BY <2>1
  <2>3. Joining(ss, 0, f)
    BY <2>2 DEF Joining
  <2> QED BY <2>3
<1>2. ASSUME NEW k \in Nat, k \in T PROVE k + 1 \in T
  <2>1. PICK f : Joining(ss, k, f)
    BY <1>2
  <2>2. PICK g : g = [i \in 1 .. k + 1 |->
                       IF i = k + 1 THEN IF i = 1 THEN ss[i] ELSE f[k] \o ss[i] ELSE f[i]]
    OBVIOUS
  <2>3. \A i \in 1 .. k : g[i] = f[i] /\ f[i] = IF i = 1 THEN ss[i] ELSE f[i - 1] \o ss[i]
    <3>1. \A i \in 1 .. k : g[i] = f[i]
      BY <2>2
    <3>2. \A i \in 1 .. k : f[i] = IF i = 1 THEN ss[i] ELSE f[i - 1] \o ss[i]
      BY <2>1, Zenon DEF Joining
    <3> QED BY <3>1, <3>2
  <2>4. \A i \in 1 .. k + 1 : g[i] = IF i = 1 THEN ss[i] ELSE g[i - 1] \o ss[i]
    <3> SUFFICES ASSUME NEW i \in 1 .. k + 1
                 PROVE  g[i] = IF i = 1 THEN ss[i] ELSE g[i - 1] \o ss[i]
      OBVIOUS
    <3>1. CASE i = 1
      <4>1. CASE k = 0
        BY <2>2, <3>1, <4>1
      <4>2. CASE k # 0
        BY <2>3, <3>1, <4>2
      <4> QED BY <4>1, <4>2
    <3>2. CASE i # 1 /\ i = k + 1
      <4>1. i - 1 = k /\ k \in 1 .. k
        BY <3>2
      <4> QED BY <2>2, <2>3, <3>2, <4>1
    <3>3. CASE i # 1 /\ i # k + 1
      <4>1. i - 1 \in 1 .. k /\ i \in 1 .. k
        BY <3>3
      <4> QED BY <2>3, <3>3, <4>1
    <3> QED BY <3>1, <3>2, <3>3
  <2>5. g = [i \in 1 .. k + 1 |-> g[i]]
    BY <2>2
  <2>6. Joining(ss, k + 1, g)
    BY <2>4, <2>5 DEF Joining
  <2> QED BY <2>6
<1> HIDE DEF T
<1>3. n \in T
  BY <1>1, <1>2, Induct
<1> QED BY <1>3 DEF T

\* Two sequences, one behind the other.
LEMMA Joined2 ==
  ASSUME NEW S, NEW s \in Seq(S), NEW t \in Seq(S)
  PROVE  /\ s \o t \in Seq(S) /\ Len(s \o t) = Len(s) + Len(t)
         /\ \A i \in 1 .. Len(s) : (s \o t)[i] = s[i]
         /\ \A i \in 1 .. Len(t) : (s \o t)[Len(s) + i] = t[i]
OBVIOUS

\* What FlattenSeq returns: the sequences of ss, the i-th behind off[i - 1] elements.
Flat(ss, n, off, f) ==
  /\ off \in [0 .. n -> Nat]
  /\ off[0] = 0 /\ \A i \in 1 .. n : off[i] = off[i - 1] + Len(ss[i])
  /\ Len(f) = off[n]
  /\ \A i \in 1 .. n : \A k \in 1 .. Len(ss[i]) :
       off[i - 1] + k \in 1 .. off[n] /\ f[off[i - 1] + k] = ss[i][k]
  /\ \A p \in 1 .. off[n] : \E i \in 1 .. n : \E k \in 1 .. Len(ss[i]) : p = off[i - 1] + k

\* Each join begins with those before.
Grows(S, ss, n, f) ==
  /\ \A i \in 1 .. n : f[i] \in Seq(S)
  /\ \A i \in 1 .. n : Len(f[i]) = Len(ss[i]) + IF i = 1 THEN 0 ELSE Len(f[i - 1])
  /\ \A i \in 1 .. n : \A k \in 1 .. Len(ss[i]) :
       f[i][(IF i = 1 THEN 0 ELSE Len(f[i - 1])) + k] = ss[i][k]
  /\ \A i \in 1 .. n : \A j \in 1 .. i :
       Len(f[j]) <= Len(f[i]) /\ \A p \in 1 .. Len(f[j]) : f[i][p] = f[j][p]

LEMMA JoinsGrow ==
  ASSUME NEW S, NEW n \in Nat, NEW ss, \A i \in 1 .. n : ss[i] \in Seq(S),
         NEW f, Joining(ss, n, f)
  PROVE  Grows(S, ss, n, f)
<1> DEFINE P(i) ==
      i \in 1 .. n =>
        /\ f[i] \in Seq(S)
        /\ Len(f[i]) = Len(ss[i]) + IF i = 1 THEN 0 ELSE Len(f[i - 1])
        /\ \A k \in 1 .. Len(ss[i]) :
             f[i][(IF i = 1 THEN 0 ELSE Len(f[i - 1])) + k] = ss[i][k]
        /\ \A j \in 1 .. i :
             /\ Len(f[j]) \in Nat /\ Len(f[j]) <= Len(f[i])
             /\ \A p \in 1 .. Len(f[j]) : f[i][p] = f[j][p]
<1>1. P(0)
  OBVIOUS
<1> HIDE DEF P
<1>2. ASSUME NEW i \in Nat, P(i) PROVE P(i + 1)
  <2> SUFFICES ASSUME i + 1 \in 1 .. n PROVE P(i + 1)
    BY DEF P
  <2>1. ss[i + 1] \in Seq(S)
    OBVIOUS
  <2>2. CASE i = 0
    <3>0. 1 \in 1 .. n
      BY <2>2
    <3>1. f[1] = ss[1]
      BY <3>0, Zenon DEF Joining
    <3>2. f[1] \in Seq(S) /\ Len(f[1]) = Len(ss[1]) /\ Len(f[1]) \in Nat
      BY <2>1, <2>2, <3>1
    <3>3. i + 1 = 1 /\ \A j \in 1 .. 1 : j = 1
      BY <2>2
    <3>4. P(1)
      BY <3>1, <3>2, <3>3 DEF P
    <3> QED BY <3>3, <3>4
  <2>3. CASE i # 0
    <3>1. i \in 1 .. n /\ i + 1 # 1 /\ (i + 1) - 1 = i
      BY <2>3
    <3>2. f[i + 1] = f[i] \o ss[i + 1]
      BY <3>1, Zenon DEF Joining
    <3>3. P(i) /\ f[i] \in Seq(S)
      BY <1>2, <3>1 DEF P
    <3>4. PICK s \in Seq(S), t \in Seq(S), u \in Seq(S) :
            s = f[i] /\ t = ss[i + 1] /\ u = f[i + 1] /\ u = s \o t
      BY <2>1, <3>2, <3>3, Joined2
    <3>5. /\ Len(u) = Len(s) + Len(t)
          /\ \A p \in 1 .. Len(s) : u[p] = s[p]
          /\ \A p \in 1 .. Len(t) : u[Len(s) + p] = t[p]
      <4>1. /\ Len(s \o t) = Len(s) + Len(t)
            /\ \A p \in 1 .. Len(s) : (s \o t)[p] = s[p]
            /\ \A p \in 1 .. Len(t) : (s \o t)[Len(s) + p] = t[p]
        BY Joined2
      <4> QED BY <3>4, <4>1, Zenon
    <3>6. Len(s) \in Nat /\ Len(t) \in Nat /\ Len(u) \in Nat
      OBVIOUS
    <3>7. ASSUME NEW j \in 1 .. i + 1
          PROVE  /\ Len(f[j]) \in Nat /\ Len(f[j]) <= Len(u)
                 /\ \A p \in 1 .. Len(f[j]) : u[p] = f[j][p]
      <4>1. CASE j = i + 1
        <5>1. Len(u) <= Len(u)
          BY <3>6
        <5> QED BY <3>4, <3>6, <4>1, <5>1, Zenon
      <4>2. CASE j # i + 1
        <5>1. j \in 1 .. i
          BY <4>2
        <5>2. /\ Len(f[j]) \in Nat /\ Len(f[j]) <= Len(s)
              /\ \A p \in 1 .. Len(f[j]) : s[p] = f[j][p]
          BY <3>1, <3>3, <3>4, <5>1, Zenon DEF P
        <5>3. PICK g : g = f[j]
          OBVIOUS
        <5>4. Len(g) \in Nat /\ Len(g) <= Len(u) /\ \A p \in 1 .. Len(g) : u[p] = g[p]
          BY <3>5, <3>6, <5>2, <5>3
        <5> QED BY <5>3, <5>4
      <4> QED BY <4>1, <4>2
    <3>8. Len(f[i + 1]) = Len(ss[i + 1]) + Len(f[i])
          /\ \A k \in 1 .. Len(ss[i + 1]) : f[i + 1][Len(f[i]) + k] = ss[i + 1][k]
      <4>1. Len(u) = Len(t) + Len(s)
        BY <3>5, <3>6
      <4> QED BY <3>4, <3>5, <4>1, Zenon
    <3>9. f[i + 1] \in Seq(S)
      BY <3>4
    <3> QED BY <3>1, <3>4, <3>7, <3>8, <3>9, Zenon DEF P
  <2> QED BY <2>2, <2>3
<1>3. \A i \in Nat : P(i)
  <2> DEFINE T == {i \in Nat : P(i)}
  <2>1. 0 \in T /\ \A i \in Nat : i \in T => i + 1 \in T
    BY <1>1, <1>2
  <2> HIDE DEF T
  <2>2. \A i \in Nat : i \in T
    BY <2>1, Induct
  <2> QED BY <2>2 DEF T
<1>4. \A i \in 1 .. n : P(i)
  BY <1>3
<1> QED BY <1>4, Zenon DEF P, Grows

LEMMA Flattened ==
  ASSUME NEW S, NEW n \in Nat, NEW ss, DOMAIN ss = 1 .. n, ss \in Seq(Seq(S))
  PROVE  FlattenSeq(ss) \in Seq(S) /\ \E off : Flat(ss, n, off, FlattenSeq(ss))
<1>1. Len(ss) = n /\ \A i \in 1 .. n : ss[i] \in Seq(S) /\ Len(ss[i]) \in Nat
  OBVIOUS
<1>2. CASE n = 0
  <2>1. FlattenSeq(ss) = <<>>
    BY <1>1, <1>2 DEF FlattenSeq
  <2>2. PICK off : off = [i \in 0 .. 0 |-> 0]
    OBVIOUS
  <2>3. Flat(ss, 0, off, <<>>)
    BY <2>2 DEF Flat
  <2> QED BY <1>2, <2>1, <2>3
<1>3. CASE n # 0
  <2> DEFINE R(f) == f = [i \in 1 .. n |-> IF i = 1 THEN ss[i] ELSE f[i - 1] \o ss[i]]
             c == CHOOSE f : R(f)
  <2>1. \E f : R(f)
    <3>1. PICK f : Joining(ss, n, f)
      BY JoiningExists
    <3>2. R(f)
      BY <3>1, Zenon DEF Joining
    <3> QED BY <3>2
  <2>2. R(c)
    BY <2>1, Zenon
  <2>3. FlattenSeq(ss) = c[n]
    BY <1>1, <1>3, Zenon DEF FlattenSeq
  <2> HIDE DEF c
  <2>4. Joining(ss, n, c)
    <3>1. \A i \in 1 .. n : c[i] = IF i = 1 THEN ss[i] ELSE c[i - 1] \o ss[i]
      BY <2>2, Zenon
    <3>2. c = [i \in 1 .. n |-> c[i]]
      BY <2>2, <3>1, Zenon
    <3> QED BY <3>1, <3>2 DEF Joining
  <2> HIDE DEF R
  <2>5. /\ \A i \in 1 .. n : c[i] \in Seq(S)
        /\ \A i \in 1 .. n : Len(c[i]) = Len(ss[i]) + IF i = 1 THEN 0 ELSE Len(c[i - 1])
        /\ \A i \in 1 .. n : \A k \in 1 .. Len(ss[i]) :
             c[i][(IF i = 1 THEN 0 ELSE Len(c[i - 1])) + k] = ss[i][k]
        /\ \A i \in 1 .. n : \A j \in 1 .. i :
             Len(c[j]) <= Len(c[i]) /\ \A p \in 1 .. Len(c[j]) : c[i][p] = c[j][p]
    <3>1. \A i \in 1 .. n : ss[i] \in Seq(S)
      BY <1>1
    <3>2. Grows(S, ss, n, c)
      BY <2>4, <3>1, JoinsGrow
    <3> QED BY <3>2, Zenon DEF Grows
  <2>6. PICK off : off = [i \in 0 .. n |-> IF i = 0 THEN 0 ELSE Len(c[i])]
    OBVIOUS
  <2>7. off \in [0 .. n -> Nat] /\ off[0] = 0
    BY <2>5, <2>6
  <2>8. \A i \in 1 .. n : off[i] = Len(c[i]) /\ off[i] \in Nat /\ off[i - 1] \in Nat
                          /\ off[i - 1] = IF i = 1 THEN 0 ELSE Len(c[i - 1])
    BY <2>6, <2>7
  <2>9. \A i \in 1 .. n : off[i] = off[i - 1] + Len(ss[i])
    <3> SUFFICES ASSUME NEW i \in 1 .. n PROVE off[i] = off[i - 1] + Len(ss[i])
      OBVIOUS
    <3>1. off[i] = Len(ss[i]) + off[i - 1]
      <4>1. Len(c[i]) = Len(ss[i]) + IF i = 1 THEN 0 ELSE Len(c[i - 1])
        BY <2>5, Zenon
      <4>2. off[i] = Len(c[i]) /\ off[i - 1] = IF i = 1 THEN 0 ELSE Len(c[i - 1])
        BY <2>8, Zenon
      <4> QED BY <4>1, <4>2, Zenon
    <3>2. PICK a \in Nat, b \in Nat : a = Len(ss[i]) /\ b = off[i - 1]
      BY <1>1, <2>8
    <3> QED BY <3>1, <3>2
  <2>10. n \in 1 .. n /\ off[n] = Len(c[n])
    BY <1>3, <2>8
  <2>11. ASSUME NEW i \in 1 .. n, NEW k \in 1 .. Len(ss[i])
         PROVE  off[i - 1] + k \in 1 .. off[n] /\ c[n][off[i - 1] + k] = ss[i][k]
    <3>1. off[i - 1] + k \in 1 .. Len(c[i]) /\ c[i][off[i - 1] + k] = ss[i][k]
      <4>1. c[i][off[i - 1] + k] = ss[i][k]
        <5>1. c[i][(IF i = 1 THEN 0 ELSE Len(c[i - 1])) + k] = ss[i][k]
          BY <2>5, Zenon
        <5>2. off[i - 1] = IF i = 1 THEN 0 ELSE Len(c[i - 1])
          BY <2>8, Zenon
        <5> QED BY <5>1, <5>2, Zenon
      <4>2. PICK a \in Nat, b \in Nat : a = Len(ss[i]) /\ b = off[i - 1]
        BY <1>1, <2>8
      <4>3. Len(c[i]) = b + a
        BY <2>8, <2>9, <4>2, Zenon
      <4>4. k \in 1 .. a
        BY <4>2
      <4>5. b + k \in 1 .. b + a
        BY <4>4
      <4> QED BY <4>1, <4>2, <4>3, <4>5, Zenon
    <3>2. i \in 1 .. n /\ Len(c[i]) <= Len(c[n])
          /\ \A p \in 1 .. Len(c[i]) : c[n][p] = c[i][p]
      BY <2>5, <2>10
    <3>a. PICK x : x = off[i - 1] + k
      OBVIOUS
    <3>3. PICK a \in Nat, b \in Nat : a = Len(c[i]) /\ b = off[n]
      BY <2>8, <2>10
    <3>4. x \in 1 .. a /\ a <= b
      BY <2>10, <3>1, <3>2, <3>a, <3>3, Zenon
    <3>5. x \in 1 .. b
      BY <3>4
    <3> QED BY <3>1, <3>2, <3>a, <3>3, <3>5, Zenon
  <2>12. ASSUME NEW p \in 1 .. off[n]
         PROVE  \E i \in 1 .. n : \E k \in 1 .. Len(ss[i]) : p = off[i - 1] + k
    <3> DEFINE U == {i \in 1 .. n : p <= off[i]}
    <3>1. n \in U
      BY <2>8, <2>10
    <3>2. PICK i \in U : \A x \in U : i <= x
      <4>1. U \subseteq Nat /\ U # {}
        BY <3>1
      <4> HIDE DEF U
      <4> QED BY <4>1, LeastMember
    <3>3. PICK a \in Nat, b \in Nat : a = Len(ss[i]) /\ b = off[i - 1]
      BY <1>1, <2>8
    <3>4. p <= b + a
      BY <2>9, <3>2, <3>3
    <3>5. b < p
      <4>1. CASE i = 1
        BY <2>7, <3>3, <4>1
      <4>2. CASE i # 1
        <5>1. i - 1 \in 1 .. n /\ ~(i <= i - 1)
          BY <3>2, <4>2
        <5>2. i - 1 \notin U
          BY <3>2, <5>1
        <5> QED BY <3>3, <5>1, <5>2
      <4> QED BY <4>1, <4>2
    <3>6. p - b \in 1 .. a /\ p = b + (p - b)
      BY <3>4, <3>5
    <3> QED BY <3>2, <3>3, <3>6
  <2>13. c[n] \in Seq(S) /\ Len(c[n]) = off[n]
    BY <2>5, <2>10
  <2>14. Flat(ss, n, off, c[n])
    BY <2>7, <2>9, <2>11, <2>12, <2>13 DEF Flat
  <2> QED BY <2>3, <2>13, <2>14, Zenon
<1> QED BY <1>2, <1>3

\* An element of a flattened sequence is one of a part, and the other way round.
Covers(n, ss, f) ==
  /\ \A p \in 1 .. Len(f) : \E i \in 1 .. n : \E k \in 1 .. Len(ss[i]) : f[p] = ss[i][k]
  /\ \A i \in 1 .. n : \A k \in 1 .. Len(ss[i]) : \E p \in 1 .. Len(f) : f[p] = ss[i][k]

LEMMA FlatElements ==
  ASSUME NEW S, NEW n \in Nat, NEW ss, DOMAIN ss = 1 .. n, ss \in Seq(Seq(S))
  PROVE  FlattenSeq(ss) \in Seq(S) /\ Covers(n, ss, FlattenSeq(ss))
<1>0. PICK f : f = FlattenSeq(ss)
  OBVIOUS
<1>1. f \in Seq(S)
  BY <1>0, Flattened
<1>2. PICK off : Flat(ss, n, off, f)
  BY <1>0, Flattened
<1>3. /\ Len(f) = off[n]
      /\ \A i \in 1 .. n : \A k \in 1 .. Len(ss[i]) :
           off[i - 1] + k \in 1 .. off[n] /\ f[off[i - 1] + k] = ss[i][k]
      /\ \A p \in 1 .. off[n] : \E i \in 1 .. n : \E k \in 1 .. Len(ss[i]) : p = off[i - 1] + k
  BY <1>2, Zenon DEF Flat
<1>4. ASSUME NEW p \in 1 .. Len(f)
      PROVE  \E i \in 1 .. n : \E k \in 1 .. Len(ss[i]) : f[p] = ss[i][k]
  <2>1. p \in 1 .. off[n]
    BY <1>3
  <2>2. PICK i \in 1 .. n : \E k \in 1 .. Len(ss[i]) : p = off[i - 1] + k
    BY <1>3, <2>1, Zenon
  <2>3. PICK k \in 1 .. Len(ss[i]) : p = off[i - 1] + k
    BY <2>2
  <2>4. f[off[i - 1] + k] = ss[i][k]
    BY <1>3, <2>2, <2>3, Zenon
  <2> QED BY <2>2, <2>3, <2>4, Zenon
<1>5. ASSUME NEW i \in 1 .. n, NEW k \in 1 .. Len(ss[i])
      PROVE  \E p \in 1 .. Len(f) : f[p] = ss[i][k]
  BY <1>3, <1>5, Zenon
<1>6. Covers(n, ss, f)
  BY <1>4, <1>5 DEF Covers
<1> QED BY <1>0, <1>1, <1>6

-----------------------------------------------------------------------------
(* Reports and answers about crosspoints.                                  *)

LEMMA MatchesFacts ==
  ASSUME NEW r \in Router, NEW s \in Signal
  PROVE  /\ Matches(r, s) \subseteq Nat \ {0} /\ IsFiniteSet(Matches(r, s))
         /\ \A i : i \in Matches(r, s) <=> <<r, i, s>> \in Sources
<1>1. \A v \in Sources : v = <<v[1], v[2], v[3]>> /\ v[2] \in Nat \ {0}
  BY SaAssumption
<1>2. IsFiniteSet({v \in Sources : v[1] = r /\ v[3] = s})
  BY SaAssumption, FS_Subset
<1>3. IsFiniteSet(Matches(r, s))
  <2> DEFINE V == {v \in Sources : v[1] = r /\ v[3] = s}
             f == [v \in V |-> v[2]]
  <2>1. Matches(r, s) = {f[v] : v \in V}
    BY DEF Matches
  <2>2. f \in Surjection(V, {f[v] : v \in V})
    BY DEF Surjection
  <2> HIDE DEF V, f
  <2> QED BY <1>2, <2>1, <2>2, FS_Surjection DEF V
<1> QED BY <1>1, <1>3 DEF Matches

LEMMA JoinedFacts ==
  ASSUME NEW r \in Router, NEW s \in Signal
  PROVE  /\ Joined(r, s) \in Seq(Nat) /\ Joined(r, s) # <<>>
         /\ \A k \in 1 .. Len(Joined(r, s)) :
              IF Matches(r, s) = {} THEN Joined(r, s)[k] = 0
                                    ELSE Joined(r, s)[k] \in Matches(r, s)
<1>1. CASE Matches(r, s) = {}
  BY <1>1 DEF Joined
<1>2. CASE Matches(r, s) # {}
  <2>1. PICK M, n : M = Matches(r, s) /\ n = Cardinality(M)
    OBVIOUS
  <2>2. M \subseteq Nat /\ IsFiniteSet(M)
    BY <2>1, MatchesFacts
  <2>3. n \in Nat /\ InOrder(M) \in [1 .. n -> M]
        /\ \A i \in M : \E k \in 1 .. n : InOrder(M)[k] = i
    BY <2>1, <2>2, InOrderEnumerates
  <2>4. PICK q : q = InOrder(M)
    OBVIOUS
  <2>5. q \in Seq(Nat) /\ Len(q) = n /\ n # 0 /\ \A k \in 1 .. n : q[k] \in M
    <3>1. 1 .. n # {}
      BY <1>2, <2>1, <2>3
    <3>2. q \in [1 .. n -> M]
      BY <2>3, <2>4
    <3>3. q \in [1 .. n -> Nat]
      BY <2>2, <3>2
    <3>4. n \in Nat /\ n # 0
      <4>1. n \in Nat
        BY <2>3
      <4> QED BY <3>1, <4>1
    <3>5. q \in Seq(Nat) /\ Len(q) = n
      BY <3>3, <3>4
    <3> QED BY <3>2, <3>4, <3>5
  <2>6. Joined(r, s) = q
    BY <1>2, <2>1, <2>4 DEF Joined
  <2>7. q # <<>>
    BY <2>5
  <2> QED BY <1>2, <2>1, <2>5, <2>6, <2>7
<1> QED BY <1>1, <1>2

LEMMA StatFacts ==
  ASSUME NEW r \in Router, NEW o \in Output, NEW i \in Nat
  PROVE  /\ RouteStat(r, o, i) \in StatLines
         /\ RouteStat(r, o, i).router = r /\ RouteStat(r, o, i).output = o
         /\ RouteStat(r, o, i).input = i /\ RouteStat(r, o, i).line = "RouteStat"
BY DEF RouteStat, StatLines

\* The lines about one output.
ReportOf(d, o) ==
  LET fed == InOrder({r \in Router : <<r, o, d>> \in Destinations})
  IN FlattenSeq([k \in DOMAIN fed |-> [n \in DOMAIN Joined(fed[k], route[d]) |->
                   RouteStat(fed[k], o, Joined(fed[k], route[d])[n])]])

\* A line that tells what output o of router r takes from d.
Tells(l, r, o, d) ==
  /\ l \in StatLines /\ l.router = r /\ l.output = o
  /\ <<r, o, d>> \in Destinations
  /\ IF Matches(r, route[d]) = {} THEN l.input = 0 ELSE l.input \in Matches(r, route[d])

LEMMA ReportOfFacts ==
  ASSUME NEW d \in Dest, NEW o \in Output, route[d] \in Signal
  PROVE  /\ ReportOf(d, o) \in Seq(StatLines)
         /\ \A p \in 1 .. Len(ReportOf(d, o)) : \E r \in Router : Tells(ReportOf(d, o)[p], r, o, d)
         /\ \A r \in Router : <<r, o, d>> \in Destinations =>
              \E p \in 1 .. Len(ReportOf(d, o)) : Tells(ReportOf(d, o)[p], r, o, d)
<1>1. PICK R, s : R = {r \in Router : <<r, o, d>> \in Destinations} /\ s = route[d]
  OBVIOUS
<1>2. R \subseteq Router /\ R \subseteq Nat /\ IsFiniteSet(R) /\ s \in Signal
  BY <1>1, SaAssumption, FS_Subset
<1>a. PICK c \in Nat : c = Cardinality(R)
  BY <1>2, FS_CardinalityType
<1>3. PICK fed : fed = InOrder(R)
  OBVIOUS
<1>4. fed \in [1 .. c -> R] /\ \A r \in R : \E k \in 1 .. c : fed[k] = r
  BY <1>a, <1>2, <1>3, InOrderEnumerates
<1>5. PICK ss : ss = [k \in 1 .. c |-> [n \in DOMAIN Joined(fed[k], s) |->
                                          RouteStat(fed[k], o, Joined(fed[k], s)[n])]]
  OBVIOUS
<1>6. ReportOf(d, o) = FlattenSeq(ss)
  <2>1. DOMAIN fed = 1 .. c
    BY <1>4
  <2> QED BY <1>1, <1>3, <1>5, <2>1, Zenon DEF ReportOf
<1>7. ASSUME NEW k \in 1 .. c
      PROVE  /\ ss[k] \in Seq(StatLines) /\ Len(ss[k]) \in Nat \ {0}
             /\ \A n \in 1 .. Len(ss[k]) : Tells(ss[k][n], fed[k], o, d)
  <2>1. PICK r \in R : r = fed[k]
    BY <1>4
  <2>2. r \in Router /\ <<r, o, d>> \in Destinations
    BY <1>1
  <2>3. PICK q : q = Joined(r, s)
    OBVIOUS
  <2>4. /\ q \in Seq(Nat) /\ q # <<>>
        /\ \A n \in 1 .. Len(q) : IF Matches(r, s) = {} THEN q[n] = 0 ELSE q[n] \in Matches(r, s)
    BY <1>2, <2>2, <2>3, JoinedFacts
  <2>5. PICK m \in Nat : m = Len(q) /\ m # 0 /\ DOMAIN q = 1 .. m
    BY <2>4
  <2>6. PICK t : t = [n \in 1 .. m |-> RouteStat(r, o, q[n])]
    OBVIOUS
  <2>7. ss[k] = t
    BY <1>5, <2>1, <2>3, <2>5, <2>6
  <2>8. \A n \in 1 .. m : /\ t[n] \in StatLines /\ t[n].router = r /\ t[n].output = o
                          /\ t[n].input = q[n] /\ q[n] \in Nat
    <3> SUFFICES ASSUME NEW n \in 1 .. m
                 PROVE  /\ t[n] \in StatLines /\ t[n].router = r /\ t[n].output = o
                        /\ t[n].input = q[n] /\ q[n] \in Nat
      OBVIOUS
    <3>1. t[n] = RouteStat(r, o, q[n]) /\ q[n] \in Nat
      BY <2>4, <2>5, <2>6
    <3> QED BY <2>2, <3>1, StatFacts
  <2>9. t \in Seq(StatLines) /\ Len(t) = m
    <3>1. t \in [1 .. m -> StatLines]
      BY <2>6, <2>8
    <3> QED BY <3>1
  <2>10. \A n \in 1 .. m : Tells(t[n], r, o, d)
    BY <1>1, <2>2, <2>4, <2>5, <2>8 DEF Tells
  <2> QED BY <2>1, <2>5, <2>7, <2>9, <2>10
<1>8. ss \in Seq(Seq(StatLines)) /\ DOMAIN ss = 1 .. c
  <2>1. ss \in [1 .. c -> Seq(StatLines)]
    BY <1>5, <1>7
  <2> QED BY <2>1
<1>9. PICK f : f = FlattenSeq(ss)
  OBVIOUS
<1>10. /\ f \in Seq(StatLines)
       /\ \A p \in 1 .. Len(f) : \E i \in 1 .. c : \E k \in 1 .. Len(ss[i]) : f[p] = ss[i][k]
       /\ \A i \in 1 .. c : \A k \in 1 .. Len(ss[i]) : \E p \in 1 .. Len(f) : f[p] = ss[i][k]
  <2>1. f \in Seq(StatLines) /\ Covers(c, ss, f)
    BY <1>8, <1>9, FlatElements
  <2> QED BY <2>1, Zenon DEF Covers
<1>11. ASSUME NEW p \in 1 .. Len(f) PROVE \E r \in Router : Tells(f[p], r, o, d)
  <2>1. PICK i \in 1 .. c : \E k \in 1 .. Len(ss[i]) : f[p] = ss[i][k]
    BY <1>10
  <2>2. PICK k \in 1 .. Len(ss[i]) : f[p] = ss[i][k]
    BY <2>1
  <2>3. Tells(f[p], fed[i], o, d) /\ fed[i] \in Router
    BY <1>2, <1>4, <1>7, <2>2
  <2> QED BY <2>3
<1>12. ASSUME NEW r \in Router, <<r, o, d>> \in Destinations
       PROVE  \E p \in 1 .. Len(f) : Tells(f[p], r, o, d)
  <2>1. PICK k \in 1 .. c : fed[k] = r
    BY <1>1, <1>4, <1>12
  <2>2. 1 \in 1 .. Len(ss[k]) /\ Tells(ss[k][1], r, o, d)
    BY <1>7, <2>1
  <2>3. PICK p \in 1 .. Len(f) : f[p] = ss[k][1]
    BY <1>10, <2>2
  <2> QED BY <2>2, <2>3
<1> QED BY <1>6, <1>9, <1>10, <1>11, <1>12

\* The lines of a report tell about the destination, and there is one for every output
\* that it is.
Reports(d, f) ==
  /\ \A p \in 1 .. Len(f) : \E r \in Router, o \in Output : Tells(f[p], r, o, d)
  /\ \A r \in Router, o \in Output : <<r, o, d>> \in Destinations =>
       \E p \in 1 .. Len(f) : Tells(f[p], r, o, d)

LEMMA ReportFacts ==
  ASSUME NEW d \in Dest, route[d] \in Signal
  PROVE  Report(d) \in Seq(StatLines) /\ Reports(d, Report(d))
<1>1. PICK s : s = route[d]
  OBVIOUS
<1>2. PICK ss : ss = [o \in Output |-> ReportOf(d, o)]
  OBVIOUS
<1>3. Report(d) = FlattenSeq(ss)
  <2> DEFINE rows == [r \in Router |-> Joined(r, route[d])]
             fed == [o \in Output |-> InOrder({r \in Router : <<r, o, d>> \in Destinations})]
             lines(r, o) == [n \in DOMAIN rows[r] |-> RouteStat(r, o, rows[r][n])]
  <2>1. Report(d) = FlattenSeq([o \in Output |->
                      FlattenSeq([k \in DOMAIN fed[o] |-> lines(fed[o][k], o)])])
    BY DEF Report
  <2>2. ASSUME NEW o \in Output
        PROVE  FlattenSeq([k \in DOMAIN fed[o] |-> lines(fed[o][k], o)]) = ReportOf(d, o)
    <3>1. PICK R : R = {r \in Router : <<r, o, d>> \in Destinations}
      OBVIOUS
    <3>2. R \subseteq Router /\ R \subseteq Nat /\ IsFiniteSet(R)
      BY <3>1, SaAssumption, FS_Subset
    <3>3. PICK x : x = InOrder(R)
      OBVIOUS
    <3>4. \A k \in DOMAIN x : x[k] \in Router
      <4>1. x \in [1 .. Cardinality(R) -> R]
        BY <3>2, <3>3, InOrderEnumerates
      <4> QED BY <3>2, <4>1
    <3>5. fed[o] = x
      BY <3>1, <3>3
    <3> HIDE DEF fed
    <3>6. \A k \in DOMAIN x :
            lines(x[k], o) = [n \in DOMAIN Joined(x[k], route[d]) |->
                                RouteStat(x[k], o, Joined(x[k], route[d])[n])]
      <4> SUFFICES ASSUME NEW k \in DOMAIN x
                   PROVE  lines(x[k], o) = [n \in DOMAIN Joined(x[k], route[d]) |->
                                             RouteStat(x[k], o, Joined(x[k], route[d])[n])]
        OBVIOUS
      <4>1. rows[x[k]] = Joined(x[k], route[d])
        BY <3>4
      <4> HIDE DEF rows
      <4> QED BY <4>1, Zenon
    <3> HIDE DEF lines
    <3>7. [k \in DOMAIN x |-> lines(x[k], o)]
            = [k \in DOMAIN x |-> [n \in DOMAIN Joined(x[k], route[d]) |->
                                RouteStat(x[k], o, Joined(x[k], route[d])[n])]]
      BY <3>6, Zenon
    <3>8. ReportOf(d, o) = FlattenSeq([k \in DOMAIN x |-> lines(x[k], o)])
      BY <3>1, <3>3, <3>7, Zenon DEF ReportOf
    <3> QED BY <3>5, <3>8, Zenon
  <2> DEFINE part(o) == FlattenSeq([k \in DOMAIN fed[o] |-> lines(fed[o][k], o)])
  <2>3. Report(d) = FlattenSeq([o \in Output |-> part(o)])
    BY <2>1
  <2>4. \A o \in Output : part(o) = ReportOf(d, o)
    BY <2>2
  <2> HIDE DEF part
  <2>5. [o \in Output |-> part(o)] = [o \in Output |-> ReportOf(d, o)]
    BY <2>4, Zenon
  <2> QED BY <1>2, <2>3, <2>5, Zenon
<1>4. Outputs \in Nat /\ Output = 1 .. Outputs
  BY SaAssumption DEF Output
<1>5. \A o \in Output : ss[o] \in Seq(StatLines)
  BY <1>2, ReportOfFacts
<1>6. ss \in Seq(Seq(StatLines)) /\ DOMAIN ss = 1 .. Outputs
  <2>1. ss \in [1 .. Outputs -> Seq(StatLines)]
    BY <1>2, <1>4, <1>5
  <2> QED BY <1>4, <2>1
<1>7. PICK f : f = FlattenSeq(ss)
  OBVIOUS
<1>8. f \in Seq(StatLines) /\ Covers(Outputs, ss, f)
  BY <1>4, <1>6, <1>7, FlatElements
<1>9. /\ \A p \in 1 .. Len(f) : \E o \in Output : \E k \in 1 .. Len(ss[o]) : f[p] = ss[o][k]
      /\ \A o \in Output : \A k \in 1 .. Len(ss[o]) : \E p \in 1 .. Len(f) : f[p] = ss[o][k]
  BY <1>4, <1>8, Zenon DEF Covers
<1>10. ASSUME NEW o \in Output
       PROVE  /\ \A k \in 1 .. Len(ss[o]) : \E r \in Router : Tells(ss[o][k], r, o, d)
              /\ \A r \in Router : <<r, o, d>> \in Destinations =>
                   \E k \in 1 .. Len(ss[o]) : Tells(ss[o][k], r, o, d)
  <2>1. ss[o] = ReportOf(d, o)
    BY <1>2
  <2> QED BY <2>1, ReportOfFacts
<1>11. ASSUME NEW p \in 1 .. Len(f)
       PROVE  \E r \in Router, o \in Output : Tells(f[p], r, o, d)
  <2>1. PICK o \in Output : \E k \in 1 .. Len(ss[o]) : f[p] = ss[o][k]
    BY <1>9
  <2>2. PICK k \in 1 .. Len(ss[o]) : f[p] = ss[o][k]
    BY <2>1
  <2>3. PICK r \in Router : Tells(ss[o][k], r, o, d)
    BY <1>10, <2>2
  <2>4. Tells(f[p], r, o, d)
    BY <2>2, <2>3, Zenon
  <2> QED BY <2>4
<1>12. ASSUME NEW r \in Router, NEW o \in Output, <<r, o, d>> \in Destinations
       PROVE  \E p \in 1 .. Len(f) : Tells(f[p], r, o, d)
  <2>1. PICK k \in 1 .. Len(ss[o]) : Tells(ss[o][k], r, o, d)
    BY <1>10, <1>12
  <2>2. PICK p \in 1 .. Len(f) : f[p] = ss[o][k]
    BY <1>9, <2>1
  <2>3. Tells(f[p], r, o, d)
    BY <2>1, <2>2, Zenon
  <2> QED BY <2>2, <2>3
<1>13. Reports(d, f)
  BY <1>11, <1>12 DEF Reports
<1> QED BY <1>3, <1>7, <1>8, <1>13, Zenon

\* The walk over the rows and the outputs takes none or one row for each output.
Walks(rows, used) ==
  /\ used[0] = 0
  /\ \A o \in Output : used[o] = used[o - 1] + IF Meets(rows, used[o - 1], o) THEN 1 ELSE 0

LEMMA WalkedExists ==
  ASSUME NEW rows
  PROVE  Walks(rows, Walked(rows))
<1> DEFINE N(o, u) == IF o = 0 THEN 0
                      ELSE u[o - 1] + IF Meets(rows, u[o - 1], o) THEN 1 ELSE 0
           R(u) == u = [o \in 0 .. Outputs |-> N(o, u)]
           Part(k, u) == /\ u[0] = 0
                         /\ \A o \in 1 .. k : u[o] = u[o - 1] + IF Meets(rows, u[o - 1], o)
                                                                 THEN 1 ELSE 0
           T == {k \in Nat : \E u : DOMAIN u = Nat /\ Part(k, u)}
<1>0. Outputs \in Nat /\ Output = 1 .. Outputs
  BY SaAssumption DEF Output
<1> HIDE DEF Part
<1>1. 0 \in T
  <2>1. PICK u : u = [o \in Nat |-> 0]
    OBVIOUS
  <2>2. Part(0, u)
    BY <2>1 DEF Part
  <2> QED BY <2>1, <2>2
<1>2. ASSUME NEW k \in Nat, k \in T PROVE k + 1 \in T
  <2>1. PICK u : DOMAIN u = Nat /\ Part(k, u)
    BY <1>2
  <2> DEFINE x == u[k] + IF Meets(rows, u[k], k + 1) THEN 1 ELSE 0
  <2>2. PICK g, y : y = x /\ g = [o \in Nat |-> IF o = k + 1 THEN y ELSE u[o]]
    OBVIOUS
  <2>3. DOMAIN g = Nat /\ g[k + 1] = y /\ \A o \in 0 .. k : g[o] = u[o]
    BY <2>2
  <2>4. g[0] = 0
    BY <2>1, <2>3 DEF Part
  <2>5. ASSUME NEW o \in 1 .. k + 1
        PROVE  g[o] = g[o - 1] + IF Meets(rows, g[o - 1], o) THEN 1 ELSE 0
    <3>1. CASE o = k + 1
      <4>1. o - 1 = k /\ k \in 0 .. k
        BY <3>1
      <4>2. g[o - 1] = u[k] /\ g[o] = x
        BY <2>2, <2>3, <3>1, <4>1, Zenon
      <4> QED BY <3>1, <4>2, Zenon
    <3>2. CASE o # k + 1
      <4>1. o \in 1 .. k /\ o \in 0 .. k /\ o - 1 \in 0 .. k
        BY <3>2
      <4>2. u[o] = u[o - 1] + IF Meets(rows, u[o - 1], o) THEN 1 ELSE 0
        BY <2>1, <4>1, Zenon DEF Part
      <4>3. g[o - 1] = u[o - 1] /\ g[o] = u[o]
        BY <2>3, <4>1
      <4> QED BY <4>2, <4>3, Zenon
    <3> QED BY <3>1, <3>2
  <2>6. Part(k + 1, g)
    BY <2>4, <2>5, Zenon DEF Part
  <2> QED BY <2>3, <2>6
<1> HIDE DEF T
<1>3. Outputs \in T
  BY <1>0, <1>1, <1>2, Induct
<1>4. PICK u : DOMAIN u = Nat /\ Part(Outputs, u)
  BY <1>3 DEF T
<1>5. PICK g : g = [o \in 0 .. Outputs |-> u[o]]
  OBVIOUS
<1>6. \A o \in 0 .. Outputs : g[o] = N(o, g)
  <2> SUFFICES ASSUME NEW o \in 0 .. Outputs PROVE g[o] = N(o, g)
    OBVIOUS
  <2>1. CASE o = 0
    <3>1. g[0] = u[0] /\ u[0] = 0
      BY <1>0, <1>4, <1>5 DEF Part
    <3> QED BY <2>1, <3>1, Zenon
  <2>2. CASE o # 0
    <3>1. o \in 1 .. Outputs /\ o - 1 \in 0 .. Outputs
      BY <1>0, <2>2
    <3>2. u[o] = u[o - 1] + IF Meets(rows, u[o - 1], o) THEN 1 ELSE 0
      BY <1>4, <3>1, Zenon DEF Part
    <3>3. g[o] = u[o] /\ g[o - 1] = u[o - 1]
      BY <1>5, <3>1
    <3> QED BY <2>2, <3>2, <3>3, Zenon
  <2> QED BY <2>1, <2>2
<1>7. R(g)
  <2>1. g = [o \in 0 .. Outputs |-> g[o]]
    BY <1>5
  <2> HIDE DEF N
  <2> QED BY <1>6, <2>1, Zenon
<1> DEFINE c == CHOOSE v : R(v)
<1>8. Walked(rows) = c
  BY DEF Walked
<1>9. R(c)
  <2> HIDE DEF R
  <2> QED BY <1>7, Zenon
<1> HIDE DEF c
<1>10. \A o \in 0 .. Outputs : c[o] = N(o, c)
  <2> HIDE DEF N
  <2> QED BY <1>9, Zenon
<1>11. c[0] = 0
  <2>1. 0 \in 0 .. Outputs
    BY <1>0
  <2>2. c[0] = N(0, c)
    BY <1>10, <2>1, Zenon
  <2> QED BY <2>2, Zenon
<1>12. ASSUME NEW o \in Output
       PROVE  c[o] = c[o - 1] + IF Meets(rows, c[o - 1], o) THEN 1 ELSE 0
  <2>1. o \in 0 .. Outputs /\ o # 0
    BY <1>0
  <2>2. c[o] = N(o, c)
    BY <1>10, <2>1, Zenon
  <2> QED BY <2>1, <2>2, Zenon
<1>13. Walks(rows, c)
  BY <1>11, <1>12, Zenon DEF Walks
<1> QED BY <1>8, <1>13, Zenon

\* The inputs that have the stream which an output takes.
Feeding(r, o) == UNION {Matches(r, s) : s \in
  {route[w[3]] : w \in {v \in Destinations : v[1] = r /\ v[2] = o}} \ {NullStream}}

LEMMA FeedingFacts ==
  ASSUME NEW r \in Router, NEW o \in Output, route \in [Dest -> Signal]
  PROVE  /\ Feeding(r, o) \subseteq Nat /\ IsFiniteSet(Feeding(r, o))
         /\ (\A d \in Dest : <<r, o, d>> \notin Destinations) => Feeding(r, o) = {}
         /\ \A d \in Dest : <<r, o, d>> \in Destinations =>
              Feeding(r, o) = IF route[d] = NullStream THEN {} ELSE Matches(r, route[d])
<1>1. \A v \in Destinations : v = <<v[1], v[2], v[3]>> /\ v[3] \in Dest
  BY SaAssumption
<1>2. CASE \E d \in Dest : <<r, o, d>> \in Destinations
  <2>1. PICK d \in Dest : <<r, o, d>> \in Destinations
    BY <1>2
  <2>2. \A v \in Destinations : v[1] = r /\ v[2] = o <=> v = <<r, o, d>>
    <3>0. PICK w : w = <<r, o, d>>
      OBVIOUS
    <3>1. w = <<r, o, d>> /\ w[1] = r /\ w[2] = o
      BY <3>0
    <3>2. \A v \in Destinations : v[1] = w[1] /\ v[2] = w[2] => v = w
      BY <2>1, <3>1, SaAssumption
    <3> QED BY <3>1, <3>2
  <2>3. {v \in Destinations : v[1] = r /\ v[2] = o} = {<<r, o, d>>}
    BY <2>1, <2>2
  <2>4. {route[w[3]] : w \in {<<r, o, d>>}} = {route[d]}
    OBVIOUS
  <2>5. Feeding(r, o) = UNION {Matches(r, s) : s \in {route[d]} \ {NullStream}}
    BY <2>3, <2>4, Zenon DEF Feeding
  <2>6. Feeding(r, o) = IF route[d] = NullStream THEN {} ELSE Matches(r, route[d])
    <3>1. CASE route[d] = NullStream
      <4>1. {route[d]} \ {NullStream} = {}
        BY <3>1
      <4>2. UNION {Matches(r, s) : s \in {}} = {}
        OBVIOUS
      <4> QED BY <2>5, <3>1, <4>1, <4>2, Zenon
    <3>2. CASE route[d] # NullStream
      <4>1. {route[d]} \ {NullStream} = {route[d]}
        BY <3>2
      <4>2. UNION {Matches(r, s) : s \in {route[d]}} = Matches(r, route[d])
        OBVIOUS
      <4> QED BY <2>5, <3>2, <4>1, <4>2, Zenon
    <3> QED BY <3>1, <3>2
  <2>7. Feeding(r, o) \subseteq Nat /\ IsFiniteSet(Feeding(r, o))
    <3>1. PICK M : M = Matches(r, route[d])
      OBVIOUS
    <3>2. M \subseteq Nat /\ IsFiniteSet(M)
      BY <3>1, MatchesFacts
    <3> QED BY <2>6, <3>1, <3>2, FS_EmptySet
  <2>8. \A e \in Dest : <<r, o, e>> \in Destinations => e = d
    <3> SUFFICES ASSUME NEW e \in Dest, <<r, o, e>> \in Destinations PROVE e = d
      OBVIOUS
    <3>1. PICK w : w = <<r, o, e>> /\ w[1] = r /\ w[2] = o
      OBVIOUS
    <3>2. w = <<r, o, d>>
      BY <2>2, <3>1
    <3> QED BY <3>1, <3>2
  <2> QED BY <2>1, <2>6, <2>7, <2>8
<1>3. CASE \A d \in Dest : <<r, o, d>> \notin Destinations
  <2>1. {v \in Destinations : v[1] = r /\ v[2] = o} = {}
    BY <1>1, <1>3
  <2>2. Feeding(r, o) = {}
    BY <2>1 DEF Feeding
  <2> QED BY <1>3, <2>2, FS_EmptySet
<1> QED BY <1>2, <1>3

\* The rows of the answer about a router, output by output.
Rows(r, ss) ==
  /\ RouteRows(r) = FlattenSeq(ss)
  /\ DOMAIN ss = 1 .. Outputs /\ ss \in Seq(Seq(Output \X Nat))
  /\ \A o \in Output : /\ Len(ss[o]) = Cardinality(Feeding(r, o))
                       /\ \A k \in 1 .. Len(ss[o]) : /\ ss[o][k][1] = o
                                                     /\ ss[o][k][2] \in Feeding(r, o)

LEMMA RowsExist ==
  ASSUME NEW r \in Router, route \in [Dest -> Signal]
  PROVE  \E ss : Rows(r, ss)
<1>0. Outputs \in Nat /\ Output = 1 .. Outputs
  BY SaAssumption DEF Output
<1>1. PICK fed : fed = [o \in Output |-> InOrder(Feeding(r, o))]
  OBVIOUS
<1>2. PICK ss : ss = [o \in Output |-> [k \in DOMAIN fed[o] |-> <<o, fed[o][k]>>]]
  OBVIOUS
<1>3. RouteRows(r) = FlattenSeq(ss)
  <2>1. fed = [o \in Output |-> InOrder(UNION {Matches(r, s) : s \in
                {route[w[3]] : w \in {v \in Destinations : v[1] = r /\ v[2] = o}} \ {NullStream}})]
    BY <1>1 DEF Feeding
  <2> QED BY <1>2, <2>1, Zenon DEF RouteRows
<1>4. ASSUME NEW o \in Output
      PROVE  /\ ss[o] \in Seq(Output \X Nat)
             /\ Len(ss[o]) = Cardinality(Feeding(r, o))
             /\ \A k \in 1 .. Len(ss[o]) : ss[o][k][1] = o /\ ss[o][k][2] \in Feeding(r, o)
  <2>1. PICK F : F = Feeding(r, o)
    OBVIOUS
  <2>2. F \subseteq Nat /\ IsFiniteSet(F)
    BY <2>1, FeedingFacts
  <2>3. PICK c \in Nat : c = Cardinality(F)
    BY <2>2, FS_CardinalityType
  <2>4. PICK x : x = fed[o]
    OBVIOUS
  <2>5. x \in [1 .. c -> F]
    <3>1. x = InOrder(F)
      BY <1>1, <2>1, <2>4
    <3> QED BY <2>2, <2>3, <3>1, InOrderEnumerates
  <2>6. PICK t : t = [k \in 1 .. c |-> <<o, x[k]>>]
    OBVIOUS
  <2>7. ss[o] = t
    BY <1>2, <2>4, <2>5, <2>6
  <2>8. \A k \in 1 .. c : t[k] \in Output \X Nat /\ t[k][1] = o /\ t[k][2] \in F
    BY <2>2, <2>5, <2>6
  <2>9. t \in Seq(Output \X Nat) /\ Len(t) = c
    <3>1. t \in [1 .. c -> Output \X Nat]
      BY <2>6, <2>8
    <3> QED BY <3>1
  <2> QED BY <2>1, <2>3, <2>7, <2>8, <2>9
<1>5. DOMAIN ss = 1 .. Outputs /\ ss \in Seq(Seq(Output \X Nat))
  <2>1. ss \in [1 .. Outputs -> Seq(Output \X Nat)]
    BY <1>0, <1>2, <1>4
  <2> QED BY <1>0, <2>1
<1>6. Rows(r, ss)
  BY <1>3, <1>4, <1>5, Zenon DEF Rows
<1> QED BY <1>6

LEMMA RouteInfoFacts ==
  ASSUME NEW r \in Router, route \in [Dest -> Signal]
  PROVE  /\ RouteInfo(r) \in Seq(StatLines) /\ Len(RouteInfo(r)) = Outputs
         /\ \A o \in Output : StatOf(RouteInfo(r)[o], r, o)
<1>0. Outputs \in Nat /\ Output = 1 .. Outputs
  BY SaAssumption DEF Output
<1>1. PICK rows, used : rows = RouteRows(r) /\ used = Walked(rows)
  OBVIOUS
<1>2. PICK ss : Rows(r, ss)
  BY RowsExist
<1>3. rows \in Seq(Output \X Nat)
  BY <1>0, <1>1, <1>2, FlatElements DEF Rows
<1>4. Walks(rows, used)
  BY <1>1, WalkedExists
<1>5. \A o \in 0 .. Outputs : used[o] \in Nat
  <2> DEFINE T == {i \in Nat : i \in 0 .. Outputs => used[i] \in Nat}
  <2>1. 0 \in T
    BY <1>4 DEF Walks
  <2>2. ASSUME NEW i \in Nat, i \in T PROVE i + 1 \in T
    <3>1. CASE i + 1 \in 0 .. Outputs
      <4>1. i + 1 \in Output /\ i \in 0 .. Outputs /\ (i + 1) - 1 = i
        BY <1>0, <3>1
      <4>2. used[i + 1] = used[i] + IF Meets(rows, used[i], i + 1) THEN 1 ELSE 0
        BY <1>4, <4>1, Zenon DEF Walks
      <4> QED BY <2>2, <4>1, <4>2
    <3> QED BY <3>1
  <2> HIDE DEF T
  <2>3. \A i \in Nat : i \in T
    BY <2>1, <2>2, Induct
  <2> QED BY <2>3 DEF T
<1> DEFINE input(o) == IF Meets(rows, used[o - 1], o) THEN rows[used[o]][2] ELSE 0
<1>6. ASSUME NEW o \in Output PROVE input(o) \in Nat
  <2>1. CASE Meets(rows, used[o - 1], o)
    <3>1. used[o] = used[o - 1] + 1
      BY <1>4, <2>1, Zenon DEF Walks
    <3>2. used[o - 1] \in Nat
      BY <1>0, <1>5
    <3>3. used[o] \in 1 .. Len(rows)
      BY <1>3, <2>1, <3>1, <3>2 DEF Meets
    <3>4. rows[used[o]] \in Output \X Nat
      BY <1>3, <3>3
    <3> QED BY <2>1, <3>4
  <2>2. CASE ~Meets(rows, used[o - 1], o)
    BY <2>2
  <2> QED BY <2>1, <2>2
<1>7. RouteInfo(r) = [o \in Output |-> RouteStat(r, o, input(o))]
  BY <1>1, Zenon DEF RouteInfo
<1> HIDE DEF input
<1>8. ASSUME NEW o \in Output
      PROVE  RouteInfo(r)[o] \in StatLines /\ StatOf(RouteInfo(r)[o], r, o)
  <2>1. RouteInfo(r)[o] = RouteStat(r, o, input(o))
    BY <1>7
  <2> QED BY <1>6, <2>1, StatFacts DEF StatOf
<1>9. RouteInfo(r) \in [1 .. Outputs -> StatLines]
  BY <1>0, <1>7, <1>8
<1>10. RouteInfo(r) \in Seq(StatLines) /\ Len(RouteInfo(r)) = Outputs
  <2>1. PICK f : f = RouteInfo(r)
    OBVIOUS
  <2>2. f \in [1 .. Outputs -> StatLines]
    BY <1>9, <2>1
  <2>3. f \in Seq(StatLines) /\ Len(f) = Outputs
    BY <1>0, <2>2
  <2> QED BY <2>1, <2>3
<1> QED BY <1>8, <1>10

\* With plain sources there is at most one row for an output, and the walk finds it.
LEMMA RouteInfoRight ==
  ASSUME NEW r \in Router, route \in [Dest -> Signal], PlainSources,
         NEW o \in Output
  PROVE  Right(r, o, RouteInfo(r)[o].input)
<1>0. Outputs \in Nat /\ Output = 1 .. Outputs
  BY SaAssumption DEF Output
<1>1. PICK rows, used : rows = RouteRows(r) /\ used = Walked(rows)
  OBVIOUS
<1>2. PICK ss : Rows(r, ss)
  BY RowsExist
<1>3. PICK off : Flat(ss, Outputs, off, rows)
  BY <1>0, <1>1, <1>2, Flattened DEF Rows
<1>4. Walks(rows, used)
  BY <1>1, WalkedExists
<1>5. ASSUME NEW x \in Output
      PROVE  /\ Len(ss[x]) \in {0, 1} /\ (Len(ss[x]) = 0 <=> Feeding(r, x) = {})
             /\ \A k \in 1 .. Len(ss[x]) : ss[x][k][1] = x /\ ss[x][k][2] \in Feeding(r, x)
  <2>1. PICK F : F = Feeding(r, x) /\ Len(ss[x]) = Cardinality(F)
    BY <1>2 DEF Rows
  <2>2. \A i, j \in F : i = j
    <3>1. \A d \in Dest : \A i, j \in Matches(r, route[d]) : i = j
      <4> SUFFICES ASSUME NEW d \in Dest, NEW i \in Matches(r, route[d]),
                          NEW j \in Matches(r, route[d])
                   PROVE  i = j
        OBVIOUS
      <4>1. <<r, i, route[d]>> \in Sources /\ <<r, j, route[d]>> \in Sources
        BY MatchesFacts
      <4>2. PICK v \in Sources, w \in Sources : v = <<r, i, route[d]>> /\ w = <<r, j, route[d]>>
        BY <4>1
      <4>3. v[1] = w[1] /\ v[3] = w[3]
        BY <4>2
      <4>4. v = w
        BY <4>3 DEF PlainSources
      <4> QED BY <4>2, <4>4
    <3>2. F = {} \/ \E d \in Dest : F = Matches(r, route[d])
      BY <2>1, FeedingFacts
    <3> QED BY <3>1, <3>2
  <2>3. CASE F = {}
    BY <1>2, <2>1, <2>3, FS_EmptySet DEF Rows
  <2>4. CASE F # {}
    <3>1. PICK i : F = {i}
      BY <2>2, <2>4
    <3>2. Cardinality(F) = 1
      BY <3>1, FS_Singleton
    <3> QED BY <1>2, <2>1, <2>4, <3>2 DEF Rows
  <2> QED BY <2>3, <2>4
<1>6. /\ off \in [0 .. Outputs -> Nat] /\ off[0] = 0
      /\ \A i \in 1 .. Outputs : off[i] = off[i - 1] + Len(ss[i])
      /\ Len(rows) = off[Outputs]
      /\ \A i \in 1 .. Outputs : \A k \in 1 .. Len(ss[i]) :
           off[i - 1] + k \in 1 .. off[Outputs] /\ rows[off[i - 1] + k] = ss[i][k]
      /\ \A p \in 1 .. off[Outputs] :
           \E i \in 1 .. Outputs : \E k \in 1 .. Len(ss[i]) : p = off[i - 1] + k
  BY <1>3, Zenon DEF Flat
<1>7. ASSUME NEW x \in Output
      PROVE  /\ Meets(rows, off[x - 1], x) <=> Len(ss[x]) = 1
             /\ off[x] = off[x - 1] + IF Meets(rows, off[x - 1], x) THEN 1 ELSE 0
  <2>a. x - 1 \in 0 .. Outputs /\ Outputs \in 0 .. Outputs
    BY <1>0
  <2>b. off[x - 1] \in Nat /\ off[Outputs] \in Nat
    BY <1>6, <2>a
  <2>0. PICK a \in Nat, b \in Nat : a = off[x - 1] /\ b = off[Outputs] /\ b = Len(rows)
    BY <1>6, <2>b, Zenon
  <2>1. off[x] = a + Len(ss[x])
    BY <1>0, <1>6, <2>0
  <2>2. CASE Len(ss[x]) = 1
    <3>1. 1 \in 1 .. Len(ss[x])
      BY <2>2
    <3>2. a + 1 \in 1 .. b /\ rows[a + 1] = ss[x][1]
      BY <1>0, <1>6, <2>0, <3>1
    <3>3. ss[x][1][1] = x
      BY <1>5, <3>1
    <3>4. Meets(rows, a, x)
      <4>1. a < Len(rows)
        BY <2>0, <3>2
      <4> QED BY <3>2, <3>3, <4>1 DEF Meets
    <3> QED BY <2>0, <2>1, <2>2, <3>4, Zenon
  <2>3. CASE Len(ss[x]) = 0
    <3>1. ~Meets(rows, a, x)
      <4> SUFFICES ASSUME a < Len(rows), rows[a + 1][1] = x PROVE FALSE
        BY DEF Meets
      <4>1. a + 1 \in 1 .. b
        BY <2>0
      <4>2. PICK i \in 1 .. Outputs : \E k \in 1 .. Len(ss[i]) : a + 1 = off[i - 1] + k
        BY <1>6, <2>0, <4>1, Zenon
      <4>3. PICK k \in 1 .. Len(ss[i]) : a + 1 = off[i - 1] + k
        BY <4>2
      <4>4. rows[a + 1] = ss[i][k] /\ ss[i][k][1] = i
        <5>1. rows[off[i - 1] + k] = ss[i][k]
          BY <1>6, <4>3, Zenon
        <5>2. ss[i][k][1] = i
          BY <1>0, <1>5, Zenon
        <5> QED BY <4>3, <5>1, <5>2, Zenon
      <4>5. i = x
        BY <4>4
      <4> QED BY <2>3, <4>3, <4>5
    <3>2. off[x] = a
      BY <2>0, <2>1, <2>3
    <3>3. a = a + 0
      BY <2>0
    <3> QED BY <2>0, <2>3, <3>1, <3>2, <3>3
  <2> QED BY <1>5, <2>2, <2>3
<1>8. \A x \in 0 .. Outputs : used[x] = off[x]
  <2> DEFINE T == {i \in Nat : i \in 0 .. Outputs => used[i] = off[i]}
  <2>1. 0 \in T
    BY <1>4, <1>6 DEF Walks
  <2>2. ASSUME NEW i \in Nat, i \in T PROVE i + 1 \in T
    <3>1. CASE i + 1 \in 0 .. Outputs
      <4>1. i + 1 \in Output /\ i \in 0 .. Outputs /\ (i + 1) - 1 = i
        BY <1>0, <3>1
      <4>2. used[i + 1] = used[i] + IF Meets(rows, used[i], i + 1) THEN 1 ELSE 0
        BY <1>4, <4>1, Zenon DEF Walks
      <4>3. off[i + 1] = off[i] + IF Meets(rows, off[i], i + 1) THEN 1 ELSE 0
        BY <1>7, <4>1, Zenon
      <4>4. used[i] = off[i]
        BY <2>2, <4>1
      <4>5. used[i + 1] = off[i + 1]
        <5>1. PICK u : u = used[i]
          OBVIOUS
        <5>2. used[i + 1] = u + IF Meets(rows, u, i + 1) THEN 1 ELSE 0
          BY <4>2, <5>1, Zenon
        <5>3. off[i + 1] = u + IF Meets(rows, u, i + 1) THEN 1 ELSE 0
          BY <4>3, <4>4, <5>1, Zenon
        <5>4. PICK y : y = u + IF Meets(rows, u, i + 1) THEN 1 ELSE 0
          OBVIOUS
        <5>5. used[i + 1] = y
          BY <5>2, <5>4, Zenon
        <5>6. off[i + 1] = y
          BY <5>3, <5>4, Zenon
        <5> QED BY <5>5, <5>6, Zenon
      <4> QED BY <4>5
    <3> QED BY <3>1
  <2> HIDE DEF T
  <2>3. \A i \in Nat : i \in T
    BY <2>1, <2>2, Induct
  <2> QED BY <2>3 DEF T
<1>9. RouteInfo(r)[o] = RouteStat(r, o, IF Meets(rows, used[o - 1], o) THEN rows[used[o]][2] ELSE 0)
  BY <1>1 DEF RouteInfo
<1>10. used[o - 1] = off[o - 1] /\ used[o] = off[o]
  BY <1>0, <1>8
<1>11. RouteInfo(r)[o].input = IF Len(ss[o]) = 1 THEN rows[off[o]][2] ELSE 0
  <2>1. RouteInfo(r)[o] = RouteStat(r, o, IF Len(ss[o]) = 1 THEN rows[off[o]][2] ELSE 0)
    <3>1. CASE Len(ss[o]) = 1
      <4>1. Meets(rows, used[o - 1], o)
        BY <1>7, <1>10, <3>1, Zenon
      <4> QED BY <1>9, <1>10, <3>1, <4>1, Zenon
    <3>2. CASE Len(ss[o]) # 1
      <4>1. ~Meets(rows, used[o - 1], o)
        BY <1>7, <1>10, <3>2, Zenon
      <4> QED BY <1>9, <3>2, <4>1, Zenon
    <3> QED BY <3>1, <3>2
  <2> QED BY <2>1 DEF RouteStat
<1>12. Len(ss[o]) = 1 => rows[off[o]][2] \in Feeding(r, o)
  <2> SUFFICES ASSUME Len(ss[o]) = 1 PROVE rows[off[o]][2] \in Feeding(r, o)
    OBVIOUS
  <2>0. off[o] = off[o - 1] + Len(ss[o])
    BY <1>0, <1>6, Zenon
  <2>1. 1 \in 1 .. Len(ss[o]) /\ off[o] = off[o - 1] + 1
    BY <2>0
  <2>2. rows[off[o - 1] + 1] = ss[o][1]
    BY <1>0, <1>6, <2>1
  <2> QED BY <1>5, <2>1, <2>2
<1> SUFFICES ASSUME NEW d \in Dest, <<r, o, d>> \in Destinations
    PROVE IF route[d] = NullStream \/ ~\E w \in Sources : w[1] = r /\ w[3] = route[d]
            THEN RouteInfo(r)[o].input = 0
            ELSE <<r, RouteInfo(r)[o].input, route[d]>> \in Sources
  BY DEF Right
<1>13. Feeding(r, o) = IF route[d] = NullStream THEN {} ELSE Matches(r, route[d])
  BY FeedingFacts
<1>14. \A i : i \in Matches(r, route[d]) <=> <<r, i, route[d]>> \in Sources
  BY MatchesFacts
<1>15. Matches(r, route[d]) = {} <=> ~\E w \in Sources : w[1] = r /\ w[3] = route[d]
  BY DEF Matches
<1> QED BY <1>5, <1>11, <1>12, <1>13, <1>14, <1>15

-----------------------------------------------------------------------------
(* Questions and lines.                                                    *)

LEMMA RoundFacts ==
  /\ Round[1] = "Login" /\ Round[2] = "RouterNames" /\ Round[3] = "SourceNames"
  /\ Round[4] = "DestNames" /\ Round[5] = "SnapshotNames" /\ Round[6] = "RouteStat"
  /\ List[1] = "RouterNames" /\ List[2] = "SourceNames"
  /\ List[3] = "DestNames" /\ List[4] = "SnapshotNames"
  /\ DOMAIN List = 1 .. 4 /\ Len(List) = 4
  /\ Range(List) = {"RouterNames", "SourceNames", "DestNames", "SnapshotNames"}
<1>1. /\ List[1] = "RouterNames" /\ List[2] = "SourceNames"
      /\ List[3] = "DestNames" /\ List[4] = "SnapshotNames"
      /\ DOMAIN List = 1 .. 4 /\ Len(List) = 4
  BY DEF List
<1>2. \A k \in 1 .. 4 : k \in {1, 2, 3, 4}
  OBVIOUS
<1>3. {1, 2, 3, 4} = 1 .. 4
  OBVIOUS
<1>4. Range(List) = {List[k] : k \in {1, 2, 3, 4}}
  BY <1>1, <1>3 DEF Range
<1>5. Range(List) = {"RouterNames", "SourceNames", "DestNames", "SnapshotNames"}
  BY <1>1, <1>4
<1> QED BY <1>1, <1>5 DEF Round

LEMMA StatsAreLines == StatLines \subseteq Line
BY DEF StatLines, Line

\* What a line of a list has.
LEMMA LineFacts ==
  ASSUME NEW l \in Line, Listed(l)
  PROVE  /\ Number(l) \in Nat
         /\ \/ l.line = "Login" /\ Number(l) = 0
            \/ /\ l.line \in {"Begin", "Names", "End"}
               /\ l.list \in Range(List) /\ l.router \in Router \cup {0} /\ l.router \in Nat
<1>1. Router \subseteq Nat
  BY SaAssumption
<1>2. CASE l \in [line : {"Login"}]
  BY <1>2 DEF Number
<1>3. CASE l \in [line : {"Begin", "Names", "End"}, list : Range(List), router : Router \cup {0}]
  <2>a. PICK L, R : L = Range(List) /\ R = Router \cup {0}
    OBVIOUS
  <2>b. R \subseteq Nat
    BY <1>1, <2>a
  <2>c. l \in [line : {"Begin", "Names", "End"}, list : L, router : R]
    BY <1>3, <2>a, Zenon
  <2>d. l.line \in {"Begin", "Names", "End"} /\ l.list \in L /\ l.router \in R
    BY <2>c
  <2>1. /\ l.line \in {"Begin", "Names", "End"}
        /\ l.list \in Range(List) /\ l.router \in Router \cup {0} /\ l.router \in Nat
    BY <2>a, <2>b, <2>d, Zenon
  <2> QED BY <2>1 DEF Number
<1>4. CASE l \in [line : {"RouteStat"}, router : Router, output : Output, input : Nat]
  BY <1>4 DEF Listed
<1> QED BY <1>2, <1>3, <1>4 DEF Line

LEMMA StatLineFacts ==
  ASSUME NEW l \in Line, ~Listed(l)
  PROVE  l \in StatLines
BY DEF Line, Listed, StatLines

LEMMA CommandFacts ==
  ASSUME NEW c \in Command
  PROVE  /\ c.cmd \in {"Login", "RouterNames", "SourceNames", "DestNames", "SnapshotNames",
                       "RouteStat"}
         /\ c.cmd \notin {"Login", "RouterNames"} => c.router \in Router
         /\ Whose(c) \in Nat
         /\ Answers(c) \subseteq Nat
         /\ c.cmd = "Login" => Answers(c) = {0}
         /\ c.cmd = "RouteStat" => Answers(c) = {}
         /\ c.cmd \notin {"Login", "RouteStat"} => Answers(c) = OfRouter(Whose(c))
<1>1. Router \subseteq Nat
  BY SaAssumption
<1>2. CASE c \in [cmd : {"Login", "RouterNames"}]
  <2>1. CASE c.cmd = "Login"
    BY <2>1 DEF Whose, Answers
  <2>2. CASE c.cmd = "RouterNames"
    <3>1. Answers(c) = 0 .. 2 /\ Whose(c) = 0
      BY <2>2 DEF Whose, Answers
    <3>2. OfRouter(0) = 0 .. 2
      BY DEF OfRouter
    <3>3. 0 .. 2 \subseteq Nat
      OBVIOUS
    <3> QED BY <2>2, <3>1, <3>2, <3>3
  <2> QED BY <1>2, <2>1, <2>2
<1>3. CASE c \in [cmd : {"SourceNames", "DestNames", "SnapshotNames", "RouteStat"},
                  router : Router]
  <2>1. c.cmd \in {"SourceNames", "DestNames", "SnapshotNames", "RouteStat"}
        /\ c.router \in Router /\ c.router \in Nat
    BY <1>1, <1>3
  <2> QED BY <2>1 DEF Whose, Answers, OfRouter
<1> QED BY <1>2, <1>3 DEF Command

LEMMA NumbersOf ==
  ASSUME NEW lines, NEW x
  PROVE  x \in Numbers(lines)
           <=> \E k \in DOMAIN lines : Listed(lines[k]) /\ x = Number(lines[k])
BY DEF Numbers

LEMMA AskedOf ==
  ASSUME NEW questions, NEW x
  PROVE  x \in Asked(questions) <=> \E k \in DOMAIN questions : x \in Answers(questions[k])
BY DEF Asked

\* Reports have no numbers.
LEMMA StatsNumbers ==
  ASSUME NEW t \in Seq(StatLines)
  PROVE  /\ t \in Seq(Line) /\ Numbers(t) = {} /\ InTurn(t)
         /\ \A k \in DOMAIN t : ~Listed(t[k]) /\ \A n : Belongs(t[k], n)
<1>0. \A k \in DOMAIN t : t[k] \in StatLines
  OBVIOUS
<1>a. \A l \in StatLines : l.line = "RouteStat"
  BY DEF StatLines
<1>1. \A k \in DOMAIN t : t[k] \in StatLines /\ t[k].line = "RouteStat"
  BY <1>0, <1>a
<1>2. \A k \in DOMAIN t : ~Listed(t[k])
  BY <1>1 DEF Listed
<1> QED BY <1>2, StatsAreLines DEF Belongs, InTurn, Numbers

\* What the answer to a question of round n is.
IsAnswer(t, c, n) ==
  /\ t \in Seq(Line)
  /\ \A k \in DOMAIN t : Belongs(t[k], n)
  /\ InTurn(t)
  /\ Numbers(t) = Answers(c)

LEMMA ListingAnswers ==
  ASSUME NEW c \in Command, NEW n \in 2 .. 5, c.cmd = Round[n]
  PROVE  IsAnswer(Listing(c.cmd, Whose(c)), c, n)
<1>1. PICK r \in Nat : r = Whose(c) /\ r \in Router \cup {0}
  <2>1. Whose(c) \in Nat /\ Whose(c) \in Router \cup {0}
    BY CommandFacts DEF Whose
  <2> QED BY <2>1
<1>2. PICK l : l = c.cmd /\ l \in Range(List) /\ l = Round[n]
  <2>1. n \in {2, 3, 4, 5}
    OBVIOUS
  <2>2. c.cmd \in Range(List)
    BY <2>1, RoundFacts
  <2> QED BY <2>2
<1>3. PICK t : t = Listing(l, r)
  OBVIOUS
<1>4. t = [k \in 1 .. 3 |-> [line |-> <<"Begin", "Names", "End">>[k], list |-> l, router |-> r]]
  BY <1>3 DEF Listing
<1>5. ASSUME NEW k \in 1 .. 3
      PROVE  /\ t[k] \in Line /\ t[k].list = l /\ t[k].router = r
             /\ t[k].line = <<"Begin", "Names", "End">>[k]
             /\ t[k].line \in {"Begin", "Names", "End"}
  <2>1. PICK x : x = <<"Begin", "Names", "End">>[k]
    OBVIOUS
  <2>2. x \in {"Begin", "Names", "End"}
    BY <2>1
  <2>3. t[k] = [line |-> x, list |-> l, router |-> r]
    BY <1>4, <2>1
  <2>4. t[k] \in [line : {"Begin", "Names", "End"}, list : Range(List), router : Router \cup {0}]
    BY <1>1, <1>2, <2>2, <2>3
  <2> QED BY <2>1, <2>2, <2>3, <2>4 DEF Line
<1>6. t \in Seq(Line) /\ DOMAIN t = 1 .. 3
  <2>a. t = [k \in 1 .. 3 |-> t[k]]
    BY <1>4
  <2>b. \A k \in 1 .. 3 : t[k] \in Line
    BY <1>5
  <2>1. t \in [1 .. 3 -> Line]
    BY <2>a, <2>b
  <2>2. PICK m \in Nat : m = 3
    OBVIOUS
  <2>c. PICK S : S = Line
    OBVIOUS
  <2>3. t \in [1 .. m -> S]
    BY <2>1, <2>2, <2>c, Zenon
  <2>4. t \in Seq(S) /\ DOMAIN t = 1 .. m
    BY <2>3
  <2> QED BY <2>2, <2>c, <2>4, Zenon
<1>7. \A k \in 1 .. 3 : Listed(t[k]) /\ Number(t[k]) = 3 * r + k - 1
  <2> SUFFICES ASSUME NEW k \in 1 .. 3 PROVE Listed(t[k]) /\ Number(t[k]) = 3 * r + k - 1
    OBVIOUS
  <2>1. CASE k = 1
    BY <1>5, <2>1 DEF Listed, Number
  <2>2. CASE k = 2
    BY <1>5, <2>2 DEF Listed, Number
  <2>3. CASE k = 3
    BY <1>5, <2>3 DEF Listed, Number
  <2> QED BY <2>1, <2>2, <2>3
<1>8. \A k \in 1 .. 3 : Belongs(t[k], n)
  BY <1>2, <1>5 DEF Belongs
<1>9. InTurn(t)
  BY <1>6, <1>7 DEF InTurn
<1>10. Numbers(t) = Answers(c)
  <2>1. Answers(c) = 3 * r .. 3 * r + 2
    <3>1. c.cmd \notin {"Login", "RouteStat"}
      BY <1>2, RoundFacts
    <3> QED BY <1>1, <3>1, CommandFacts DEF OfRouter
  <2>2. \A x : x \in Numbers(t) <=> \E k \in 1 .. 3 : x = 3 * r + k - 1
    BY <1>6, <1>7, NumbersOf
  <2>3. \A x \in Numbers(t) : x \in 3 * r .. 3 * r + 2
    BY <2>2
  <2>4. ASSUME NEW x \in 3 * r .. 3 * r + 2 PROVE x \in Numbers(t)
    <3>1. x - 3 * r + 1 \in 1 .. 3 /\ x = 3 * r + (x - 3 * r + 1) - 1
      OBVIOUS
    <3> QED BY <2>2, <3>1
  <2> QED BY <2>1, <2>3, <2>4
<1>11. IsAnswer(t, c, n)
  BY <1>6, <1>8, <1>9, <1>10 DEF IsAnswer
<1> QED BY <1>1, <1>2, <1>3, <1>11

LEMMA AnswerFacts ==
  ASSUME NEW c \in Command, NEW n \in 1 .. 6, c.cmd = Round[n], route \in [Dest -> Signal]
  PROVE  IsAnswer(Answer(c), c, n)
<1>1. CASE n = 1
  <2>1. c.cmd = "Login"
    BY <1>1, RoundFacts
  <2>2. PICK x : x = [line |-> "Login"]
    OBVIOUS
  <2>3. Answer(c) = <<x>>
    BY <2>1, <2>2 DEF Answer
  <2>4. x \in Line /\ Listed(x) /\ Number(x) = 0 /\ Belongs(x, 1)
    BY <2>2 DEF Line, Listed, Number, Belongs
  <2>5. PICK t : t = <<x>>
    OBVIOUS
  <2>6. t \in Seq(Line) /\ DOMAIN t = {1} /\ t[1] = x
    BY <2>4, <2>5
  <2>7. Numbers(t) = {0}
    BY <2>4, <2>6 DEF Numbers
  <2>8. Answers(c) = {0}
    BY <2>1, CommandFacts
  <2>9. InTurn(t) /\ \A k \in DOMAIN t : Belongs(t[k], 1)
    BY <2>4, <2>6 DEF InTurn
  <2> QED BY <1>1, <2>3, <2>5, <2>6, <2>7, <2>8, <2>9 DEF IsAnswer
<1>2. CASE n = 6
  <2>1. c.cmd = "RouteStat" /\ c.router \in Router
    BY <1>2, RoundFacts, CommandFacts
  <2>2. Answer(c) = RouteInfo(c.router)
    BY <2>1 DEF Answer
  <2>3. PICK t : t = RouteInfo(c.router) /\ t \in Seq(StatLines)
    BY <2>1, RouteInfoFacts
  <2>4. Answers(c) = {}
    BY <2>1, CommandFacts
  <2>5. /\ t \in Seq(Line) /\ Numbers(t) = {} /\ InTurn(t)
        /\ \A k \in DOMAIN t : Belongs(t[k], n)
    BY <2>3, StatsNumbers
  <2>6. IsAnswer(t, c, n)
    BY <2>4, <2>5 DEF IsAnswer
  <2> QED BY <2>2, <2>3, <2>6
<1>3. CASE n \in 2 .. 5
  <2>1. n \in {2, 3, 4, 5}
    BY <1>3
  <2>2. c.cmd \in {"RouterNames", "SourceNames", "DestNames", "SnapshotNames"}
    BY <2>1, RoundFacts
  <2>3. Answer(c) = Listing(c.cmd, Whose(c))
    BY <2>2 DEF Answer, Whose
  <2> QED BY <1>3, <2>3, ListingAnswers
<1> QED BY <1>1, <1>2, <1>3

LEMMA FirstAndRest ==
  ASSUME NEW S, NEW s \in Seq(S), s # <<>>
  PROVE  /\ Tail(s) \in Seq(S) /\ Len(s) \in Nat \ {0}
         /\ DOMAIN s = 1 .. Len(s) /\ DOMAIN Tail(s) = 1 .. Len(s) - 1
         /\ Head(s) = s[1] /\ Head(s) \in S
         /\ \A k \in 1 .. Len(s) - 1 : Tail(s)[k] = s[k + 1]
<1>1. /\ Len(s) \in Nat \ {0} /\ DOMAIN s = 1 .. Len(s) /\ Head(s) = s[1] /\ Head(s) \in S
  OBVIOUS
<1>2. Tail(s) \in Seq(S)
  OBVIOUS
<1>3. Len(Tail(s)) = Len(s) - 1
  OBVIOUS
<1>4. DOMAIN Tail(s) = 1 .. Len(s) - 1
  BY <1>2, <1>3
<1>5. \A k \in 1 .. Len(s) - 1 : Tail(s)[k] = s[k + 1]
  OBVIOUS
<1> QED BY <1>1, <1>2, <1>4, <1>5

LEMMA NumbersJoined ==
  ASSUME NEW s \in Seq(Line), NEW t \in Seq(Line)
  PROVE  /\ s \o t \in Seq(Line)
         /\ Numbers(s \o t) = Numbers(s) \cup Numbers(t)
         /\ InTurn(s) /\ InTurn(t) /\ (\A i \in Numbers(s), j \in Numbers(t) : i < j)
              => InTurn(s \o t)
         /\ \A n : (\A k \in DOMAIN s : Belongs(s[k], n)) /\ (\A k \in DOMAIN t : Belongs(t[k], n))
              => \A k \in DOMAIN (s \o t) : Belongs((s \o t)[k], n)
<1>0. PICK u : u = s \o t
  OBVIOUS
<1>a. PICK a \in Nat, b \in Nat : a = Len(s) /\ b = Len(t)
  OBVIOUS
<1>1. u = s \o t /\ a = Len(s) /\ b = Len(t)
  BY <1>0, <1>a
<1>2. /\ u \in Seq(Line) /\ DOMAIN u = 1 .. a + b /\ DOMAIN s = 1 .. a /\ DOMAIN t = 1 .. b
      /\ (\A i \in 1 .. a : u[i] = s[i]) /\ (\A i \in 1 .. b : u[a + i] = t[i])
  <2>1. /\ s \o t \in Seq(Line) /\ Len(s \o t) = Len(s) + Len(t)
        /\ \A i \in 1 .. Len(s) : (s \o t)[i] = s[i]
        /\ \A i \in 1 .. Len(t) : (s \o t)[Len(s) + i] = t[i]
    BY Joined2
  <2>2. /\ u \in Seq(Line) /\ Len(u) = a + b
        /\ (\A i \in 1 .. a : u[i] = s[i]) /\ (\A i \in 1 .. b : u[a + i] = t[i])
    BY <1>1, <2>1, Zenon
  <2>3. DOMAIN u = 1 .. a + b /\ DOMAIN s = 1 .. a /\ DOMAIN t = 1 .. b
    BY <1>1, <2>2
  <2> QED BY <2>2, <2>3
<1>3. \A k \in 1 .. a + b : k \in 1 .. a \/ (k - a \in 1 .. b /\ k = a + (k - a))
  OBVIOUS
<1>4. \A k \in 1 .. b : a + k \in 1 .. a + b
  OBVIOUS
<1>5. 1 .. a \subseteq 1 .. a + b
  OBVIOUS
<1>6. \A k \in 1 .. a + b : (k \in 1 .. a /\ u[k] = s[k])
                            \/ (k - a \in 1 .. b /\ u[k] = t[k - a])
  BY <1>2, <1>3, Zenon
<1>7. Numbers(u) = Numbers(s) \cup Numbers(t)
  <2>1. ASSUME NEW x \in Numbers(u) PROVE x \in Numbers(s) \cup Numbers(t)
    <3>1. PICK k \in 1 .. a + b : Listed(u[k]) /\ x = Number(u[k])
      BY <1>2, NumbersOf
    <3>2. CASE k \in 1 .. a /\ u[k] = s[k]
      <4>1. x \in Numbers(s)
        BY <1>2, <3>1, <3>2, NumbersOf, Zenon
      <4> QED BY <4>1
    <3>3. CASE k - a \in 1 .. b /\ u[k] = t[k - a]
      <4>1. x \in Numbers(t)
        BY <1>2, <3>1, <3>3, NumbersOf, Zenon
      <4> QED BY <4>1
    <3> QED BY <1>6, <3>2, <3>3
  <2>2. ASSUME NEW x \in Numbers(s) PROVE x \in Numbers(u)
    <3>1. PICK k \in 1 .. a : Listed(s[k]) /\ x = Number(s[k])
      BY <1>2, NumbersOf
    <3>2. k \in 1 .. a + b /\ u[k] = s[k]
      BY <1>2, <1>5
    <3> QED BY <1>2, <3>1, <3>2, NumbersOf, Zenon
  <2>3. ASSUME NEW x \in Numbers(t) PROVE x \in Numbers(u)
    <3>1. PICK k \in 1 .. b : Listed(t[k]) /\ x = Number(t[k])
      BY <1>2, NumbersOf
    <3>2. a + k \in 1 .. a + b /\ u[a + k] = t[k]
      BY <1>2, <1>4
    <3> QED BY <1>2, <3>1, <3>2, NumbersOf, Zenon
  <2> QED BY <2>1, <2>2, <2>3
<1>8. ASSUME InTurn(s), InTurn(t), \A i \in Numbers(s), j \in Numbers(t) : i < j
      PROVE  InTurn(u)
  <2> SUFFICES ASSUME NEW i \in 1 .. a + b, NEW j \in 1 .. a + b, i < j,
                      Listed(u[i]), Listed(u[j])
               PROVE  Number(u[i]) < Number(u[j])
    BY <1>2 DEF InTurn
  <2>1. CASE i \in 1 .. a /\ j \in 1 .. a
    <3>1. u[i] = s[i] /\ u[j] = s[j]
      BY <1>2, <2>1
    <3> QED BY <1>2, <1>8, <2>1, <3>1 DEF InTurn
  <2>2. CASE i \in 1 .. a /\ j \notin 1 .. a
    <3>1. u[i] = s[i] /\ j - a \in 1 .. b /\ u[j] = t[j - a]
      BY <1>2, <1>6, <2>2
    <3>2. Number(u[i]) \in Numbers(s)
      BY <1>2, <2>2, <3>1, NumbersOf, Zenon
    <3>3. Number(u[j]) \in Numbers(t)
      BY <1>2, <3>1, NumbersOf, Zenon
    <3> QED BY <1>8, <3>2, <3>3
  <2>3. CASE i \notin 1 .. a
    <3>1. j \notin 1 .. a
      BY <2>3
    <3>2. i - a \in 1 .. b /\ u[i] = t[i - a] /\ j - a \in 1 .. b /\ u[j] = t[j - a]
      BY <1>6, <2>3, <3>1
    <3>3. i - a < j - a
      OBVIOUS
    <3>4. Listed(t[i - a]) /\ Listed(t[j - a])
      BY <3>2, Zenon
    <3>5. Number(t[i - a]) < Number(t[j - a])
      BY <1>2, <1>8, <3>2, <3>3, <3>4, Zenon DEF InTurn
    <3> QED BY <3>2, <3>5, Zenon
  <2> QED BY <2>1, <2>2, <2>3
<1>9. ASSUME NEW n, \A k \in DOMAIN s : Belongs(s[k], n), \A k \in DOMAIN t : Belongs(t[k], n)
      PROVE  \A k \in DOMAIN u : Belongs(u[k], n)
  BY <1>2, <1>6, <1>9, Zenon
<1> QED BY <1>1, <1>2, <1>7, <1>8, <1>9, Zenon

LEMMA NumbersTail ==
  ASSUME NEW s \in Seq(Line), s # <<>>
  PROVE  /\ Tail(s) \in Seq(Line) /\ Head(s) \in Line
         /\ Numbers(s) = Numbers(Tail(s)) \cup IF Listed(Head(s)) THEN {Number(Head(s))} ELSE {}
         /\ InTurn(s) => /\ InTurn(Tail(s))
                         /\ Listed(Head(s)) => \A i \in Numbers(Tail(s)) : Number(Head(s)) < i
         /\ \A n : (\A k \in DOMAIN s : Belongs(s[k], n))
              => /\ Belongs(Head(s), n)
                 /\ \A k \in DOMAIN Tail(s) : Belongs(Tail(s)[k], n)
<1>0. PICK t, h : t = Tail(s) /\ h = Head(s)
  OBVIOUS
<1>a. PICK a \in Nat : a = Len(s)
  OBVIOUS
<1>1. t = Tail(s) /\ h = Head(s) /\ a = Len(s)
  BY <1>0, <1>a
<1>2. /\ t \in Seq(Line) /\ a # 0 /\ DOMAIN s = 1 .. a /\ DOMAIN t = 1 .. a - 1
      /\ h = s[1] /\ h \in Line /\ 1 \in 1 .. a
      /\ \A k \in 1 .. a - 1 : t[k] = s[k + 1] /\ k + 1 \in 1 .. a
  <2>1. /\ t \in Seq(Line) /\ a # 0 /\ DOMAIN s = 1 .. a /\ DOMAIN t = 1 .. a - 1
        /\ h = s[1] /\ h \in Line
        /\ \A k \in 1 .. a - 1 : t[k] = s[k + 1]
    BY <1>1, FirstAndRest
  <2>2. 1 \in 1 .. a /\ \A k \in 1 .. a - 1 : k + 1 \in 1 .. a
    BY <2>1
  <2> QED BY <2>1, <2>2
<1>3. \A k \in 1 .. a : k = 1 \/ (k - 1 \in 1 .. a - 1 /\ s[k] = t[k - 1])
  <2> SUFFICES ASSUME NEW k \in 1 .. a, k # 1 PROVE k - 1 \in 1 .. a - 1 /\ s[k] = t[k - 1]
    OBVIOUS
  <2>1. k - 1 \in 1 .. a - 1 /\ (k - 1) + 1 = k
    OBVIOUS
  <2> QED BY <1>2, <2>1
<1>4. \A x \in Numbers(t) : \E k \in 1 .. a - 1 : Listed(s[k + 1]) /\ x = Number(s[k + 1])
  BY <1>2, NumbersOf
<1>5. \A x \in Numbers(t) : x \in Numbers(s)
  <2> SUFFICES ASSUME NEW x \in Numbers(t) PROVE x \in Numbers(s)
    OBVIOUS
  <2>1. PICK k \in 1 .. a - 1 : Listed(s[k + 1]) /\ x = Number(s[k + 1])
    BY <1>4
  <2> QED BY <1>2, <2>1, NumbersOf, Zenon
<1>6. Numbers(s) = Numbers(t) \cup IF Listed(h) THEN {Number(h)} ELSE {}
  <2>1. \A x \in Numbers(s) : x \in Numbers(t) \/ (Listed(h) /\ x = Number(h))
    <3> SUFFICES ASSUME NEW x \in Numbers(s)
                 PROVE  x \in Numbers(t) \/ (Listed(h) /\ x = Number(h))
      OBVIOUS
    <3>1. PICK k \in 1 .. a : Listed(s[k]) /\ x = Number(s[k])
      BY <1>2, NumbersOf
    <3>2. CASE k = 1
      BY <1>2, <3>1, <3>2
    <3>3. CASE k # 1
      <4>1. k - 1 \in 1 .. a - 1 /\ s[k] = t[k - 1]
        BY <1>3, <3>3
      <4>2. x \in Numbers(t)
        BY <1>2, <3>1, <4>1, NumbersOf, Zenon
      <4> QED BY <4>2
    <3> QED BY <3>2, <3>3
  <2>2. Listed(h) => Number(h) \in Numbers(s)
    BY <1>2, NumbersOf, Zenon
  <2> QED BY <1>5, <2>1, <2>2
<1>7. ASSUME InTurn(s)
      PROVE  InTurn(t) /\ (Listed(h) => \A i \in Numbers(t) : Number(h) < i)
  <2>1. ASSUME NEW i \in 1 .. a - 1, NEW j \in 1 .. a - 1, i < j, Listed(t[i]), Listed(t[j])
        PROVE  Number(t[i]) < Number(t[j])
    <3>1. t[i] = s[i + 1] /\ t[j] = s[j + 1] /\ i + 1 \in 1 .. a /\ j + 1 \in 1 .. a
      BY <1>2
    <3>2. i + 1 < j + 1
      BY <2>1
    <3>3. Number(s[i + 1]) < Number(s[j + 1])
      BY <1>2, <1>7, <2>1, <3>1, <3>2, Zenon DEF InTurn
    <3> QED BY <3>1, <3>3, Zenon
  <2>2. ASSUME Listed(h), NEW x \in Numbers(t) PROVE Number(h) < x
    <3>1. PICK k \in 1 .. a - 1 : Listed(s[k + 1]) /\ x = Number(s[k + 1])
      BY <1>4
    <3>2. 1 < k + 1 /\ k + 1 \in 1 .. a
      BY <1>2
    <3> QED BY <1>2, <1>7, <2>2, <3>1, <3>2, Zenon DEF InTurn
  <2> QED BY <1>2, <2>1, <2>2 DEF InTurn
<1>8. ASSUME NEW n, \A k \in DOMAIN s : Belongs(s[k], n)
      PROVE  Belongs(h, n) /\ \A k \in DOMAIN t : Belongs(t[k], n)
  BY <1>2, <1>8, Zenon
<1> QED BY <1>1, <1>2, <1>6, <1>7, <1>8, Zenon

LEMMA AskedTail ==
  ASSUME NEW q \in Seq(Command), q # <<>>
  PROVE  /\ Tail(q) \in Seq(Command) /\ Head(q) \in Command
         /\ Asked(q) = Answers(Head(q)) \cup Asked(Tail(q))
<1>0. PICK t, h : t = Tail(q) /\ h = Head(q)
  OBVIOUS
<1>a. PICK a \in Nat : a = Len(q)
  OBVIOUS
<1>1. t = Tail(q) /\ h = Head(q) /\ a = Len(q)
  BY <1>0, <1>a
<1>2. /\ t \in Seq(Command) /\ a # 0 /\ DOMAIN q = 1 .. a /\ DOMAIN t = 1 .. a - 1
      /\ h = q[1] /\ h \in Command
      /\ \A k \in 1 .. a - 1 : t[k] = q[k + 1]
  BY <1>1, FirstAndRest
<1>3. ASSUME NEW x PROVE x \in Asked(q) <=> x \in Answers(h) \/ x \in Asked(t)
  <2>1. ASSUME x \in Asked(q) PROVE x \in Answers(h) \/ x \in Asked(t)
    <3>1. PICK k \in 1 .. a : x \in Answers(q[k])
      BY <1>2, <2>1, AskedOf
    <3>2. CASE k = 1
      BY <1>2, <3>1, <3>2
    <3>3. CASE k # 1
      <4>1. k - 1 \in 1 .. a - 1 /\ (k - 1) + 1 = k
        BY <3>3
      <4>2. t[k - 1] = q[k]
        BY <1>2, <4>1
      <4> QED BY <1>2, <3>1, <4>1, <4>2, AskedOf, Zenon
    <3> QED BY <3>2, <3>3
  <2>2. ASSUME x \in Answers(h) PROVE x \in Asked(q)
    <3>1. 1 \in 1 .. a
      BY <1>2
    <3> QED BY <1>2, <2>2, <3>1, AskedOf, Zenon
  <2>3. ASSUME x \in Asked(t) PROVE x \in Asked(q)
    <3>1. PICK k \in 1 .. a - 1 : x \in Answers(t[k])
      BY <1>2, <2>3, AskedOf
    <3>2. k + 1 \in 1 .. a /\ t[k] = q[k + 1]
      BY <1>2
    <3> QED BY <1>2, <3>1, <3>2, AskedOf, Zenon
  <2> QED BY <2>1, <2>2, <2>3
<1>4. Asked(q) = Answers(h) \cup Asked(t)
  BY <1>3
<1> QED BY <1>1, <1>2, <1>4, Zenon

-----------------------------------------------------------------------------
(* What happens to the questions and lines under way.                      *)

LEMMA AllFacts ==
  ASSUME NEW n \in 1 .. 6
  PROVE  /\ All(n) \subseteq Nat
         /\ n = 1 => All(n) = {0}
         /\ n = 2 => All(n) = 0 .. 2
         /\ n \in 3 .. 5 => All(n) = UNION {OfRouter(r) : r \in Router}
         /\ n = 6 => All(n) = {}
<1>1. \A r \in Router : OfRouter(r) \subseteq Nat
  BY SaAssumption DEF OfRouter
<1>2. OfRouter(0) = 0 .. 2
  BY DEF OfRouter
<1>3. n = 2 => All(n) = 0 .. 2
  BY <1>2 DEF All
<1>4. n \in 3 .. 5 => All(n) = UNION {OfRouter(r) : r \in Router}
  BY DEF All
<1>5. (n = 1 => All(n) = {0}) /\ (n = 6 => All(n) = {})
  BY DEF All
<1>6. n = 1 \/ n = 2 \/ n \in 3 .. 5 \/ n = 6
  OBVIOUS
<1> QED BY <1>1, <1>3, <1>4, <1>5, <1>6

\* Reports change nothing.
LEMMA ReportsUnderWay ==
  ASSUME NEW q, NEW s \in Seq(Line), NEW n, NEW m, UnderWay(q, s, n, m),
         NEW t \in Seq(StatLines)
  PROVE  UnderWay(q, s \o t, n, m)
<1>1. /\ t \in Seq(Line) /\ Numbers(t) = {} /\ InTurn(t)
      /\ \A k \in DOMAIN t : Belongs(t[k], n)
  BY StatsNumbers
<1>2. /\ \A k \in DOMAIN q : q[k].cmd = Round[n]
      /\ \A i, j \in DOMAIN q : i < j => Whose(q[i]) < Whose(q[j])
      /\ \A k \in DOMAIN s : Belongs(s[k], n)
      /\ InTurn(s)
      /\ \A i \in Numbers(s), j \in Asked(q) : i < j
      /\ Numbers(s) \cup Asked(q) = {i \in All(n) : i >= m}
  BY Zenon DEF UnderWay
<1>3. PICK u : u = s \o t
  OBVIOUS
<1>4. /\ Numbers(u) = Numbers(s) /\ InTurn(u)
      /\ \A k \in DOMAIN u : Belongs(u[k], n)
  <2>1. Numbers(u) = Numbers(s) \cup Numbers(t)
    BY <1>1, <1>3, NumbersJoined, Zenon
  <2>2. \A i \in Numbers(s), j \in Numbers(t) : i < j
    BY <1>1
  <2>3. InTurn(u)
    BY <1>1, <1>2, <1>3, <2>2, NumbersJoined, Zenon
  <2>4. \A k \in DOMAIN u : Belongs(u[k], n)
    BY <1>1, <1>2, <1>3, NumbersJoined, Zenon
  <2> QED BY <1>1, <2>1, <2>3, <2>4
<1>5. UnderWay(q, u, n, m)
  BY <1>2, <1>4, Zenon DEF UnderWay
<1> QED BY <1>3, <1>5, Zenon

\* A question is answered.
LEMMA AnswerUnderWay ==
  ASSUME NEW q \in Seq(Command), q # <<>>, NEW s \in Seq(Line), NEW n \in 1 .. 6, NEW m,
         UnderWay(q, s, n, m), NEW t, IsAnswer(t, Head(q), n)
  PROVE  UnderWay(Tail(q), s \o t, n, m)
<1>1. PICK h, p : h = Head(q) /\ p = Tail(q)
  OBVIOUS
<1>a. PICK u : u = s \o t
  OBVIOUS
<1>b. PICK a \in Nat : a = Len(q)
  OBVIOUS
<1>2. /\ \A k \in DOMAIN q : q[k].cmd = Round[n]
      /\ \A i, j \in DOMAIN q : i < j => Whose(q[i]) < Whose(q[j])
      /\ \A k \in DOMAIN s : Belongs(s[k], n)
      /\ InTurn(s)
      /\ \A i \in Numbers(s), j \in Asked(q) : i < j
      /\ Numbers(s) \cup Asked(q) = {i \in All(n) : i >= m}
  BY Zenon DEF UnderWay
<1>3. /\ t \in Seq(Line) /\ InTurn(t) /\ Numbers(t) = Answers(h)
      /\ \A k \in DOMAIN t : Belongs(t[k], n)
  BY <1>1 DEF IsAnswer
<1>4. /\ p \in Seq(Command) /\ h \in Command /\ a # 0
      /\ DOMAIN q = 1 .. a /\ DOMAIN p = 1 .. a - 1 /\ h = q[1]
      /\ \A k \in 1 .. a - 1 : p[k] = q[k + 1] /\ k + 1 \in 1 .. a
  <2>1. /\ p \in Seq(Command) /\ h \in Command /\ a # 0
        /\ DOMAIN q = 1 .. a /\ DOMAIN p = 1 .. a - 1 /\ h = q[1]
        /\ \A k \in 1 .. a - 1 : p[k] = q[k + 1]
    BY <1>1, <1>b, FirstAndRest
  <2> QED BY <2>1
<1>5. Asked(q) = Answers(h) \cup Asked(p)
  BY <1>1, AskedTail
<1>6. Numbers(u) = Numbers(s) \cup Answers(h)
  BY <1>a, <1>3, NumbersJoined
<1>7. InTurn(u)
  <2>1. \A i \in Numbers(s), j \in Numbers(t) : i < j
    BY <1>2, <1>3, <1>5
  <2> QED BY <1>2, <1>3, <1>a, <2>1, NumbersJoined, Zenon
<1>8. \A k \in DOMAIN u : Belongs(u[k], n)
  BY <1>2, <1>3, <1>a, NumbersJoined, Zenon
<1>9. Numbers(u) \cup Asked(p) = {i \in All(n) : i >= m}
  BY <1>2, <1>5, <1>6
<1>10. \A i \in Answers(h), j \in Asked(p) : i < j
  <2> SUFFICES ASSUME NEW i \in Answers(h), NEW j \in Asked(p) PROVE i < j
    OBVIOUS
  <2>1. PICK k \in 1 .. a - 1 : j \in Answers(p[k])
    BY <1>4, AskedOf
  <2>2. PICK c \in Command : c = p[k] /\ c = q[k + 1]
    BY <1>4
  <2>3. c.cmd = Round[n] /\ h.cmd = Round[n] /\ Whose(h) < Whose(c)
    <3>1. 1 \in 1 .. a /\ k + 1 \in 1 .. a /\ 1 < k + 1
      BY <1>4
    <3> QED BY <1>2, <1>4, <2>2, <3>1, Zenon
  <2>4. PICK x \in Nat, y \in Nat : x = Whose(h) /\ y = Whose(c) /\ x < y
    BY <1>4, <2>3, CommandFacts
  <2>5. c.cmd # "Login"
    <3> SUFFICES ASSUME c.cmd = "Login" PROVE FALSE
      OBVIOUS
    <3>1. Whose(c) = 0 /\ Whose(h) = 0
      BY <2>3 DEF Whose
    <3> QED BY <2>4, <3>1
  <2>6. c.cmd # "RouteStat"
    BY <2>1, <2>2, CommandFacts
  <2>7. i \in OfRouter(x) /\ j \in OfRouter(y)
    BY <1>4, <2>1, <2>2, <2>3, <2>4, <2>5, <2>6, CommandFacts
  <2> QED BY <2>4, <2>7 DEF OfRouter
<1>11. \A i \in Numbers(u), j \in Asked(p) : i < j
  BY <1>2, <1>5, <1>6, <1>10
<1>12. \A k \in DOMAIN p : p[k].cmd = Round[n]
  BY <1>2, <1>4
<1>13. ASSUME NEW i \in DOMAIN p, NEW j \in DOMAIN p, i < j
       PROVE  Whose(p[i]) < Whose(p[j])
  <2>1. i + 1 \in 1 .. a /\ j + 1 \in 1 .. a /\ i + 1 < j + 1
        /\ p[i] = q[i + 1] /\ p[j] = q[j + 1]
    BY <1>4, <1>13
  <2> QED BY <1>2, <1>4, <2>1, Zenon
<1>14. UnderWay(p, u, n, m)
  BY <1>7, <1>8, <1>9, <1>11, <1>12, <1>13, Zenon DEF UnderWay
<1> QED BY <1>1, <1>a, <1>14, Zenon

\* A report is read.
LEMMA StatUnderWay ==
  ASSUME NEW q, NEW s \in Seq(Line), s # <<>>, NEW n, NEW m,
         UnderWay(q, s, n, m), ~Listed(Head(s))
  PROVE  UnderWay(q, Tail(s), n, m)
<1>1. PICK t, h : h = Head(s) /\ t = Tail(s)
  OBVIOUS
<1>2. /\ \A k \in DOMAIN q : q[k].cmd = Round[n]
      /\ \A i, j \in DOMAIN q : i < j => Whose(q[i]) < Whose(q[j])
      /\ \A k \in DOMAIN s : Belongs(s[k], n)
      /\ InTurn(s)
      /\ \A i \in Numbers(s), j \in Asked(q) : i < j
      /\ Numbers(s) \cup Asked(q) = {i \in All(n) : i >= m}
  BY Zenon DEF UnderWay
<1>3. /\ Numbers(s) = Numbers(t) /\ InTurn(t)
      /\ \A k \in DOMAIN t : Belongs(t[k], n)
  <2>1. Numbers(s) = Numbers(t) \cup IF Listed(h) THEN {Number(h)} ELSE {}
    BY <1>1, NumbersTail
  <2>2. InTurn(t) /\ \A k \in DOMAIN t : Belongs(t[k], n)
    BY <1>1, <1>2, NumbersTail, Zenon
  <2> QED BY <1>1, <2>1, <2>2
<1>4. UnderWay(q, t, n, m)
  BY <1>2, <1>3, Zenon DEF UnderWay
<1> QED BY <1>1, <1>4, Zenon

\* A line of a list is read: it has the least number under way.
LEMMA ListedUnderWay ==
  ASSUME NEW q \in Seq(Command), NEW s \in Seq(Line), s # <<>>, NEW n \in 1 .. 6,
         NEW m \in Nat, UnderWay(q, s, n, m), Listed(Head(s))
  PROVE  /\ Belongs(Head(s), n)
         /\ Number(Head(s)) \in All(n) /\ Number(Head(s)) >= m
         /\ \A i \in All(n) : i >= m => i >= Number(Head(s))
         /\ UnderWay(q, Tail(s), n, Number(Head(s)) + 1)
<1>1. PICK t, h : h = Head(s) /\ t = Tail(s)
  OBVIOUS
<1>2. /\ \A k \in DOMAIN q : q[k].cmd = Round[n]
      /\ \A i, j \in DOMAIN q : i < j => Whose(q[i]) < Whose(q[j])
      /\ \A k \in DOMAIN s : Belongs(s[k], n)
      /\ InTurn(s)
      /\ \A i \in Numbers(s), j \in Asked(q) : i < j
      /\ Numbers(s) \cup Asked(q) = {i \in All(n) : i >= m}
  BY Zenon DEF UnderWay
<1>3. h \in Line /\ Listed(h)
  BY <1>1, NumbersTail
<1>4. PICK b \in Nat : b = Number(h)
  BY <1>3, LineFacts
<1>5. Numbers(s) = Numbers(t) \cup {b}
  <2>1. Numbers(s) = Numbers(t) \cup IF Listed(h) THEN {Number(h)} ELSE {}
    BY <1>1, NumbersTail
  <2> QED BY <1>3, <1>4, <2>1
<1>6. InTurn(t) /\ \A i \in Numbers(t) : b < i
  BY <1>1, <1>2, <1>3, <1>4, NumbersTail, Zenon
<1>7. Belongs(h, n) /\ \A k \in DOMAIN t : Belongs(t[k], n)
  BY <1>1, <1>2, NumbersTail, Zenon
<1>8. All(n) \subseteq Nat
  BY AllFacts
<1>9. b \in All(n) /\ b >= m
  BY <1>2, <1>5
<1>10. \A j \in Asked(q) : b < j
  BY <1>2, <1>5
<1>11. \A i \in All(n) : i >= m => i >= b
  <2> SUFFICES ASSUME NEW i \in All(n), i >= m PROVE i >= b
    OBVIOUS
  <2>1. i \in Numbers(t) \/ i = b \/ i \in Asked(q)
    BY <1>2, <1>5
  <2>2. i \in Nat
    BY <1>8
  <2> QED BY <1>6, <1>10, <2>1, <2>2
<1>12. Numbers(t) \cup Asked(q) = {i \in All(n) : i >= b + 1}
  <2>1. ASSUME NEW i \in Numbers(t) \cup Asked(q) PROVE i \in All(n) /\ i >= b + 1
    <3>1. i \in All(n) /\ b < i
      BY <1>2, <1>5, <1>6, <1>10
    <3> QED BY <1>8, <3>1
  <2>2. ASSUME NEW i \in All(n), i >= b + 1 PROVE i \in Numbers(t) \cup Asked(q)
    <3>1. i \in Nat /\ i # b /\ i >= m
      BY <1>8, <1>9, <2>2
    <3> QED BY <1>2, <1>5, <3>1
  <2> QED BY <2>1, <2>2
<1>13. \A i \in Numbers(t), j \in Asked(q) : i < j
  BY <1>2, <1>5
<1>14. UnderWay(q, t, n, b + 1)
  BY <1>2, <1>6, <1>7, <1>12, <1>13, Zenon DEF UnderWay
<1> QED BY <1>1, <1>4, <1>7, <1>9, <1>11, <1>14, Zenon

\* After its last line nothing of a round is under way.
LEMMA RoundOver ==
  ASSUME NEW q \in Seq(Command), NEW s \in Seq(Line), NEW n \in 1 .. 5, NEW m \in Nat,
         UnderWay(q, s, n, m), \A i \in All(n) : ~(i >= m)
  PROVE  q = <<>> /\ \A k \in DOMAIN s : ~Listed(s[k])
<1>1. /\ \A k \in DOMAIN q : q[k].cmd = Round[n]
      /\ Numbers(s) \cup Asked(q) = {i \in All(n) : i >= m}
  BY Zenon DEF UnderWay
<1>2. Numbers(s) = {} /\ Asked(q) = {}
  BY <1>1
<1>3. ASSUME NEW k \in DOMAIN s PROVE ~Listed(s[k])
  BY <1>2, <1>3, NumbersOf
<1>4. DOMAIN q = {}
  <2> SUFFICES ASSUME NEW k \in DOMAIN q PROVE FALSE
    OBVIOUS
  <2>1. q[k] \in Command
    OBVIOUS
  <2>2. PICK c \in Command : c = q[k]
    BY <2>1
  <2>3. c.cmd = Round[n] /\ n \in {1, 2, 3, 4, 5}
    BY <1>1, <2>2
  <2>4. c.cmd # "RouteStat"
    BY <2>3, RoundFacts
  <2>5. Answers(c) # {}
    <3>1. PICK x \in Nat : x = Whose(c)
      BY CommandFacts
    <3>2. 3 * x \in OfRouter(x)
      BY DEF OfRouter
    <3> QED BY <2>4, <3>1, <3>2, CommandFacts
  <2> QED BY <1>2, <2>2, <2>5, AskedOf
<1>5. q = <<>>
  BY <1>4
<1> QED BY <1>3, <1>5

\* The questions of the next round.
IsRound(q, n) ==
  /\ q \in Seq(Command)
  /\ \A k \in DOMAIN q : q[k].cmd = Round[n]
  /\ \A i, j \in DOMAIN q : i < j => Whose(q[i]) < Whose(q[j])
  /\ Asked(q) = All(n)

LEMMA RoundBegins ==
  ASSUME NEW q, NEW s, NEW n \in 1 .. 6, IsRound(q, n), \A k \in DOMAIN s : ~Listed(s[k])
  PROVE  UnderWay(q, s, n, 0)
<1>1. Numbers(s) = {}
  BY DEF Numbers
<1>2. InTurn(s) /\ \A k \in DOMAIN s : Belongs(s[k], n)
  BY DEF InTurn, Belongs
<1>3. Asked(q) = {i \in All(n) : i >= 0}
  <2>1. All(n) \subseteq Nat
    BY AllFacts
  <2> QED BY <2>1 DEF IsRound
<1> QED BY <1>1, <1>2, <1>3 DEF IsRound, UnderWay

LEMMA AskFacts ==
  ASSUME NEW rs, rs \subseteq Router, NEW n \in 3 .. 6, n # 6 => rs = Router
  PROVE  /\ IsRound(Ask(Round[n], rs), n)
         /\ \A r \in rs : \E k \in DOMAIN Ask(Round[n], rs) :
              Ask(Round[n], rs)[k] = [cmd |-> Round[n], router |-> r]
<1>1. rs \subseteq Nat /\ IsFiniteSet(rs)
  BY SaAssumption, FS_Subset
<1>2. PICK a \in Nat : a = Cardinality(rs)
  BY <1>1, FS_CardinalityType
<1>3. PICK x : x = InOrder(rs)
  OBVIOUS
<1>4. /\ x \in [1 .. a -> rs] /\ (\A i \in rs : \E k \in 1 .. a : x[k] = i)
      /\ \A i, j \in 1 .. a : i < j => x[i] < x[j]
  BY <1>1, <1>2, <1>3, InOrderEnumerates
<1>5. PICK name : name = Round[n] /\ name \in {"SourceNames", "DestNames", "SnapshotNames",
                                               "RouteStat"}
  <2>1. n \in {3, 4, 5, 6}
    OBVIOUS
  <2> QED BY <2>1, RoundFacts
<1>6. PICK q : q = [k \in 1 .. a |-> [cmd |-> name, router |-> x[k]]]
  OBVIOUS
<1>7. Ask(Round[n], rs) = q
  <2>1. DOMAIN x = 1 .. a
    BY <1>4
  <2>2. Ask(Round[n], rs) = [k \in DOMAIN x |-> [cmd |-> name, router |-> x[k]]]
    BY <1>3, <1>5, Zenon DEF Ask
  <2> QED BY <1>6, <2>1, <2>2, Zenon
<1>8. ASSUME NEW k \in 1 .. a
      PROVE  /\ q[k] \in Command /\ q[k].cmd = name /\ Whose(q[k]) = x[k]
             /\ q[k].router = x[k] /\ x[k] \in rs
  <2>1. x[k] \in rs /\ x[k] \in Router
    BY <1>4
  <2>2. q[k] = [cmd |-> name, router |-> x[k]]
    BY <1>6
  <2>3. q[k].cmd = name /\ q[k].router = x[k]
    BY <2>2
  <2>4. q[k] \in [cmd : {"SourceNames", "DestNames", "SnapshotNames", "RouteStat"},
                  router : Router]
    BY <1>5, <2>1, <2>2
  <2>5. Whose(q[k]) = x[k]
    BY <1>5, <2>3 DEF Whose
  <2> QED BY <2>1, <2>3, <2>4, <2>5 DEF Command
<1>9. q \in Seq(Command) /\ DOMAIN q = 1 .. a
  <2>1. q = [k \in 1 .. a |-> q[k]] /\ \A k \in 1 .. a : q[k] \in Command
    BY <1>6, <1>8
  <2>2. PICK S : S = Command
    OBVIOUS
  <2>3. q \in [1 .. a -> S]
    BY <2>1, <2>2
  <2>4. q \in Seq(S) /\ DOMAIN q = 1 .. a
    BY <2>3
  <2> QED BY <2>2, <2>4, Zenon
<1>10. Asked(q) = All(n)
  <2>1. CASE n = 6
    <3>1. \A k \in 1 .. a : Answers(q[k]) = {}
      BY <1>5, <1>8, <2>1, RoundFacts, CommandFacts
    <3>2. All(n) = {}
      BY <2>1, AllFacts
    <3> QED BY <1>9, <3>1, <3>2, AskedOf
  <2>2. CASE n # 6
    <3>1. \A k \in 1 .. a : Answers(q[k]) = OfRouter(x[k])
      <4>1. n \in {3, 4, 5}
        BY <2>2
      <4>2. name \notin {"Login", "RouteStat"}
        BY <1>5, <4>1, RoundFacts
      <4> QED BY <1>8, <4>2, CommandFacts
    <3>2. rs = Router /\ n \in 3 .. 5
      BY <2>2
    <3>3. All(n) = UNION {OfRouter(r) : r \in Router}
      BY <3>2, AllFacts
    <3>4. \A y : y \in Asked(q) <=> \E k \in 1 .. a : y \in OfRouter(x[k])
      BY <1>9, <3>1, AskedOf
    <3>5. \A y : y \in Asked(q) <=> \E r \in Router : y \in OfRouter(r)
      BY <1>4, <3>2, <3>4
    <3>6. \A y : y \in All(n) <=> \E r \in Router : y \in OfRouter(r)
      BY <3>3
    <3>7. \A y : y \in Asked(q) <=> y \in All(n)
      BY <3>5, <3>6, Zenon
    <3> QED BY <3>7
  <2> QED BY <2>1, <2>2
<1>11. IsRound(q, n)
  BY <1>4, <1>5, <1>8, <1>9, <1>10 DEF IsRound
<1>12. \A r \in rs : \E k \in DOMAIN q : q[k] = [cmd |-> name, router |-> r]
  BY <1>4, <1>6, <1>9
<1> QED BY <1>5, <1>7, <1>11, <1>12, Zenon

\* The lines of a router are lines of the round.
LEMMA OfRouterInAll ==
  ASSUME NEW n \in 2 .. 5, NEW r, n = 2 => r = 0, n # 2 => r \in Router
  PROVE  /\ r \in Nat /\ OfRouter(r) \subseteq All(n)
         /\ 3 * r \in All(n) /\ 3 * r + 1 \in All(n) /\ 3 * r + 2 \in All(n)
<1>1. r \in Nat
  <2>1. CASE n = 2
    BY <2>1
  <2>2. CASE n # 2
    BY <2>2, SaAssumption
  <2> QED BY <2>1, <2>2
<1>2. OfRouter(r) \subseteq All(n)
  <2>1. CASE n = 2
    BY <2>1 DEF All
  <2>2. CASE n # 2
    <3>1. All(n) = UNION {OfRouter(x) : x \in Router}
      BY <2>2, AllFacts
    <3> QED BY <2>2, <3>1
  <2> QED BY <2>1, <2>2
<1>3. 3 * r \in OfRouter(r) /\ 3 * r + 1 \in OfRouter(r) /\ 3 * r + 2 \in OfRouter(r)
  BY <1>1 DEF OfRouter
<1> QED BY <1>1, <1>2, <1>3

-----------------------------------------------------------------------------
(* Types.                                                                  *)

LEMMA MaxFacts ==
  ASSUME NEW S, S \subseteq Router, S # {}
  PROVE  Max(S) \in S /\ \A x \in S : x <= Max(S)
<1>1. S \subseteq Nat /\ IsFiniteSet(S)
  BY SaAssumption, FS_Subset
<1>2. PICK a \in Nat : a = Cardinality(S)
  BY <1>1, FS_CardinalityType
<1>3. PICK f : f = InOrder(S)
  OBVIOUS
<1>4. /\ f \in [1 .. a -> S] /\ (\A i \in S : \E k \in 1 .. a : f[k] = i)
      /\ \A i, j \in 1 .. a : i < j => f[i] < f[j]
  BY <1>1, <1>2, <1>3, InOrderEnumerates
<1>5. a \in 1 .. a
  BY <1>4
<1>6. f[a] \in S /\ \A x \in S : f[a] >= x
  <2>1. ASSUME NEW x \in S PROVE f[a] >= x
    <3>1. PICK k \in 1 .. a : f[k] = x
      BY <1>4
    <3>2. CASE k = a
      BY <1>1, <3>1, <3>2
    <3>3. CASE k # a
      <4>1. k < a
        BY <3>3
      <4>2. f[k] < f[a] /\ f[k] \in S /\ f[a] \in S
        BY <1>4, <1>5, <4>1
      <4>3. PICK y \in Nat : y = f[a]
        BY <1>1, <4>2
      <4>4. x \in Nat /\ x < y
        BY <1>1, <3>1, <4>2, <4>3
      <4>5. y >= x
        BY <4>4
      <4> QED BY <4>3, <4>5
    <3> QED BY <3>2, <3>3
  <2> QED BY <1>4, <1>5, <2>1
<1>7. Max(S) \in S /\ \A x \in S : Max(S) >= x
  BY <1>6, Zenon DEF Max
<1>8. PICK t \in Nat : t = Max(S)
  BY <1>1, <1>7
<1> QED BY <1>1, <1>7, <1>8

LEMMA AskType ==
  ASSUME NEW rs, rs \subseteq Router,
         NEW name \in {"SourceNames", "DestNames", "SnapshotNames", "RouteStat"}
  PROVE  Ask(name, rs) \in Seq(Command)
<1>1. rs \subseteq Nat /\ IsFiniteSet(rs)
  BY SaAssumption, FS_Subset
<1>2. PICK a \in Nat : a = Cardinality(rs)
  BY <1>1, FS_CardinalityType
<1>3. PICK x : x = InOrder(rs)
  OBVIOUS
<1>4. x \in [1 .. a -> rs]
  BY <1>1, <1>2, <1>3, InOrderEnumerates
<1>5. PICK q : q = [k \in 1 .. a |-> [cmd |-> name, router |-> x[k]]]
  OBVIOUS
<1>6. Ask(name, rs) = q
  <2>1. DOMAIN x = 1 .. a
    BY <1>4
  <2> QED BY <1>3, <1>5, <2>1, Zenon DEF Ask
<1>7. \A k \in 1 .. a : q[k] \in Command
  <2> SUFFICES ASSUME NEW k \in 1 .. a PROVE q[k] \in Command
    OBVIOUS
  <2>1. x[k] \in Router /\ q[k] = [cmd |-> name, router |-> x[k]]
    BY <1>4, <1>5
  <2>2. q[k] \in [cmd : {"SourceNames", "DestNames", "SnapshotNames", "RouteStat"},
                  router : Router]
    BY <2>1
  <2> QED BY <2>2 DEF Command
<1>8. PICK S : S = Command
  OBVIOUS
<1>9. q = [k \in 1 .. a |-> q[k]]
  BY <1>5
<1>10. q \in [1 .. a -> S]
  BY <1>7, <1>8, <1>9
<1>11. q \in Seq(S)
  BY <1>10
<1> QED BY <1>6, <1>8, <1>11, Zenon

LEMMA Joining2 ==
  ASSUME NEW S, NEW s \in Seq(S), NEW t \in Seq(S)
  PROVE  s \o t \in Seq(S)
OBVIOUS

LEMMA CommandTypes ==
  /\ [cmd |-> "Login"] \in Command /\ [cmd |-> "RouterNames"] \in Command
  /\ <<[cmd |-> "Login"]>> \in Seq(Command)
<1>1. PICK x : x = [cmd |-> "Login"]
  OBVIOUS
<1>2. x \in Command /\ [cmd |-> "RouterNames"] \in Command
  BY <1>1 DEF Command
<1>3. PICK S : S = Command
  OBVIOUS
<1>4. <<x>> \in Seq(S)
  BY <1>2, <1>3
<1> QED BY <1>1, <1>2, <1>3, <1>4, Zenon

LEMMA InitType ==
  ASSUME Init
  PROVE  TypeInv
<1>1. route \in [Dest -> {NullStream}] /\ {NullStream} \subseteq Signal
  BY DEF Init, Signal
<1>2. route \in [Dest -> Signal]
  BY <1>1
<1>3. /\ pending \in Seq(Dest) /\ ipc \in Seq(Dest)
      /\ cmds \in Seq(Command) /\ tcp \in Seq(Line)
  BY DEF Init
<1>4. /\ outputs \in [Router -> SUBSET Output]
      /\ shots \in [Router -> SUBSET {"own", "other"}]
      /\ xpoint \in [Router -> [Output -> SUBSET Nat]]
  BY DEF Init
<1>5. /\ changes \in Nat /\ drops \in Nat
      /\ conn \in BOOLEAN /\ torn \in BOOLEAN /\ starting \in BOOLEAN /\ connected \in BOOLEAN
      /\ reading \subseteq Range(List)
      /\ current \in Router \cup {0} /\ last \in Router \cup {0}
      /\ routers \subseteq Router /\ inputs \subseteq Router \cup {0}
  BY DEF Init
<1> QED BY <1>2, <1>3, <1>4, <1>5, Zenon DEF TypeInv

\* A line is received.
LEMMA ReceiveFacts ==
  ASSUME TypeInv, NEW kind, Receive(kind)
  PROVE  /\ conn /\ tcp # <<>> /\ Head(tcp).line = kind /\ tcp' = Tail(tcp)
         /\ tcp' \in Seq(Line) /\ Head(tcp) \in Line
         /\ kind \in {"Begin", "Names", "End"} =>
              /\ Listed(Head(tcp)) /\ Head(tcp).list \in Range(List)
              /\ Head(tcp).router \in Router \cup {0} /\ Head(tcp).router \in Nat
         /\ kind = "RouteStat" => Head(tcp) \in StatLines /\ ~Listed(Head(tcp))
         /\ UNCHANGED <<core, ipc, conn, drops>>
<1>1. /\ conn /\ tcp # <<>> /\ Head(tcp).line = kind /\ tcp' = Tail(tcp)
      /\ UNCHANGED <<core, ipc, conn, drops>>
  BY DEF Receive
<1>2. tcp \in Seq(Line)
  BY DEF TypeInv
<1>3. tcp' \in Seq(Line) /\ Head(tcp) \in Line
  BY <1>1, <1>2, NumbersTail
<1>4. PICK h \in Line : h = Head(tcp) /\ h.line = kind
  BY <1>1, <1>3
<1>5. kind \in {"Begin", "Names", "End"} =>
        Listed(h) /\ h.list \in Range(List) /\ h.router \in Router \cup {0} /\ h.router \in Nat
  <2> SUFFICES ASSUME kind \in {"Begin", "Names", "End"}
               PROVE  /\ Listed(h) /\ h.list \in Range(List)
                      /\ h.router \in Router \cup {0} /\ h.router \in Nat
    OBVIOUS
  <2>1. Listed(h) /\ h.line # "Login"
    BY <1>4 DEF Listed
  <2> QED BY <2>1, LineFacts
<1>6. kind = "RouteStat" => h \in StatLines /\ ~Listed(h)
  BY <1>4, StatLineFacts DEF Listed
<1> QED BY <1>1, <1>3, <1>4, <1>5, <1>6, Zenon

LEMMA TypeCore ==
  ASSUME TypeInv,
         \/ \E d \in Dest, s \in Signal : DestinationChanged(d, s)
         \/ NotifyProtocols \/ CrosspointChanged
  PROVE  TypeInv'
<1>1. CASE \E d \in Dest, s \in Signal : DestinationChanged(d, s)
  <2>1. PICK d \in Dest, s \in Signal : DestinationChanged(d, s)
    BY <1>1
  <2>2. /\ route' = [route EXCEPT ![d] = s] /\ changes' = changes + 1 /\ pending' = <<d>>
        /\ UNCHANGED <<ipc, cmds, tcp, conn, drops, parser>>
    BY <2>1 DEF DestinationChanged
  <2>3. route' \in [Dest -> Signal] /\ changes' \in Nat /\ pending' \in Seq(Dest)
    BY <2>2 DEF TypeInv
  <2> QED BY <2>2, <2>3 DEF TypeInv, parser, lists
<1>2. CASE NotifyProtocols
  <2>1. /\ pending # <<>> /\ ipc' = IF conn THEN Append(ipc, Head(pending)) ELSE ipc
        /\ pending' = Tail(pending)
        /\ UNCHANGED <<route, changes, cmds, tcp, conn, drops, parser>>
    BY <1>2 DEF NotifyProtocols
  <2>2. pending' \in Seq(Dest) /\ ipc' \in Seq(Dest)
    BY <2>1 DEF TypeInv
  <2> QED BY <2>1, <2>2 DEF TypeInv, parser, lists
<1>3. CASE CrosspointChanged
  <2>1. /\ ipc # <<>> /\ tcp' = tcp \o Report(Head(ipc)) /\ ipc' = Tail(ipc)
        /\ UNCHANGED <<core, cmds, conn, drops, parser>>
    BY <1>3 DEF CrosspointChanged
  <2>2. ipc' \in Seq(Dest) /\ Head(ipc) \in Dest
    BY <2>1 DEF TypeInv
  <2>3. PICK t : t = Report(Head(ipc)) /\ t \in Seq(StatLines)
    <3>1. PICK d \in Dest : d = Head(ipc)
      BY <2>2
    <3>2. route[d] \in Signal
      BY DEF TypeInv
    <3> QED BY <3>1, <3>2, ReportFacts
  <2>4. t \in Seq(Line) /\ tcp \in Seq(Line)
    BY <2>3, StatsNumbers DEF TypeInv
  <2>5. tcp' \in Seq(Line)
    BY <2>1, <2>3, <2>4, Joining2, Zenon
  <2> QED BY <2>1, <2>2, <2>5 DEF TypeInv, core, parser, lists
<1> QED BY <1>1, <1>2, <1>3

LEMMA TypeConnection ==
  ASSUME TypeInv, Connect \/ ConnectionClosed \/ StartupTimeout
  PROVE  TypeInv'
<1>1. CASE Connect
  <2>1. conn' = TRUE /\ cmds' \in Seq(Command)
        /\ UNCHANGED <<core, ipc, tcp, drops, parser>>
    BY <1>1, CommandTypes, Zenon DEF Connect
  <2> QED BY <2>1 DEF TypeInv, core, parser, lists
<1>2. CASE ConnectionClosed
  <2>1. /\ conn' = FALSE /\ drops' = drops + 1 /\ ipc' = <<>> /\ cmds' = <<>> /\ tcp' = <<>>
        /\ torn' \in {torn, torn \/ tcp # <<>>} /\ connected' = FALSE /\ Cleared
        /\ UNCHANGED <<core, reading, current, last, awaited, starting>>
    BY <1>2 DEF ConnectionClosed
  <2>a. drops' \in Nat
    BY <2>1 DEF TypeInv
  <2>b. torn' \in BOOLEAN
    <3>1. torn \in BOOLEAN
      BY DEF TypeInv
    <3>2. torn' = torn \/ torn' = (torn \/ tcp # <<>>)
      BY <2>1, Zenon
    <3>3. (torn \/ tcp # <<>>) \in BOOLEAN
      OBVIOUS
    <3> QED BY <3>1, <3>2, <3>3, Zenon
  <2>2. torn' \in BOOLEAN /\ drops' \in Nat
    BY <2>a, <2>b
  <2>3. /\ routers' \subseteq Router /\ inputs' \subseteq Router \cup {0}
        /\ outputs' \in [Router -> SUBSET Output]
        /\ shots' \in [Router -> SUBSET {"own", "other"}]
        /\ xpoint' \in [Router -> [Output -> SUBSET Nat]]
    BY <2>1 DEF Cleared
  <2>4. UNCHANGED <<route, changes, pending, reading, current, last, starting>>
    BY <2>1 DEF core
  <2>c. conn' \in BOOLEAN /\ connected' \in BOOLEAN
    BY <2>1, Zenon
  <2>5. /\ ipc' \in Seq(Dest) /\ cmds' \in Seq(Command) /\ tcp' \in Seq(Line)
        /\ conn' \in BOOLEAN /\ connected' \in BOOLEAN
    <3>1. ipc' = <<>> /\ cmds' = <<>> /\ tcp' = <<>>
      BY <2>1, Zenon
    <3>2. ipc' \in Seq(Dest) /\ cmds' \in Seq(Command) /\ tcp' \in Seq(Line)
      BY <3>1
    <3> QED BY <2>c, <3>2
  <2> QED BY <2>2, <2>3, <2>4, <2>5 DEF TypeInv
<1>3. CASE StartupTimeout
  BY <1>3 DEF StartupTimeout, TypeInv, core, lists
<1> QED BY <1>1, <1>2, <1>3

LEMMA TypeCommand ==
  ASSUME TypeInv, ProcessCommand
  PROVE  TypeInv'
<1>1. /\ cmds # <<>> /\ tcp' = tcp \o Answer(Head(cmds)) /\ cmds' = Tail(cmds)
      /\ UNCHANGED <<core, ipc, conn, drops, parser>>
  BY DEF ProcessCommand
<1>2. cmds' \in Seq(Command) /\ Head(cmds) \in Command
  BY <1>1, AskedTail DEF TypeInv
<1>3. PICK c \in Command : c = Head(cmds)
  BY <1>2
<1>4. \E n \in 1 .. 6 : c.cmd = Round[n]
  <2>1. /\ "Login" = Round[1] /\ "RouterNames" = Round[2] /\ "SourceNames" = Round[3]
        /\ "DestNames" = Round[4] /\ "SnapshotNames" = Round[5] /\ "RouteStat" = Round[6]
    BY RoundFacts
  <2>2. 1 \in 1 .. 6 /\ 2 \in 1 .. 6 /\ 3 \in 1 .. 6 /\ 4 \in 1 .. 6 /\ 5 \in 1 .. 6
        /\ 6 \in 1 .. 6
    OBVIOUS
  <2> QED BY <2>1, <2>2, CommandFacts
<1>5. PICK n \in 1 .. 6 : c.cmd = Round[n]
  BY <1>4
<1>6. route \in [Dest -> Signal] /\ tcp \in Seq(Line)
  BY DEF TypeInv
<1>7. PICK t : t = Answer(c) /\ t \in Seq(Line)
  BY <1>5, <1>6, AnswerFacts DEF IsAnswer
<1>8. tcp' \in Seq(Line)
  BY <1>1, <1>3, <1>6, <1>7, Joining2, Zenon
<1> QED BY <1>1, <1>2, <1>8 DEF TypeInv, core, parser, lists

LEMMA TypeBegins ==
  ASSUME TypeInv, ReceiveLogin \/ ReceiveBegin \/ ReceiveNames \/ ReceiveTorn
  PROVE  TypeInv'
<1>0. /\ outputs \in [Router -> SUBSET Output] /\ shots \in [Router -> SUBSET {"own", "other"}]
      /\ routers \subseteq Router /\ inputs \subseteq Router \cup {0}
      /\ current \in Router \cup {0} /\ reading \subseteq Range(List) /\ cmds \in Seq(Command)
  BY DEF TypeInv
<1>1. CASE ReceiveLogin
  <2>1. /\ Receive("Login") /\ UNCHANGED torn
        /\ cmds' = Append(cmds, [cmd |-> "RouterNames"])
        /\ UNCHANGED <<reading, current, last, awaited, starting, connected, lists>>
    BY <1>1 DEF ReceiveLogin, Whole
  <2>2. cmds' \in Seq(Command)
    <3>1. PICK x \in Command : x = [cmd |-> "RouterNames"]
      BY CommandTypes
    <3>2. Append(cmds, x) \in Seq(Command)
      BY <1>0, <3>1
    <3> QED BY <2>1, <3>1, <3>2, Zenon
  <2>3. tcp' \in Seq(Line) /\ UNCHANGED <<core, ipc, conn, drops>>
    BY <2>1, ReceiveFacts
  <2> QED BY <2>1, <2>2, <2>3 DEF TypeInv, core, lists
<1>2. CASE ReceiveBegin
  <2>1. PICK l, r : l = Head(tcp).list /\ r = Head(tcp).router
    OBVIOUS
  <2>2. /\ Receive("Begin") /\ UNCHANGED torn
        /\ reading' = reading \cup {l}
        /\ current' = IF r = 0 THEN current ELSE r
        /\ routers' = IF l = "RouterNames" THEN {} ELSE routers
        /\ inputs' = IF l = "SourceNames" THEN inputs \ {r} ELSE inputs
        /\ outputs' = IF l = "DestNames" THEN [outputs EXCEPT ![r] = {}] ELSE outputs
        /\ shots' = IF l = "SnapshotNames" THEN [shots EXCEPT ![r] = {}] ELSE shots
        /\ UNCHANGED <<cmds, last, awaited, starting, connected, xpoint>>
    BY <1>2, <2>1, Zenon DEF ReceiveBegin, Whole
  <2>3. /\ tcp' \in Seq(Line) /\ UNCHANGED <<core, ipc, conn, drops>>
        /\ l \in Range(List) /\ r \in Router \cup {0}
    BY <2>1, <2>2, ReceiveFacts
  <2>4. /\ reading' \subseteq Range(List) /\ current' \in Router \cup {0}
        /\ routers' \subseteq Router /\ inputs' \subseteq Router \cup {0}
    BY <1>0, <2>2, <2>3
  <2>5. /\ outputs' \in [Router -> SUBSET Output]
        /\ shots' \in [Router -> SUBSET {"own", "other"}]
    BY <1>0, <2>2
  <2>6. UNCHANGED <<cmds, last, starting, connected, xpoint, torn>>
    BY <2>2
  <2> QED BY <2>3, <2>4, <2>5, <2>6 DEF TypeInv, core
<1>3. CASE ReceiveNames
  <2> DEFINE into(k) == Head(tcp).list = k /\ Reading(k)
             listed == {o \in Output : \E d \in Dest : <<current, o, d>> \in Destinations}
  <2>1. /\ Receive("Names") /\ UNCHANGED torn
        /\ routers' = IF into("RouterNames") THEN Router ELSE routers
        /\ inputs' = IF into("SourceNames") THEN inputs \cup {current} ELSE inputs
        /\ outputs' = IF into("DestNames") THEN [outputs EXCEPT ![current] = listed]
                                           ELSE outputs
        /\ shots' = IF into("SnapshotNames")
                      THEN [shots EXCEPT ![current] = @ \cup {"own"}] ELSE shots
        /\ UNCHANGED <<cmds, reading, current, last, awaited, starting, connected, xpoint>>
    BY <1>3, Zenon DEF ReceiveNames, Whole
  <2>2. /\ tcp' \in Seq(Line) /\ UNCHANGED <<core, ipc, conn, drops>>
    BY <2>1, ReceiveFacts
  <2>3. listed \subseteq Output
    OBVIOUS
  <2> HIDE DEF into, listed
  <2>4. /\ routers' \subseteq Router /\ inputs' \subseteq Router \cup {0}
        /\ outputs' \in [Router -> SUBSET Output]
    BY <1>0, <2>1, <2>3
  <2>5. shots' \in [Router -> SUBSET {"own", "other"}]
    BY <1>0, <2>1
  <2>6. UNCHANGED <<cmds, reading, current, last, starting, connected, xpoint, torn>>
    BY <2>1
  <2> QED BY <2>2, <2>4, <2>5, <2>6 DEF TypeInv, core
<1>4. CASE ReceiveTorn
  <2>1. /\ \E kind \in {"Login", "Begin", "Names", "End", "RouteStat"} : Receive(kind)
        /\ torn' = FALSE
        /\ Misread
        /\ UNCHANGED <<cmds, reading, current, last, awaited, starting, connected, xpoint>>
    BY <1>4 DEF ReceiveTorn
  <2>2. PICK r \in Router, o \in Output, name \in BOOLEAN :
          /\ routers' = IF name /\ Reading("RouterNames") THEN routers \cup {r} ELSE routers
          /\ inputs' = IF name /\ Reading("SourceNames") THEN inputs \cup {current} ELSE inputs
          /\ outputs' = IF name /\ Reading("DestNames")
                          THEN [outputs EXCEPT ![current] = @ \cup {o}] ELSE outputs
    BY <1>4, Zenon DEF ReceiveTorn
  <2>3. tcp' \in Seq(Line) /\ UNCHANGED <<core, ipc, conn, drops>>
    BY <2>1, ReceiveFacts
  <2>4. /\ routers' \subseteq Router /\ inputs' \subseteq Router \cup {0}
        /\ outputs' \in [Router -> SUBSET Output]
    BY <1>0, <2>2
  <2>5. shots' \in [Router -> SUBSET {"own", "other"}]
    BY <1>0, <2>1 DEF Misread
  <2>6. UNCHANGED <<cmds, reading, current, last, starting, connected, xpoint>>
    BY <2>1
  <2>7. torn' \in BOOLEAN
    BY <2>1
  <2> QED BY <2>3, <2>4, <2>5, <2>6, <2>7 DEF TypeInv, core
<1> QED BY <1>1, <1>2, <1>3, <1>4

LEMMA TypeEnds ==
  ASSUME TypeInv, \/ ReceiveEndRouters \/ ReceiveEndOther \/ ReceiveEndSources
                  \/ ReceiveEndDests \/ ReceiveEndSnapshots
  PROVE  TypeInv'
<1>0. routers \subseteq Router /\ reading \subseteq Range(List) /\ cmds \in Seq(Command)
  BY DEF TypeInv
<1>1. CASE ReceiveEndRouters
  <2>1. /\ Receive("End") /\ UNCHANGED torn
        /\ reading' = reading \ {"RouterNames"}
        /\ cmds' = cmds \o Ask("SourceNames", routers)
        /\ last' = IF routers = {} THEN last ELSE Max(routers)
        /\ UNCHANGED <<current, awaited, starting, connected, lists>>
    BY <1>1 DEF ReceiveEndRouters, Whole
  <2>2. cmds' \in Seq(Command)
    <3>1. PICK q \in Seq(Command) : q = Ask("SourceNames", routers)
      BY <1>0, AskType
    <3>2. cmds \o q \in Seq(Command)
      BY <1>0, Joining2
    <3> QED BY <2>1, <3>1, <3>2, Zenon
  <2>3. last' \in Router \cup {0}
    <3>1. routers # {} => Max(routers) \in Router
      BY <1>0, MaxFacts
    <3>2. last \in Router \cup {0}
      BY DEF TypeInv
    <3> QED BY <2>1, <3>1, <3>2
  <2>4. tcp' \in Seq(Line) /\ UNCHANGED <<core, ipc, conn, drops>>
    BY <2>1, ReceiveFacts
  <2>5. reading' \subseteq Range(List)
    BY <1>0, <2>1
  <2> QED BY <2>1, <2>2, <2>3, <2>4, <2>5 DEF TypeInv, core, lists
<1>2. ASSUME NEW l \in Range(List), EndsRound(l),
             cmds' \in Seq(Command), reading' \subseteq Range(List)
      PROVE  TypeInv'
  <2>1. /\ Receive("End") /\ UNCHANGED torn /\ current' = Head(tcp).router
        /\ UNCHANGED <<last, starting, connected, lists>>
    BY <1>2 DEF EndsRound, Whole
  <2>2. tcp' \in Seq(Line) /\ UNCHANGED <<core, ipc, conn, drops>>
    BY <2>1, ReceiveFacts
  <2>3. current' \in Router \cup {0}
    BY <2>1, ReceiveFacts
  <2> QED BY <1>2, <2>1, <2>2, <2>3 DEF TypeInv, core, lists
<1>3. CASE ReceiveEndOther
  <2>1. PICK l \in Range(List) : EndsRound(l)
    BY <1>3 DEF ReceiveEndOther
  <2>2. cmds' = cmds /\ reading' = reading
    BY <1>3 DEF ReceiveEndOther
  <2> QED BY <1>0, <1>2, <2>1, <2>2
<1>4. ASSUME NEW l \in Range(List), NEW name \in {"DestNames", "SnapshotNames"},
             NextRound(l, name)
      PROVE  TypeInv'
  <2>1. EndsRound(l) /\ reading' = reading \ {l} /\ cmds' = cmds \o Ask(name, routers)
    BY <1>4 DEF NextRound
  <2>2. PICK q \in Seq(Command) : q = Ask(name, routers)
    BY <1>0, AskType
  <2>3. cmds \o q \in Seq(Command)
    BY <1>0, Joining2
  <2>4. cmds' \in Seq(Command)
    BY <2>1, <2>2, <2>3, Zenon
  <2>5. reading' \subseteq Range(List)
    BY <1>0, <2>1
  <2> QED BY <1>2, <2>1, <2>4, <2>5
<1>5. CASE ReceiveEndSources
  <2>1. "SourceNames" \in Range(List)
    BY RoundFacts
  <2> QED BY <1>4, <1>5, <2>1 DEF ReceiveEndSources
<1>6. CASE ReceiveEndDests
  <2>1. "DestNames" \in Range(List)
    BY RoundFacts
  <2> QED BY <1>4, <1>6, <2>1 DEF ReceiveEndDests
<1>7. CASE ReceiveEndSnapshots
  <2>1. PICK wanted : wanted = {r \in routers : outputs[r] # {}}
    OBVIOUS
  <2>2. /\ EndsRound("SnapshotNames") /\ reading' = reading \ {"SnapshotNames"}
        /\ cmds' = cmds \o Ask("RouteStat", wanted)
    BY <1>7, <2>1, Zenon DEF ReceiveEndSnapshots
  <2>3. wanted \subseteq Router
    BY <1>0, <2>1
  <2>4. PICK q \in Seq(Command) : q = Ask("RouteStat", wanted)
    BY <2>3, AskType
  <2>5. cmds \o q \in Seq(Command)
    BY <1>0, Joining2
  <2>6. cmds' \in Seq(Command)
    BY <2>2, <2>4, <2>5, Zenon
  <2>7. reading' \subseteq Range(List) /\ "SnapshotNames" \in Range(List)
    BY <1>0, <2>2, RoundFacts
  <2> QED BY <1>2, <2>2, <2>6, <2>7
<1> QED BY <1>1, <1>3, <1>5, <1>6, <1>7

LEMMA TypeStats ==
  ASSUME TypeInv, ReceiveStatUnread \/ ReceiveStat
  PROVE  TypeInv'
<1>1. CASE ReceiveStatUnread
  <2>1. /\ Receive("RouteStat") /\ UNCHANGED torn /\ Misread
        /\ UNCHANGED <<cmds, reading, current, last, starting, connected,
                       routers, inputs, outputs, xpoint>>
    BY <1>1 DEF ReceiveStatUnread, Whole
  <2>2. tcp' \in Seq(Line) /\ UNCHANGED <<core, ipc, conn, drops>>
    BY <2>1, ReceiveFacts
  <2>3. shots' \in [Router -> SUBSET {"own", "other"}]
    BY <2>1 DEF Misread, TypeInv
  <2> QED BY <2>1, <2>2, <2>3 DEF TypeInv, core
<1>2. CASE ReceiveStat
  <2>1. PICK h : h = Head(tcp)
    OBVIOUS
  <2>2. /\ Receive("RouteStat") /\ UNCHANGED torn
        /\ xpoint' = [xpoint EXCEPT ![h.router][h.output] = {h.input}]
        /\ starting' = (starting \/ <<h.router, h.output>> = awaited)
        /\ UNCHANGED <<cmds, reading, current, last, connected, routers, inputs,
                       outputs, shots>>
    BY <1>2, <2>1, Zenon DEF ReceiveStat, Whole
  <2>3. tcp' \in Seq(Line) /\ UNCHANGED <<core, ipc, conn, drops>> /\ h \in StatLines
    BY <2>1, <2>2, ReceiveFacts
  <2>4. h.router \in Router /\ h.output \in Output /\ h.input \in Nat
    BY <2>3 DEF StatLines
  <2>5. xpoint' \in [Router -> [Output -> SUBSET Nat]]
    <3>1. xpoint \in [Router -> [Output -> SUBSET Nat]]
      BY DEF TypeInv
    <3> QED BY <2>2, <2>4, <3>1
  <2>6. starting' \in BOOLEAN
    <3>1. (starting \/ <<h.router, h.output>> = awaited) \in BOOLEAN
      OBVIOUS
    <3> QED BY <2>2, <3>1, Zenon
  <2>7. UNCHANGED <<cmds, reading, current, last, connected, routers, inputs,
                    outputs, shots, torn>>
    BY <2>2
  <2> QED BY <2>3, <2>5, <2>6, <2>7 DEF TypeInv, core
<1> QED BY <1>1, <1>2

LEMMA TypeStep ==
  ASSUME TypeInv, [Next]_vars
  PROVE  TypeInv'
<1>1. CASE Next
  BY <1>1, TypeCore, TypeConnection, TypeCommand, TypeBegins, TypeEnds, TypeStats
     DEF Next, Work, ProtocolStep, ParserStep
<1>2. CASE UNCHANGED vars
  BY <1>2 DEF TypeInv, vars, core, parser, lists
<1> QED BY <1>1, <1>2

-----------------------------------------------------------------------------
(* The lines of the lists.                                                 *)

LEMMA ListNames ==
  \A n \in 2 .. 5 : /\ n - 1 \in 1 .. 4 /\ List[n - 1] = Round[n] /\ List[n - 1] \in Range(List)
                    /\ \A k \in 1 .. 4 : List[k] = List[n - 1] => k = n - 1
<1> SUFFICES ASSUME NEW n \in 2 .. 5
             PROVE  /\ n - 1 \in 1 .. 4 /\ List[n - 1] = Round[n]
                    /\ List[n - 1] \in Range(List)
                    /\ \A k \in 1 .. 4 : List[k] = List[n - 1] => k = n - 1
  OBVIOUS
<1>1. n \in {2, 3, 4, 5} /\ \A k \in 1 .. 4 : k \in {1, 2, 3, 4}
  OBVIOUS
<1> QED BY <1>1, RoundFacts

\* Where the first line stands in its round.
LEMMA HeadFacts ==
  ASSUME TypeInv, NEW n \in 1 .. 6, NEW m \in Nat, Session(n, m),
         tcp # <<>>, NEW kind \in {"Begin", "Names", "End"}, Head(tcp).line = kind
  PROVE  /\ n \in 2 .. 5 /\ Head(tcp).list = Round[n] /\ Head(tcp).router \in Nat
         /\ n = 2 => Head(tcp).router = 0
         /\ n # 2 => Head(tcp).router \in Router
         /\ UnderWay(cmds, Tail(tcp), n, Number(Head(tcp)) + 1)
         /\ kind = "Begin" => Number(Head(tcp)) = 3 * Head(tcp).router
         /\ kind = "Names" => m = 3 * Head(tcp).router + 1 /\ Number(Head(tcp)) = m
         /\ kind = "End" => m = 3 * Head(tcp).router + 2 /\ Number(Head(tcp)) = m
         /\ \A x \in Router : n # 2 /\ x < Head(tcp).router => 3 * x + 2 < m
<1>1. /\ cmds \in Seq(Command) /\ tcp \in Seq(Line) /\ UnderWay(cmds, tcp, n, m)
  BY DEF TypeInv, Session
<1>2. PICK h \in Line : h = Head(tcp) /\ h.line = kind /\ Listed(h)
  <2>1. Head(tcp) \in Line
    BY <1>1, NumbersTail
  <2> QED BY <2>1 DEF Listed
<1>3. h.list \in Range(List) /\ h.router \in Router \cup {0} /\ h.router \in Nat
      /\ h.line # "Login"
  BY <1>2, LineFacts
<1>4. PICK r \in Nat, b \in Nat : r = h.router /\ b = Number(h)
  BY <1>2, <1>3, LineFacts
<1>5. /\ Belongs(h, n) /\ b \in All(n) /\ b >= m
      /\ \A i \in All(n) : i >= m => i >= b
      /\ UnderWay(cmds, Tail(tcp), n, b + 1)
  BY <1>1, <1>2, <1>4, ListedUnderWay
<1>6. n # 1 /\ n # 6 /\ h.list = Round[n]
  BY <1>2, <1>3, <1>5, AllFacts DEF Belongs
<1>7. /\ kind = "Begin" => b = 3 * r
      /\ kind = "Names" => b = 3 * r + 1
      /\ kind = "End" => b = 3 * r + 2
  BY <1>2, <1>4 DEF Number
<1>8. b \in 3 * r .. 3 * r + 2
  BY <1>7
<1>9. n = 2 => r = 0
  <2> SUFFICES ASSUME n = 2 PROVE r = 0
    OBVIOUS
  <2>1. b \in 0 .. 2
    BY <1>5, AllFacts
  <2> QED BY <1>8, <2>1
<1>10. n # 2 => r \in Router
  <2> SUFFICES ASSUME n # 2 PROVE r \in Router
    OBVIOUS
  <2>1. All(n) = UNION {OfRouter(x) : x \in Router}
    BY <1>6, AllFacts
  <2>2. PICK x \in Router : b \in OfRouter(x)
    BY <1>5, <2>1
  <2>3. x \in Nat
    BY SaAssumption
  <2>4. x = r
    BY <1>8, <2>2, <2>3 DEF OfRouter
  <2> QED BY <2>4
<1>11. \A i \in 3 * r .. 3 * r + 2 : i \in All(n)
  <2>1. CASE n = 2
    BY <1>9, <2>1, AllFacts
  <2>2. CASE n # 2
    <3>1. All(n) = UNION {OfRouter(x) : x \in Router}
      BY <1>6, <2>2, AllFacts
    <3> QED BY <1>10, <2>2, <3>1 DEF OfRouter
  <2> QED BY <2>1, <2>2
<1>12. kind # "Begin" => m = b
  <2> SUFFICES ASSUME kind # "Begin" PROVE m = b
    OBVIOUS
  <2>1. b - 1 \in 3 * r .. 3 * r + 2 /\ ~(b - 1 >= b)
    BY <1>7
  <2>2. ~(b - 1 >= m)
    BY <1>5, <1>11, <2>1
  <2> QED BY <1>5, <2>1, <2>2
<1>13. ASSUME NEW x \in Router, n # 2, x < r PROVE 3 * x + 2 < m
  <2>1. x \in Nat
    BY SaAssumption
  <2>2. 3 * x + 2 \in All(n)
    <3>1. All(n) = UNION {OfRouter(y) : y \in Router}
      BY <1>6, <1>13, AllFacts
    <3>2. 3 * x + 2 \in OfRouter(x)
      BY <2>1 DEF OfRouter
    <3> QED BY <3>1, <3>2
  <2>3. ~(3 * x + 2 >= b)
    BY <1>8, <1>13, <2>1
  <2>4. ~(3 * x + 2 >= m)
    BY <1>5, <2>2, <2>3
  <2> QED BY <2>1, <2>4
<1>14. n \in 2 .. 5
  BY <1>6
<1> QED BY <1>2, <1>4, <1>5, <1>6, <1>7, <1>9, <1>10, <1>12, <1>13, <1>14

\* The names that come next go to the list they were listed for.
LEMMA NamesFound ==
  ASSUME TypeInv, NEW n \in 1 .. 6, NEW m \in Nat, Session(n, m),
         tcp # <<>>, Head(tcp).line = "Names"
  PROVE  /\ \A l : l = Head(tcp).list => Reading(l)
         /\ n # 2 => current = Head(tcp).router
<1>1. PICK l, r : l = Head(tcp).list /\ r = Head(tcp).router
  OBVIOUS
<1>2. /\ n \in 2 .. 5 /\ l = Round[n] /\ r \in Router \cup {0} /\ m = 3 * r + 1
  BY <1>1, HeadFacts
<1>3. /\ \A k \in 1 .. 4 : k + 1 < n => List[k] \notin reading
      /\ n \in 2 .. 5 /\ m = 3 * r + 1 => List[n - 1] \in reading /\ (n # 2 => current = r)
  BY <1>2, Zenon DEF Session, Progress
<1>4. n - 1 \in 1 .. 4 /\ List[n - 1] = l /\ DOMAIN List = 1 .. 4
  BY <1>2, ListNames, RoundFacts
<1>5. ASSUME NEW k \in 1 .. 4, List[k] \in reading PROVE \E i \in 1 .. k : List[i] = l
  <2>1. n - 1 \in 1 .. k
    BY <1>3, <1>4, <1>5
  <2> QED BY <1>4, <2>1
<1>6. Reading(l)
  BY <1>2, <1>3, <1>4, <1>5 DEF Reading
<1> QED BY <1>1, <1>2, <1>3, <1>6

\* At most one list takes a line.
LEMMA OneReading ==
  ASSUME NEW k, NEW l, Reading(k), Reading(l), reading \subseteq Range(List)
  PROVE  k = l
<1>1. PICK a \in 1 .. 4, b \in 1 .. 4 : List[a] = k /\ List[b] = l
  <2>1. k \in Range(List) /\ l \in Range(List) /\ DOMAIN List = 1 .. 4
    BY RoundFacts DEF Reading
  <2> QED BY <2>1 DEF Range
<1>2. \A n \in 1 .. 4 : \A j \in 1 .. 4 : List[n] = List[j] => n = j
  <2>1. \A n \in 1 .. 4 : n \in {1, 2, 3, 4}
    OBVIOUS
  <2> QED BY <2>1, RoundFacts
<1>3. PICK i \in 1 .. a : List[i] = l
  BY <1>1, RoundFacts DEF Reading
<1>4. PICK j \in 1 .. b : List[j] = k
  BY <1>1, RoundFacts DEF Reading
<1>5. i = b /\ j = a
  BY <1>1, <1>2, <1>3, <1>4
<1>6. a = b
  BY <1>3, <1>4, <1>5
<1> QED BY <1>1, <1>6

\* What a step makes of a session: only the end of the snapshots begins the last round.
Goes(n) == \E n2 \in 1 .. 6, m2 \in Nat : Session(n2, m2)' /\ (n2 = 6 => n = 6)

LEMMA BeginsList ==
  ASSUME TypeInv, TypeInv', NEW n \in 1 .. 6, NEW m \in Nat, Session(n, m), ReceiveBegin
  PROVE  Goes(n)
<1>1. PICK l, r : l = Head(tcp).list /\ r = Head(tcp).router
  OBVIOUS
<1>2. /\ Receive("Begin") /\ ~torn /\ torn' = torn
      /\ reading' = reading \cup {l}
      /\ current' = IF r = 0 THEN current ELSE r
      /\ routers' = IF l = "RouterNames" THEN {} ELSE routers
      /\ inputs' = IF l = "SourceNames" THEN inputs \ {r} ELSE inputs
      /\ outputs' = IF l = "DestNames" THEN [outputs EXCEPT ![r] = {}] ELSE outputs
      /\ shots' = IF l = "SnapshotNames" THEN [shots EXCEPT ![r] = {}] ELSE shots
      /\ UNCHANGED <<cmds, last, awaited, starting, connected, xpoint>>
  BY <1>1, Zenon DEF ReceiveBegin, Whole
<1>3. /\ tcp # <<>> /\ Head(tcp).line = "Begin" /\ tcp' = Tail(tcp) /\ drops' = drops
  BY <1>2, ReceiveFacts
<1>4. /\ n \in 2 .. 5 /\ l = Round[n] /\ r \in Nat
      /\ n = 2 => r = 0
      /\ n # 2 => r \in Router
      /\ UnderWay(cmds, Tail(tcp), n, 3 * r + 1)
      /\ \A x \in Router : n # 2 /\ x < r => 3 * x + 2 < m
  <2>1. Number(Head(tcp)) = 3 * Head(tcp).router
    BY <1>3, HeadFacts
  <2>2. UnderWay(cmds, Tail(tcp), n, Number(Head(tcp)) + 1)
    BY <1>3, HeadFacts
  <2>3. UnderWay(cmds, Tail(tcp), n, 3 * r + 1)
    BY <1>1, <2>1, <2>2, Zenon
  <2> QED BY <1>1, <1>3, <2>3, HeadFacts
<1>5. UnderWay(cmds', tcp', n, 3 * r + 1)
  BY <1>2, <1>3, <1>4, Zenon
<1>6. n - 1 \in 1 .. 4 /\ List[n - 1] = l /\ \A k \in 1 .. 4 : List[k] = l => k = n - 1
  BY <1>4, ListNames
<1>7. n \in {2, 3, 4, 5} /\ l = CASE n = 2 -> "RouterNames" [] n = 3 -> "SourceNames"
                                  [] n = 4 -> "DestNames" [] n = 5 -> "SnapshotNames"
  BY <1>4, RoundFacts
<1>8. /\ outputs \in [Router -> SUBSET Output] /\ shots \in [Router -> SUBSET {"own", "other"}]
  BY DEF TypeInv
<1>9. Router \subseteq Nat \ {0}
  BY SaAssumption
<1>10. Progress(n, m)
  BY DEF Session
<1>11. Progress(n, 3 * r + 1)'
  <2>1. torn' => n = 1 /\ 3 * r + 1 = 0
    BY <1>2
  <2>2. \A k \in 1 .. 4 : k + 1 < n => List[k] \notin reading'
    <3> SUFFICES ASSUME NEW k \in 1 .. 4, k + 1 < n PROVE List[k] \notin reading'
      OBVIOUS
    <3>1. List[k] \notin reading
      BY <1>10 DEF Progress
    <3>2. k # n - 1
      BY <1>4
    <3> QED BY <1>2, <1>6, <3>1, <3>2
  <2>3. \A x \in Router \cup {0} :
          n \in 2 .. 5 /\ 3 * r + 1 = 3 * x + 1 =>
            List[n - 1] \in reading' /\ (n # 2 => current' = x)
    <3> SUFFICES ASSUME NEW x \in Router \cup {0}, 3 * r + 1 = 3 * x + 1
                 PROVE  List[n - 1] \in reading' /\ (n # 2 => current' = x)
      OBVIOUS
    <3>1. x = r
      BY <1>4, <1>9
    <3>2. n # 2 => r # 0
      BY <1>4, <1>9
    <3> QED BY <1>2, <1>6, <3>1, <3>2
  <2>4. Read(2, 0, n, 3 * r + 1) => routers' = Router
    <3> SUFFICES ASSUME Read(2, 0, n, 3 * r + 1) PROVE routers' = Router
      OBVIOUS
    <3>1. n > 2
      BY <1>4 DEF Read
    <3>2. Read(2, 0, n, m)
      BY <3>1 DEF Read
    <3>3. routers = Router
      BY <1>10, <3>2 DEF Progress
    <3>4. l # "RouterNames"
      BY <1>7, <3>1
    <3> QED BY <1>2, <3>3, <3>4
  <2>5. ASSUME NEW x \in Router
        PROVE  /\ Read(3, x, n, 3 * r + 1) => x \in inputs'
               /\ Read(4, x, n, 3 * r + 1) => outputs'[x] = OutputsOf(x)
               /\ Read(5, x, n, 3 * r + 1) => "own" \in shots'[x]
    <3>1. ASSUME NEW k \in 3 .. 5, Read(k, x, n, 3 * r + 1)
          PROVE  Read(k, x, n, m) /\ (n = k => x # r)
      <4>1. CASE n > k
        BY <4>1 DEF Read
      <4>2. CASE n = k /\ 3 * x + 1 < 3 * r + 1
        <5>1. x < r
          BY <1>4, <1>9, <4>2
        <5>2. 3 * x + 2 < m
          BY <1>4, <4>2, <5>1
        <5>3. 3 * x + 1 < m /\ x # r
          BY <1>9, <4>2, <5>1, <5>2
        <5> QED BY <4>2, <5>3 DEF Read
      <4> QED BY <3>1, <4>1, <4>2 DEF Read
    <3>2. Read(3, x, n, 3 * r + 1) => x \in inputs'
      <4> SUFFICES ASSUME Read(3, x, n, 3 * r + 1) PROVE x \in inputs'
        OBVIOUS
      <4>1. Read(3, x, n, m) /\ (n = 3 => x # r)
        BY <3>1
      <4>2. x \in inputs
        BY <1>10, <4>1 DEF Progress
      <4> QED BY <1>2, <1>7, <4>1, <4>2
    <3>3. Read(4, x, n, 3 * r + 1) => outputs'[x] = OutputsOf(x)
      <4> SUFFICES ASSUME Read(4, x, n, 3 * r + 1) PROVE outputs'[x] = OutputsOf(x)
        OBVIOUS
      <4>1. Read(4, x, n, m) /\ (n = 4 => x # r)
        BY <3>1
      <4>2. outputs[x] = OutputsOf(x)
        BY <1>10, <4>1 DEF Progress
      <4>3. n # 4 => l # "DestNames"
        BY <1>7
      <4> QED BY <1>2, <1>8, <4>1, <4>2, <4>3
    <3>4. Read(5, x, n, 3 * r + 1) => "own" \in shots'[x]
      <4> SUFFICES ASSUME Read(5, x, n, 3 * r + 1) PROVE "own" \in shots'[x]
        OBVIOUS
      <4>1. Read(5, x, n, m) /\ (n = 5 => x # r)
        BY <3>1
      <4>2. "own" \in shots[x]
        BY <1>10, <4>1 DEF Progress
      <4>3. n # 5 => l # "SnapshotNames"
        BY <1>7
      <4> QED BY <1>2, <1>8, <4>1, <4>2, <4>3
    <3> QED BY <3>2, <3>3, <3>4
  <2>6. n > 2 /\ Router # {} => last' \in Router /\ \A x \in Router : x <= last'
    BY <1>2, <1>10 DEF Progress
  <2> QED BY <2>1, <2>2, <2>3, <2>4, <2>5, <2>6, Zenon DEF Progress
<1>12. Session(n, 3 * r + 1)'
  <2>1. drops' = 0 /\ (awaited' # None \/ starting' \/ connected') => n = 6
    BY <1>2, <1>3 DEF Session
  <2>2. n # 1
    BY <1>4
  <2>3. Unfinished(n, 3 * r + 1)
    <3>1. 3 * r + 2 \in All(n) /\ 3 * r + 2 >= 3 * r + 1
      BY <1>4, OfRouterInAll
    <3> QED BY <3>1 DEF Unfinished
  <2> QED BY <1>5, <1>11, <2>1, <2>2, <2>3, Zenon DEF Session
<1>13. 3 * r + 1 \in Nat /\ (n = 6 => n = 6)
  BY <1>4
<1> QED BY <1>12, <1>13 DEF Goes

LEMMA NamesList ==
  ASSUME TypeInv, TypeInv', NEW n \in 1 .. 6, NEW m \in Nat, Session(n, m), ReceiveNames
  PROVE  /\ Goes(n)
         /\ inputs \subseteq Router => inputs' \subseteq Router
<1>1. PICK l, r : l = Head(tcp).list /\ r = Head(tcp).router
  OBVIOUS
<1> DEFINE into(k) == l = k /\ Reading(k)
<1>2. PICK listed : listed = {o \in Output : \E d \in Dest : <<current, o, d>> \in Destinations}
  OBVIOUS
<1>3. /\ Receive("Names") /\ ~torn /\ torn' = torn
      /\ routers' = IF into("RouterNames") THEN Router ELSE routers
      /\ inputs' = IF into("SourceNames") THEN inputs \cup {current} ELSE inputs
      /\ outputs' = IF into("DestNames") THEN [outputs EXCEPT ![current] = listed]
                                         ELSE outputs
      /\ shots' = IF into("SnapshotNames")
                    THEN [shots EXCEPT ![current] = @ \cup {"own"}] ELSE shots
      /\ UNCHANGED <<cmds, reading, current, last, awaited, starting, connected, xpoint>>
  BY <1>1, <1>2, Zenon DEF ReceiveNames, Whole
<1>4. /\ tcp # <<>> /\ Head(tcp).line = "Names" /\ tcp' = Tail(tcp) /\ drops' = drops
  BY <1>3, ReceiveFacts
<1>5. /\ n \in 2 .. 5 /\ l = Round[n] /\ r \in Nat /\ m = 3 * r + 1
      /\ n = 2 => r = 0
      /\ n # 2 => r \in Router
      /\ UnderWay(cmds, Tail(tcp), n, 3 * r + 2)
      /\ \A x \in Router : n # 2 /\ x < r => 3 * x + 2 < m
  <2>1. Number(Head(tcp)) = 3 * r + 1 /\ r \in Nat
    BY <1>1, <1>4, HeadFacts
  <2>2. UnderWay(cmds, Tail(tcp), n, Number(Head(tcp)) + 1)
    BY <1>4, HeadFacts
  <2>3. (3 * r + 1) + 1 = 3 * r + 2
    BY <2>1
  <2>4. UnderWay(cmds, Tail(tcp), n, 3 * r + 2)
    BY <2>1, <2>2, <2>3, Zenon
  <2> QED BY <1>1, <1>4, <2>4, HeadFacts
<1>6. UnderWay(cmds', tcp', n, 3 * r + 2)
  BY <1>3, <1>4, <1>5, Zenon
<1>7. n \in {2, 3, 4, 5} /\ l = CASE n = 2 -> "RouterNames" [] n = 3 -> "SourceNames"
                                  [] n = 4 -> "DestNames" [] n = 5 -> "SnapshotNames"
  BY <1>5, RoundFacts
<1>8. Reading(l) /\ (n # 2 => current = r)
  BY <1>1, <1>4, NamesFound
<1>9. /\ into("RouterNames") <=> n = 2
      /\ into("SourceNames") <=> n = 3
      /\ into("DestNames") <=> n = 4
      /\ into("SnapshotNames") <=> n = 5
  BY <1>7, <1>8
<1> HIDE DEF into
<1>10. /\ outputs \in [Router -> SUBSET Output] /\ shots \in [Router -> SUBSET {"own", "other"}]
  BY DEF TypeInv
<1>11. Router \subseteq Nat \ {0}
  BY SaAssumption
<1>12. Progress(n, m)
  BY DEF Session
<1>13. ASSUME NEW x \in Router, NEW k \in 3 .. 5, Read(k, x, n, 3 * r + 2)
       PROVE  Read(k, x, n, m) \/ (n = k /\ x = r)
  <2>1. CASE n > k
    BY <2>1 DEF Read
  <2>2. CASE n = k /\ 3 * x + 1 < 3 * r + 2
    <3>1. x < r \/ x = r
      BY <1>5, <1>11, <2>2
    <3>2. x < r => 3 * x + 1 < m
      BY <1>5, <1>11
    <3> QED BY <2>2, <3>1, <3>2 DEF Read
  <2> QED BY <1>13, <2>1, <2>2 DEF Read
<1>14. Progress(n, 3 * r + 2)'
  <2>1. torn' => n = 1 /\ 3 * r + 2 = 0
    BY <1>3
  <2>2. \A k \in 1 .. 4 : k + 1 < n => List[k] \notin reading'
    BY <1>3, <1>12 DEF Progress
  <2>3. \A x \in Router \cup {0} :
          n \in 2 .. 5 /\ 3 * r + 2 = 3 * x + 1 =>
            List[n - 1] \in reading' /\ (n # 2 => current' = x)
    BY <1>5, <1>11
  <2>4. Read(2, 0, n, 3 * r + 2) => routers' = Router
    <3>1. CASE n = 2
      BY <1>3, <1>9, <3>1
    <3>2. CASE n # 2
      <4>1. Read(2, 0, n, m)
        BY <1>5, <3>2 DEF Read
      <4> QED BY <1>3, <1>9, <1>12, <3>2, <4>1 DEF Progress
    <3> QED BY <3>1, <3>2
  <2>5. ASSUME NEW x \in Router
        PROVE  /\ Read(3, x, n, 3 * r + 2) => x \in inputs'
               /\ Read(4, x, n, 3 * r + 2) => outputs'[x] = OutputsOf(x)
               /\ Read(5, x, n, 3 * r + 2) => "own" \in shots'[x]
    <3>1. Read(3, x, n, 3 * r + 2) => x \in inputs'
      <4> SUFFICES ASSUME Read(3, x, n, 3 * r + 2) PROVE x \in inputs'
        OBVIOUS
      <4>1. Read(3, x, n, m) \/ (n = 3 /\ x = r)
        BY <1>13
      <4>2. x \in inputs \/ (n = 3 /\ x = r)
        BY <1>12, <4>1 DEF Progress
      <4> QED BY <1>3, <1>8, <1>9, <4>2
    <3>2. Read(4, x, n, 3 * r + 2) => outputs'[x] = OutputsOf(x)
      <4> SUFFICES ASSUME Read(4, x, n, 3 * r + 2) PROVE outputs'[x] = OutputsOf(x)
        OBVIOUS
      <4>1. CASE n = 4 /\ x = r
        <5>1. listed = OutputsOf(x)
          <6>1. \A v \in Destinations : v = <<v[1], v[2], v[3]>> /\ v[2] \in Output /\ v[3] \in Dest
            BY SaAssumption
          <6>2. ASSUME NEW o \in listed PROVE o \in OutputsOf(x)
            <7>1. PICK d \in Dest : <<x, o, d>> \in Destinations
              BY <1>2, <1>8, <4>1
            <7> QED BY <7>1 DEF OutputsOf
          <6>3. ASSUME NEW o \in OutputsOf(x) PROVE o \in listed
            <7>1. PICK v \in Destinations : v[1] = x /\ v[2] = o
              BY DEF OutputsOf
            <7>2. <<x, o, v[3]>> \in Destinations /\ v[3] \in Dest /\ o \in Output
              BY <6>1, <7>1
            <7> QED BY <1>2, <1>8, <4>1, <7>2
          <6> QED BY <6>2, <6>3
        <5>2. outputs' = [outputs EXCEPT ![x] = listed]
          BY <1>3, <1>8, <1>9, <4>1
        <5> QED BY <1>10, <5>1, <5>2
      <4>2. CASE ~(n = 4 /\ x = r)
        <5>1. Read(4, x, n, m)
          BY <1>13, <4>2
        <5>2. outputs[x] = OutputsOf(x)
          BY <1>12, <5>1 DEF Progress
        <5>3. outputs'[x] = outputs[x]
          BY <1>3, <1>8, <1>9, <1>10, <4>2
        <5> QED BY <5>2, <5>3
      <4> QED BY <4>1, <4>2
    <3>3. Read(5, x, n, 3 * r + 2) => "own" \in shots'[x]
      <4> SUFFICES ASSUME Read(5, x, n, 3 * r + 2) PROVE "own" \in shots'[x]
        OBVIOUS
      <4>1. Read(5, x, n, m) \/ (n = 5 /\ x = r)
        BY <1>13
      <4>2. "own" \in shots[x] \/ (n = 5 /\ x = r)
        BY <1>12, <4>1 DEF Progress
      <4> QED BY <1>3, <1>8, <1>9, <1>10, <4>2
    <3> QED BY <3>1, <3>2, <3>3
  <2>6. n > 2 /\ Router # {} => last' \in Router /\ \A x \in Router : x <= last'
    BY <1>3, <1>12 DEF Progress
  <2> QED BY <2>1, <2>2, <2>3, <2>4, <2>5, <2>6, Zenon DEF Progress
<1>15. Session(n, 3 * r + 2)'
  <2>1. drops' = 0 /\ (awaited' # None \/ starting' \/ connected') => n = 6
    BY <1>3, <1>4 DEF Session
  <2>2. n # 1
    BY <1>5
  <2>3. Unfinished(n, 3 * r + 2)
    <3>1. 3 * r + 2 \in All(n) /\ 3 * r + 2 >= 3 * r + 2
      BY <1>5, OfRouterInAll
    <3> QED BY <3>1 DEF Unfinished
  <2> QED BY <1>6, <1>14, <2>1, <2>2, <2>3, Zenon DEF Session
<1>16. 3 * r + 2 \in Nat
  BY <1>5
<1>17. inputs \subseteq Router => inputs' \subseteq Router
  BY <1>3, <1>5, <1>8, <1>9
<1> QED BY <1>15, <1>16, <1>17 DEF Goes

LEMMA EndsOther ==
  ASSUME TypeInv, TypeInv', NEW n \in 1 .. 6, NEW m \in Nat, Session(n, m), ReceiveEndOther
  PROVE  Goes(n)
<1>1. PICK r : r = Head(tcp).router
  OBVIOUS
<1>2. /\ Receive("End") /\ ~torn /\ torn' = torn /\ r \notin {0, last}
      /\ UNCHANGED <<cmds, reading, last, awaited, starting, connected, lists>>
  BY <1>1 DEF ReceiveEndOther, EndsRound, Whole
<1>3. /\ tcp # <<>> /\ Head(tcp).line = "End" /\ tcp' = Tail(tcp) /\ drops' = drops
  BY <1>2, ReceiveFacts
<1>4. /\ n \in 2 .. 5 /\ r \in Nat /\ m = 3 * r + 2 /\ (n = 2 => r = 0)
      /\ UnderWay(cmds, Tail(tcp), n, 3 * r + 3)
  <2>1. Number(Head(tcp)) = 3 * r + 2 /\ r \in Nat
    BY <1>1, <1>3, HeadFacts
  <2>2. UnderWay(cmds, Tail(tcp), n, Number(Head(tcp)) + 1)
    BY <1>3, HeadFacts
  <2>3. (3 * r + 2) + 1 = 3 * r + 3
    BY <2>1
  <2>4. UnderWay(cmds, Tail(tcp), n, 3 * r + 3)
    BY <2>1, <2>2, <2>3, Zenon
  <2> QED BY <1>1, <1>3, <2>4, HeadFacts
<1>5. UnderWay(cmds', tcp', n, 3 * r + 3)
  BY <1>2, <1>3, <1>4, Zenon
<1>6. Router \subseteq Nat \ {0}
  BY SaAssumption
<1>7. Progress(n, m)
  BY DEF Session
<1>8. n # 2
  BY <1>2, <1>4
<1>9. ASSUME NEW x \in Router \cup {0}, NEW k \in 2 .. 5, Read(k, x, n, 3 * r + 3)
      PROVE  Read(k, x, n, m)
  <2>1. x \in Nat
    BY <1>6
  <2> QED BY <1>4, <1>9, <2>1 DEF Read
<1>10. Progress(n, 3 * r + 3)'
  <2>1. torn' => n = 1 /\ 3 * r + 3 = 0
    BY <1>2
  <2>2. \A k \in 1 .. 4 : k + 1 < n => List[k] \notin reading'
    BY <1>2, <1>7 DEF Progress
  <2>3. \A x \in Router \cup {0} :
          n \in 2 .. 5 /\ 3 * r + 3 = 3 * x + 1 =>
            List[n - 1] \in reading' /\ (n # 2 => current' = x)
    BY <1>4, <1>6
  <2>4. Read(2, 0, n, 3 * r + 3) => routers' = Router
    BY <1>2, <1>7, <1>9 DEF Progress, lists
  <2>5. ASSUME NEW x \in Router
        PROVE  /\ Read(3, x, n, 3 * r + 3) => x \in inputs'
               /\ Read(4, x, n, 3 * r + 3) => outputs'[x] = OutputsOf(x)
               /\ Read(5, x, n, 3 * r + 3) => "own" \in shots'[x]
    <3>1. /\ Read(3, x, n, 3 * r + 3) => Read(3, x, n, m)
          /\ Read(4, x, n, 3 * r + 3) => Read(4, x, n, m)
          /\ Read(5, x, n, 3 * r + 3) => Read(5, x, n, m)
      BY <1>9
    <3>2. UNCHANGED <<inputs, outputs, shots>>
      BY <1>2 DEF lists
    <3> QED BY <1>7, <3>1, <3>2 DEF Progress
  <2>6. n > 2 /\ Router # {} => last' \in Router /\ \A x \in Router : x <= last'
    BY <1>2, <1>7 DEF Progress
  <2> QED BY <2>1, <2>2, <2>3, <2>4, <2>5, <2>6, Zenon DEF Progress
<1>11. Session(n, 3 * r + 3)'
  <2>1. drops' = 0 /\ (awaited' # None \/ starting' \/ connected') => n = 6
    BY <1>2, <1>3 DEF Session
  <2>2. n # 1
    BY <1>4
  <2>3. Unfinished(n, 3 * r + 3)
    <3>1. r \in Router
      BY <1>1, <1>3, <1>8, HeadFacts
    <3>2. last \in Router /\ r <= last
      <4>1. n > 2 /\ Router # {}
        BY <1>4, <1>8, <3>1
      <4> QED BY <1>7, <3>1, <4>1 DEF Progress
    <3>3. last \in Nat /\ last # r
      BY <1>2, <1>6, <3>2
    <3>4. 3 * last \in All(n)
      BY <1>4, <1>8, <3>2, OfRouterInAll
    <3>5. 3 * last >= 3 * r + 3
      BY <1>4, <3>2, <3>3
    <3> QED BY <3>4, <3>5 DEF Unfinished
  <2> QED BY <1>5, <1>10, <2>1, <2>2, <2>3, Zenon DEF Session
<1>12. 3 * r + 3 \in Nat
  BY <1>4
<1> QED BY <1>11, <1>12 DEF Goes

\* The end of a round: all of its lists are there.
LEMMA RoundEnds ==
  ASSUME TypeInv, NEW n \in 1 .. 6, NEW m \in Nat, Session(n, m), ~torn,
         tcp # <<>>, Head(tcp).line = "End",
         n = 2 \/ Head(tcp).router = last
  PROVE  /\ n \in 2 .. 5 /\ Head(tcp).list = Round[n]
         /\ cmds = <<>> /\ \A k \in DOMAIN Tail(tcp) : ~Listed(Tail(tcp)[k])
         /\ routers = Router
         /\ n > 2 /\ Router # {} => last \in Router /\ \A x \in Router : x <= last
         /\ \A k \in 1 .. 4 : k + 1 < n => List[k] \notin reading
         /\ \A x \in Router : /\ n >= 3 => x \in inputs
                              /\ n >= 4 => outputs[x] = OutputsOf(x)
                              /\ n >= 5 => "own" \in shots[x]
<1>1. PICK r : r = Head(tcp).router
  OBVIOUS
<1>2. Router \subseteq Nat \ {0}
  BY SaAssumption
<1>3. /\ n \in 2 .. 5 /\ r \in Nat /\ m = 3 * r + 2 /\ (n = 2 => r = 0)
      /\ (n # 2 => r \in Router) /\ Head(tcp).list = Round[n]
      /\ UnderWay(cmds, Tail(tcp), n, 3 * r + 3)
  <2>1. Number(Head(tcp)) = 3 * r + 2 /\ r \in Nat
    BY <1>1, HeadFacts
  <2>2. UnderWay(cmds, Tail(tcp), n, Number(Head(tcp)) + 1)
    BY HeadFacts
  <2>3. (3 * r + 2) + 1 = 3 * r + 3
    BY <2>1
  <2>4. UnderWay(cmds, Tail(tcp), n, 3 * r + 3)
    BY <2>1, <2>2, <2>3, Zenon
  <2> QED BY <1>1, <2>4, HeadFacts
<1>4. Progress(n, m)
  BY DEF Session
<1>5. n # 2 => \A x \in Router : x <= r
  <2> SUFFICES ASSUME n # 2 PROVE \A x \in Router : x <= r
    OBVIOUS
  <2>1. n > 2 /\ Router # {}
    BY <1>3
  <2>2. \A x \in Router : x <= last
    BY <1>4, <2>1 DEF Progress
  <2> QED BY <1>1, <2>2
<1>6. \A i \in All(n) : ~(i >= 3 * r + 3)
  <2>1. CASE n = 2
    <3>1. All(n) = 0 .. 2 /\ r = 0
      BY <1>3, <2>1, AllFacts
    <3> QED BY <3>1
  <2>2. CASE n # 2
    <3>1. All(n) = UNION {OfRouter(x) : x \in Router}
      BY <1>3, <2>2, AllFacts
    <3> SUFFICES ASSUME NEW i \in All(n) PROVE ~(i >= 3 * r + 3)
      OBVIOUS
    <3>2. PICK x \in Router : i \in OfRouter(x)
      BY <3>1
    <3>3. x \in Nat /\ x <= r
      BY <1>2, <1>5, <2>2
    <3> QED BY <1>3, <3>2, <3>3 DEF OfRouter
  <2> QED BY <2>1, <2>2
<1>7. cmds = <<>> /\ \A k \in DOMAIN Tail(tcp) : ~Listed(Tail(tcp)[k])
  <2>1. cmds \in Seq(Command) /\ Tail(tcp) \in Seq(Line)
    BY NumbersTail DEF TypeInv
  <2>2. 3 * r + 3 \in Nat /\ n \in 1 .. 5
    BY <1>3
  <2> QED BY <1>3, <1>6, <2>1, <2>2, RoundOver
<1>8. Read(2, 0, n, m)
  BY <1>3 DEF Read
<1>9. ASSUME NEW x \in Router, NEW k \in 3 .. 5, n >= k PROVE Read(k, x, n, m)
  <2>1. CASE n > k
    BY <2>1 DEF Read
  <2>2. CASE n = k
    <3>1. x \in Nat /\ x <= r
      BY <1>2, <1>5, <2>2
    <3> QED BY <1>3, <2>2, <3>1 DEF Read
  <2> QED BY <1>9, <2>1, <2>2
<1>10. routers = Router
  BY <1>4, <1>8 DEF Progress
<1>11. ASSUME NEW x \in Router
       PROVE  /\ n >= 3 => x \in inputs
              /\ n >= 4 => outputs[x] = OutputsOf(x)
              /\ n >= 5 => "own" \in shots[x]
  <2>1. /\ n >= 3 => Read(3, x, n, m)
        /\ n >= 4 => Read(4, x, n, m)
        /\ n >= 5 => Read(5, x, n, m)
    BY <1>9
  <2> QED BY <1>4, <2>1 DEF Progress
<1>12. /\ n > 2 /\ Router # {} => last \in Router /\ \A x \in Router : x <= last
       /\ \A k \in 1 .. 4 : k + 1 < n => List[k] \notin reading
  BY <1>4 DEF Progress
<1> QED BY <1>3, <1>7, <1>10, <1>11, <1>12

\* The next round begins with its questions.
LEMMA RoundStarts ==
  ASSUME TypeInv, NEW n \in 1 .. 5,
         IsRound(cmds', n + 1), \A k \in DOMAIN tcp' : ~Listed(tcp'[k]),
         ~torn',
         \A k \in 1 .. 4 : k < n => List[k] \notin reading',
         n > 1 => routers' = Router,
         \A x \in Router : /\ n >= 3 => x \in inputs'
                           /\ n >= 4 => outputs'[x] = OutputsOf(x)
                           /\ n >= 5 => "own" \in shots'[x],
         n >= 2 /\ Router # {} => last' \in Router /\ \A x \in Router : x <= last',
         drops' = 0 /\ (awaited' # None \/ starting' \/ connected') => n = 5
  PROVE  Session(n + 1, 0)'
<1>1. n + 1 \in 1 .. 6 /\ n + 1 # 1
  OBVIOUS
<1>2. UnderWay(cmds', tcp', n + 1, 0)
  BY <1>1, RoundBegins
<1>3. Router \subseteq Nat \ {0}
  BY SaAssumption
<1>4. ASSUME NEW x \in Router \cup {0}, NEW k \in 2 .. 5, Read(k, x, n + 1, 0)
      PROVE  n >= k
  <2>1. ~(3 * x + 1 < 0)
    BY <1>3
  <2>2. n + 1 > k
    BY <1>4, <2>1 DEF Read
  <2> QED BY <2>2
<1>5. \A x \in Router \cup {0} : 0 # 3 * x + 1
  BY <1>3
<1>6. Progress(n + 1, 0)'
  <2>1. torn' => n + 1 = 1 /\ 0 = 0
    OBVIOUS
  <2>2. \A k \in 1 .. 4 : k + 1 < n + 1 => List[k] \notin reading'
    OBVIOUS
  <2>3. \A x \in Router \cup {0} :
          n + 1 \in 2 .. 5 /\ 0 = 3 * x + 1 =>
            List[(n + 1) - 1] \in reading' /\ (n + 1 # 2 => current' = x)
    BY <1>5
  <2>4. Read(2, 0, n + 1, 0) => routers' = Router
    <3>1. Read(2, 0, n + 1, 0) => n >= 2
      BY <1>4
    <3> QED BY <3>1
  <2>5. ASSUME NEW x \in Router
        PROVE  /\ Read(3, x, n + 1, 0) => x \in inputs'
               /\ Read(4, x, n + 1, 0) => outputs'[x] = OutputsOf(x)
               /\ Read(5, x, n + 1, 0) => "own" \in shots'[x]
    <3>1. /\ Read(3, x, n + 1, 0) => n >= 3
          /\ Read(4, x, n + 1, 0) => n >= 4
          /\ Read(5, x, n + 1, 0) => n >= 5
      BY <1>4
    <3> QED BY <3>1
  <2>6. n + 1 > 2 /\ Router # {} => last' \in Router /\ \A x \in Router : x <= last'
    OBVIOUS
  <2> QED BY <2>1, <2>2, <2>3, <2>4, <2>5, <2>6, Zenon DEF Progress
<1>7. drops' = 0 /\ (awaited' # None \/ starting' \/ connected') => n + 1 = 6
  OBVIOUS
<1>8. Unfinished(n + 1, 0)
  <2> SUFFICES ASSUME n + 1 \in 2 .. 5, Router # {} PROVE \E i \in All(n + 1) : i >= 0
    BY DEF Unfinished
  <2>1. PICK r : (n + 1 = 2 => r = 0) /\ (n + 1 # 2 => r \in Router)
    OBVIOUS
  <2>2. r \in Nat /\ 3 * r \in All(n + 1)
    BY <2>1, OfRouterInAll
  <2>3. 3 * r >= 0
    BY <2>2
  <2> QED BY <2>2, <2>3
<1> QED BY <1>1, <1>2, <1>6, <1>7, <1>8, Zenon DEF Session

LEMMA JoinedToNothing ==
  ASSUME NEW S, NEW q \in Seq(S)
  PROVE  <<>> \o q = q
OBVIOUS

\* The questions to all routers are the next round.
LEMMA AskAll ==
  ASSUME NEW n \in 3 .. 6, NEW rs, rs \subseteq Router, n # 6 => rs = Router,
         cmds = <<>>, cmds' = cmds \o Ask(Round[n], rs)
  PROVE  /\ IsRound(cmds', n)
         /\ \A r \in rs : \E k \in DOMAIN cmds' : cmds'[k] = [cmd |-> Round[n], router |-> r]
<1>1. PICK q : q = Ask(Round[n], rs)
  OBVIOUS
<1>2. IsRound(q, n)
  BY <1>1, AskFacts
<1>3. q \in Seq(Command)
  BY <1>2 DEF IsRound
<1>4. cmds' = q
  BY <1>1, <1>3, JoinedToNothing
<1>5. \A r \in rs : \E k \in DOMAIN q : q[k] = [cmd |-> Round[n], router |-> r]
  BY <1>1, AskFacts, Zenon
<1> QED BY <1>2, <1>4, <1>5, Zenon

LEMMA EndsRouters ==
  ASSUME TypeInv, TypeInv', NEW n \in 1 .. 6, NEW m \in Nat, Session(n, m), ReceiveEndRouters
  PROVE  Goes(n)
<1>1. /\ Receive("End") /\ ~torn /\ torn' = torn /\ Head(tcp).list = "RouterNames"
      /\ reading' = reading \ {"RouterNames"}
      /\ cmds' = cmds \o Ask("SourceNames", routers)
      /\ last' = IF routers = {} THEN last ELSE Max(routers)
      /\ UNCHANGED <<current, awaited, starting, connected, lists>>
  BY DEF ReceiveEndRouters, Whole
<1>2. /\ tcp # <<>> /\ Head(tcp).line = "End" /\ tcp' = Tail(tcp) /\ drops' = drops
  BY <1>1, ReceiveFacts
<1>3. n = 2
  <2>1. n \in {2, 3, 4, 5} /\ Round[n] = "RouterNames"
    <3>1. n \in 2 .. 5 /\ Head(tcp).list = Round[n]
      BY <1>2, HeadFacts
    <3> QED BY <1>1, <3>1
  <2> QED BY <2>1, RoundFacts
<1>4. /\ cmds = <<>> /\ \A k \in DOMAIN tcp' : ~Listed(tcp'[k])
      /\ routers = Router
  BY <1>1, <1>2, <1>3, RoundEnds
<1>5. IsRound(cmds', 3)
  <2>1. cmds' = cmds \o Ask(Round[3], Router)
    BY <1>1, <1>4, RoundFacts
  <2> QED BY <1>4, <2>1, AskAll
<1>6. Router # {} => last' \in Router /\ \A x \in Router : x <= last'
  BY <1>1, <1>4, MaxFacts
<1>7. \A k \in 1 .. 4 : k < 2 => List[k] \notin reading'
  <2>1. List[1] \notin reading'
    BY <1>1, RoundFacts
  <2> QED BY <2>1
<1>8. drops' = 0 /\ (awaited' # None \/ starting' \/ connected') => 2 = 5
  BY <1>1, <1>2, <1>3 DEF Session
<1>9. routers' = Router
  BY <1>1, <1>4 DEF lists
<1>10. Session(2 + 1, 0)'
  BY <1>1, <1>4, <1>5, <1>6, <1>7, <1>8, <1>9, RoundStarts
<1>11. 2 + 1 \in 1 .. 6 /\ 0 \in Nat /\ 2 + 1 # 6
  OBVIOUS
<1> QED BY <1>10, <1>11, Zenon DEF Goes

\* The end of the last router's list.
LEMMA EndsLast ==
  ASSUME TypeInv, NEW n \in 1 .. 6, NEW m \in Nat, Session(n, m),
         NEW l \in {"SourceNames", "DestNames", "SnapshotNames"},
         EndsRound(l), Head(tcp).router = last, reading' = reading \ {l}
  PROVE  /\ n \in 3 .. 5 /\ l = Round[n] /\ cmds = <<>> /\ routers = Router
         /\ IsRound(cmds', n + 1) /\ (n < 5 => awaited' = awaited) => Session(n + 1, 0)'
         /\ \A x \in Router : n >= 4 => outputs[x] = OutputsOf(x)
<1>1. /\ Receive("End") /\ ~torn /\ torn' = torn /\ Head(tcp).list = l
      /\ UNCHANGED <<last, starting, connected, lists>>
  BY DEF EndsRound, Whole
<1>2. /\ tcp # <<>> /\ Head(tcp).line = "End" /\ tcp' = Tail(tcp) /\ drops' = drops
  BY <1>1, ReceiveFacts
<1>3. /\ n \in 2 .. 5 /\ l = Round[n]
      /\ cmds = <<>> /\ \A k \in DOMAIN tcp' : ~Listed(tcp'[k])
      /\ routers = Router
      /\ n > 2 /\ Router # {} => last \in Router /\ \A x \in Router : x <= last
      /\ \A k \in 1 .. 4 : k + 1 < n => List[k] \notin reading
      /\ \A x \in Router : /\ n >= 3 => x \in inputs
                           /\ n >= 4 => outputs[x] = OutputsOf(x)
                           /\ n >= 5 => "own" \in shots[x]
  BY <1>1, <1>2, RoundEnds
<1>4. n \in 3 .. 5
  <2>1. n # 2
    BY <1>3, RoundFacts
  <2> QED BY <1>3, <2>1
<1>5. ASSUME IsRound(cmds', n + 1), n < 5 => awaited' = awaited
      PROVE  Session(n + 1, 0)'
  <2>1. \A k \in 1 .. 4 : k < n => List[k] \notin reading'
    <3> SUFFICES ASSUME NEW k \in 1 .. 4, k < n PROVE List[k] \notin reading'
      OBVIOUS
    <3>1. CASE k + 1 < n
      BY <1>3, <3>1
    <3>2. CASE ~(k + 1 < n)
      <4>1. k = n - 1 /\ n \in 2 .. 5
        BY <1>4, <3>2
      <4>2. List[k] = l
        BY <1>3, <4>1, ListNames
      <4> QED BY <4>2
    <3> QED BY <3>1, <3>2
  <2>2. UNCHANGED <<routers, inputs, outputs, shots>>
    BY <1>1 DEF lists
  <2>3. drops' = 0 /\ (awaited' # None \/ starting' \/ connected') => n = 5
    <3>1. drops = 0 /\ (awaited # None \/ starting \/ connected) => n = 6
      BY DEF Session
    <3>2. UNCHANGED <<starting, connected>> /\ drops' = drops
      BY <1>1, <1>2
    <3> QED BY <1>4, <1>5, <3>1, <3>2
  <2>4. routers' = Router
    BY <1>3, <2>2
  <2>5. \A x \in Router : /\ n >= 3 => x \in inputs'
                          /\ n >= 4 => outputs'[x] = OutputsOf(x)
                          /\ n >= 5 => "own" \in shots'[x]
    BY <1>3, <2>2
  <2>6. n >= 2 /\ Router # {} => last' \in Router /\ \A x \in Router : x <= last'
    BY <1>1, <1>3, <1>4
  <2>7. n \in 1 .. 5 /\ ~torn' /\ \A k \in DOMAIN tcp' : ~Listed(tcp'[k])
    BY <1>1, <1>3
  <2> QED BY <1>5, <2>1, <2>3, <2>4, <2>5, <2>6, <2>7, RoundStarts
<1> QED BY <1>3, <1>4, <1>5

LEMMA EndsSourcesOrDests ==
  ASSUME TypeInv, TypeInv', NEW n \in 1 .. 6, NEW m \in Nat, Session(n, m),
         ReceiveEndSources \/ ReceiveEndDests
  PROVE  Goes(n)
<1>1. ASSUME NEW l \in {"SourceNames", "DestNames"}, NEW name,
             NextRound(l, name), n \in 3 .. 5 /\ l = Round[n] => n < 5 /\ name = Round[n + 1]
      PROVE  Goes(n)
  <2>1. /\ EndsRound(l) /\ Head(tcp).router = last /\ reading' = reading \ {l}
        /\ cmds' = cmds \o Ask(name, routers) /\ awaited' = awaited
    BY <1>1 DEF NextRound
  <2>2. /\ n \in 3 .. 5 /\ l = Round[n] /\ cmds = <<>> /\ routers = Router
        /\ IsRound(cmds', n + 1) /\ (n < 5 => awaited' = awaited) => Session(n + 1, 0)'
    BY <2>1, EndsLast
  <2>3. n < 5 /\ name = Round[n + 1] /\ n + 1 \in 3 .. 6 /\ n + 1 # 6 /\ n + 1 \in 1 .. 6
    BY <1>1, <2>2
  <2>4. cmds' = cmds \o Ask(Round[n + 1], routers)
    BY <2>1, <2>3, Zenon
  <2>5. IsRound(cmds', n + 1)
    BY <2>2, <2>3, <2>4, AskAll
  <2>6. Session(n + 1, 0)'
    BY <2>1, <2>2, <2>5
  <2> QED BY <2>3, <2>6 DEF Goes
<1>2. CASE ReceiveEndSources
  <2>1. NextRound("SourceNames", "DestNames")
    BY <1>2 DEF ReceiveEndSources
  <2>2. n \in 3 .. 5 /\ "SourceNames" = Round[n] => n < 5 /\ "DestNames" = Round[n + 1]
    <3>1. n \in 3 .. 5 => n \in {3, 4, 5}
      OBVIOUS
    <3> QED BY <3>1, RoundFacts
  <2> QED BY <1>1, <2>1, <2>2
<1>3. CASE ReceiveEndDests
  <2>1. NextRound("DestNames", "SnapshotNames")
    BY <1>3 DEF ReceiveEndDests
  <2>2. n \in 3 .. 5 /\ "DestNames" = Round[n] => n < 5 /\ "SnapshotNames" = Round[n + 1]
    <3>1. n \in 3 .. 5 => n \in {3, 4, 5}
      OBVIOUS
    <3> QED BY <3>1, RoundFacts
  <2> QED BY <1>1, <2>1, <2>2
<1> QED BY <1>2, <1>3

\* The questions for the crosspoints: to every router with outputs.
LEMMA EndsSnapshots ==
  ASSUME TypeInv, TypeInv', NEW n \in 1 .. 6, NEW m \in Nat, Session(n, m),
         ReceiveEndSnapshots
  PROVE  /\ Session(6, 0)'
         /\ \A r \in Router : OutputsOf(r) # {} => Questioned(r)'
<1>1. PICK wanted : wanted = {r \in routers : outputs[r] # {}}
  OBVIOUS
<1>2. /\ EndsRound("SnapshotNames") /\ Head(tcp).router = last
      /\ reading' = reading \ {"SnapshotNames"}
      /\ cmds' = cmds \o Ask("RouteStat", wanted)
  BY <1>1, Zenon DEF ReceiveEndSnapshots
<1>3. /\ n \in 3 .. 5 /\ "SnapshotNames" = Round[n] /\ cmds = <<>> /\ routers = Router
      /\ IsRound(cmds', n + 1) /\ (n < 5 => awaited' = awaited) => Session(n + 1, 0)'
      /\ \A x \in Router : n >= 4 => outputs[x] = OutputsOf(x)
  BY <1>2, EndsLast
<1>4. n = 5
  <2>1. n \in {3, 4, 5}
    BY <1>3
  <2> QED BY <1>3, <2>1, RoundFacts
<1>5. cmds' = cmds \o Ask(Round[6], wanted) /\ wanted \subseteq Router
  BY <1>1, <1>2, <1>3, RoundFacts
<1>6. /\ IsRound(cmds', 6)
      /\ \A r \in wanted : \E k \in DOMAIN cmds' : cmds'[k] = [cmd |-> Round[6], router |-> r]
  BY <1>3, <1>5, AskAll
<1>7. n + 1 = 6 /\ ~(n < 5)
  BY <1>4
<1>8. Session(6, 0)'
  BY <1>3, <1>6, <1>7
<1>9. ASSUME NEW r \in Router, OutputsOf(r) # {} PROVE Questioned(r)'
  <2>1. r \in wanted
    BY <1>1, <1>3, <1>4, <1>9
  <2>2. PICK k \in DOMAIN cmds' : cmds'[k] = [cmd |-> Round[6], router |-> r]
    BY <1>6, <2>1
  <2>3. cmds'[k] = [cmd |-> "RouteStat", router |-> r]
    BY <2>2, RoundFacts
  <2> QED BY <2>3 DEF Questioned
<1> QED BY <1>8, <1>9

-----------------------------------------------------------------------------
(* The other steps of a session.                                           *)

\* Nothing has been read yet.
LEMMA FirstRound ==
  ASSUME NEW m \in Nat, UnderWay(cmds', tcp', 1, m), torn' => m = 0, Bare',
         ~(drops' = 0 /\ (awaited' # None \/ starting' \/ connected'))
  PROVE  Session(1, m)'
<1>1. Progress(1, m)'
  <2>1. \A k \in 2 .. 5 : \A r : ~Read(k, r, 1, m)
    BY DEF Read
  <2>2. /\ torn' => 1 = 1 /\ m = 0
        /\ \A k \in 1 .. 4 : k + 1 < 1 => List[k] \notin reading'
        /\ \A r \in Router \cup {0} :
             1 \in 2 .. 5 /\ m = 3 * r + 1 => List[1 - 1] \in reading' /\ (1 # 2 => current' = r)
        /\ Read(2, 0, 1, m) => routers' = Router
        /\ \A r \in Router :
             /\ Read(3, r, 1, m) => r \in inputs'
             /\ Read(4, r, 1, m) => outputs'[r] = OutputsOf(r)
             /\ Read(5, r, 1, m) => "own" \in shots'[r]
        /\ 1 > 2 /\ Router # {} => last' \in Router /\ \A r \in Router : r <= last'
    <3>1. ~(1 > 2) /\ ~(1 \in 2 .. 5) /\ \A k \in 1 .. 4 : ~(k + 1 < 1)
      OBVIOUS
    <3>2. ~Read(2, 0, 1, m) /\ \A r : ~Read(3, r, 1, m) /\ ~Read(4, r, 1, m) /\ ~Read(5, r, 1, m)
      BY <2>1
    <3> QED BY <3>1, <3>2, Zenon
  <2> QED BY <2>2, Zenon DEF Progress
<1>2. drops' = 0 /\ (awaited' # None \/ starting' \/ connected') => 1 = 6
  OBVIOUS
<1>3. Unfinished(1, m)
  BY DEF Unfinished
<1> QED BY <1>1, <1>2, <1>3, Zenon DEF Session

\* Nothing is read into the lists.
LEMMA SameRound ==
  ASSUME NEW n, NEW m, Session(n, m), UnderWay(cmds', tcp', n, m),
         UNCHANGED <<torn, reading, current, last, routers, inputs, outputs>>,
         \A r \in Router : "own" \in shots[r] => "own" \in shots'[r],
         drops' = 0 /\ (awaited' # None \/ starting' \/ connected') =>
           drops = 0 /\ (awaited # None \/ starting \/ connected)
  PROVE  Session(n, m)'
<1>1. /\ torn' = torn /\ reading' = reading /\ current' = current /\ last' = last
      /\ routers' = routers /\ inputs' = inputs /\ outputs' = outputs
  OBVIOUS
<1>2. Progress(n, m)'
  <2>1. Progress(n, m)
    BY DEF Session
  <2>2. /\ torn' => n = 1 /\ m = 0
        /\ \A k \in 1 .. 4 : k + 1 < n => List[k] \notin reading'
        /\ \A r \in Router \cup {0} :
             n \in 2 .. 5 /\ m = 3 * r + 1 => List[n - 1] \in reading' /\ (n # 2 => current' = r)
        /\ Read(2, 0, n, m) => routers' = Router
        /\ n > 2 /\ Router # {} => last' \in Router /\ \A r \in Router : r <= last'
    <3>1. torn' => n = 1 /\ m = 0
      <4>1. torn => n = 1 /\ m = 0
        BY <2>1, Zenon DEF Progress
      <4> QED BY <1>1, <4>1
    <3>2. \A k \in 1 .. 4 : k + 1 < n => List[k] \notin reading'
      BY <1>1, <2>1, Zenon DEF Progress
    <3>3. \A r \in Router \cup {0} :
            n \in 2 .. 5 /\ m = 3 * r + 1 => List[n - 1] \in reading' /\ (n # 2 => current' = r)
      BY <1>1, <2>1, Zenon DEF Progress
    <3>4. Read(2, 0, n, m) => routers' = Router
      BY <1>1, <2>1, Zenon DEF Progress
    <3>5. n > 2 /\ Router # {} => last' \in Router /\ \A r \in Router : r <= last'
      <4>1. n > 2 /\ Router # {} => last \in Router /\ \A r \in Router : r <= last
        BY <2>1, Zenon DEF Progress
      <4> QED BY <1>1, <4>1
    <3> QED BY <3>1, <3>2, <3>3, <3>4, <3>5, Zenon
  <2>3. \A r \in Router :
          /\ Read(3, r, n, m) => r \in inputs'
          /\ Read(4, r, n, m) => outputs'[r] = OutputsOf(r)
          /\ Read(5, r, n, m) => "own" \in shots'[r]
    BY <1>1, <2>1, Zenon DEF Progress
  <2> QED BY <2>2, <2>3, Zenon DEF Progress
<1>3. n = 1 => Bare'
  BY <1>1, Zenon DEF Session, Bare
<1>4. drops' = 0 /\ (awaited' # None \/ starting' \/ connected') => n = 6
  BY Zenon DEF Session
<1>5. Unfinished(n, m)
  BY DEF Session
<1> QED BY <1>2, <1>3, <1>4, <1>5, Zenon DEF Session

LEMMA LogsIn ==
  ASSUME TypeInv, TypeInv', NEW n \in 1 .. 6, NEW m \in Nat, Session(n, m), ReceiveLogin
  PROVE  Goes(n)
<1>1. /\ Receive("Login") /\ ~torn /\ torn' = torn
      /\ cmds' = Append(cmds, [cmd |-> "RouterNames"])
      /\ UNCHANGED <<reading, current, last, awaited, starting, connected, lists>>
  BY DEF ReceiveLogin, Whole
<1>2. /\ tcp # <<>> /\ Head(tcp).line = "Login" /\ tcp' = Tail(tcp) /\ drops' = drops
      /\ Head(tcp) \in Line
  BY <1>1, ReceiveFacts
<1>3. /\ cmds \in Seq(Command) /\ tcp \in Seq(Line) /\ UnderWay(cmds, tcp, n, m)
      /\ tcp' \in Seq(Line)
  BY DEF TypeInv, Session
<1>4. Listed(Head(tcp)) /\ Number(Head(tcp)) = 0
  BY <1>2 DEF Listed, Number
<1>5. /\ Belongs(Head(tcp), n) /\ UnderWay(cmds, tcp', n, 0 + 1)
  <2>1. /\ Belongs(Head(tcp), n) /\ UnderWay(cmds, Tail(tcp), n, Number(Head(tcp)) + 1)
    BY <1>2, <1>3, <1>4, ListedUnderWay
  <2> QED BY <1>2, <1>4, <2>1, Zenon
<1>6. n = 1
  BY <1>2, <1>4, <1>5 DEF Belongs
<1>7. cmds = <<>> /\ \A k \in DOMAIN tcp' : ~Listed(tcp'[k])
  <2>1. \A i \in All(1) : ~(i >= 0 + 1)
    BY AllFacts
  <2>2. 1 \in 1 .. 5 /\ 0 + 1 \in Nat
    OBVIOUS
  <2>3. UnderWay(cmds, tcp', 1, 0 + 1)
    BY <1>5, <1>6, Zenon
  <2> QED BY <1>3, <2>1, <2>2, <2>3, RoundOver
<1>8. IsRound(cmds', 2)
  <2>1. PICK c \in Command : c = [cmd |-> "RouterNames"]
    BY CommandTypes
  <2>2. cmds' = <<c>>
    BY <1>1, <1>7, <2>1
  <2>3. cmds' \in Seq(Command) /\ DOMAIN cmds' = {1} /\ cmds'[1] = c
    BY <2>2 DEF TypeInv
  <2>4. c.cmd = Round[2]
    BY <2>1, RoundFacts
  <2>5. Answers(c) = All(2)
    <3>1. Answers(c) = 0 .. 2
      BY <2>1 DEF Answers
    <3> QED BY <3>1, AllFacts
  <2>6. Asked(cmds') = All(2)
    BY <2>3, <2>5 DEF Asked
  <2> QED BY <2>3, <2>4, <2>6 DEF IsRound
<1>9. drops' = 0 /\ (awaited' # None \/ starting' \/ connected') => 1 = 5
  BY <1>1, <1>2, <1>6 DEF Session
<1>10. Session(1 + 1, 0)'
  <2>1. IsRound(cmds', 1 + 1)
    BY <1>8
  <2>2. 1 \in 1 .. 5 /\ (\A k \in 1 .. 4 : ~(k < 1)) /\ ~(1 > 1) /\ ~(1 >= 3) /\ ~(1 >= 4)
        /\ ~(1 >= 5) /\ ~(1 >= 2)
    OBVIOUS
  <2> QED BY <1>1, <1>7, <1>9, <2>1, <2>2, RoundStarts
<1>11. 1 + 1 \in 1 .. 6 /\ 0 \in Nat /\ 1 + 1 # 6
  OBVIOUS
<1> QED BY <1>10, <1>11, Zenon DEF Goes

LEMMA TornLine ==
  ASSUME TypeInv, TypeInv', Bare0, NEW n \in 1 .. 6, NEW m \in Nat, Session(n, m), ReceiveTorn
  PROVE  Goes(n)
<1>1. /\ torn /\ torn' = FALSE
      /\ \E kind \in {"Login", "Begin", "Names", "End", "RouteStat"} : Receive(kind)
      /\ UNCHANGED <<cmds, reading, current, last, awaited, starting, connected, xpoint>>
  BY DEF ReceiveTorn
<1>2. /\ tcp # <<>> /\ tcp' = Tail(tcp) /\ drops' = drops /\ Head(tcp) \in Line
  BY <1>1, ReceiveFacts
<1>3. n = 1 /\ m = 0
  BY <1>1 DEF Session, Progress
<1>4. /\ cmds \in Seq(Command) /\ tcp \in Seq(Line) /\ UnderWay(cmds, tcp, 1, 0)
  BY <1>3 DEF TypeInv, Session
<1>5. \E m2 \in Nat : UnderWay(cmds', tcp', 1, m2)
  <2>1. CASE Listed(Head(tcp))
    <3>1. UnderWay(cmds, Tail(tcp), 1, Number(Head(tcp)) + 1) /\ 1 \in 1 .. 6 /\ 0 \in Nat
      BY <1>2, <1>4, <2>1, ListedUnderWay
    <3>2. Number(Head(tcp)) \in Nat
      BY <1>2, <2>1, LineFacts
    <3>3. PICK b \in Nat : b = Number(Head(tcp)) + 1
      BY <3>2
    <3>4. UnderWay(cmds', tcp', 1, b)
      BY <1>1, <1>2, <3>1, <3>3, Zenon
    <3> QED BY <3>4
  <2>2. CASE ~Listed(Head(tcp))
    <3>1. UnderWay(cmds, Tail(tcp), 1, 0)
      BY <1>2, <1>4, <2>2, StatUnderWay
    <3>2. UnderWay(cmds', tcp', 1, 0) /\ 0 \in Nat
      BY <1>1, <1>2, <3>1, Zenon
    <3> QED BY <3>2
  <2> QED BY <2>1, <2>2
<1>6. PICK m2 \in Nat : UnderWay(cmds', tcp', 1, m2)
  BY <1>5
<1>7. Bare'
  <2>1. routers = {} /\ \A r \in Router : outputs[r] = {}
    BY <1>1 DEF Bare0
  <2>2. PICK r \in Router, o \in Output, name \in BOOLEAN :
          /\ routers' = IF name /\ Reading("RouterNames") THEN routers \cup {r} ELSE routers
          /\ inputs' = IF name /\ Reading("SourceNames") THEN inputs \cup {current} ELSE inputs
          /\ outputs' = IF name /\ Reading("DestNames")
                          THEN [outputs EXCEPT ![current] = @ \cup {o}] ELSE outputs
    BY Zenon DEF ReceiveTorn
  <2>3. ~(Reading("RouterNames") /\ Reading("DestNames"))
    <3>1. reading \subseteq Range(List)
      BY DEF TypeInv
    <3>2. "RouterNames" # "DestNames"
      OBVIOUS
    <3> QED BY <3>1, <3>2, OneReading
  <2>4. CASE ~Reading("RouterNames")
    <3>1. routers' = {}
      BY <2>1, <2>2, <2>4
    <3> QED BY <3>1 DEF Bare
  <2>5. CASE ~Reading("DestNames")
    <3>1. outputs' = outputs
      BY <2>2, <2>5
    <3> QED BY <2>1, <3>1 DEF Bare
  <2> QED BY <2>3, <2>4, <2>5
<1>8. ~(drops' = 0 /\ (awaited' # None \/ starting' \/ connected'))
  BY <1>1, <1>2, <1>3 DEF Session
<1>9. Session(1, m2)'
  BY <1>1, <1>6, <1>7, <1>8, FirstRound
<1>10. 1 \in 1 .. 6 /\ 1 # 6
  OBVIOUS
<1> QED BY <1>9, <1>10 DEF Goes

LEMMA StatRead ==
  ASSUME TypeInv, TypeInv', NEW n \in 1 .. 6, NEW m \in Nat, Session(n, m),
         ReceiveStatUnread \/ ReceiveStat
  PROVE  Session(n, m)'
<1>1. /\ Receive("RouteStat") /\ torn' = torn
      /\ UNCHANGED <<cmds, reading, current, last, connected, routers, inputs, outputs>>
  BY DEF ReceiveStatUnread, ReceiveStat, Whole
<1>2. /\ tcp # <<>> /\ tcp' = Tail(tcp) /\ drops' = drops
      /\ Head(tcp) \in StatLines /\ ~Listed(Head(tcp))
  BY <1>1, ReceiveFacts
<1>3. tcp \in Seq(Line) /\ UnderWay(cmds, tcp, n, m)
  BY DEF TypeInv, Session
<1>4. UnderWay(cmds', tcp', n, m)
  <2>1. UnderWay(cmds, Tail(tcp), n, m)
    BY <1>2, <1>3, StatUnderWay
  <2> QED BY <1>1, <1>2, <2>1, Zenon
<1>5. \A r \in Router : "own" \in shots[r] => "own" \in shots'[r]
  <2>1. CASE ReceiveStatUnread
    <3>1. Misread
      BY <2>1 DEF ReceiveStatUnread
    <3> QED BY <3>1 DEF Misread, TypeInv
  <2>2. CASE ReceiveStat
    BY <2>2 DEF ReceiveStat
  <2> QED BY <2>1, <2>2
<1>6. drops' = 0 /\ (awaited' # None \/ starting' \/ connected') =>
        drops = 0 /\ (awaited # None \/ starting \/ connected)
  <2>1. CASE ReceiveStatUnread
    BY <1>1, <1>2, <2>1 DEF ReceiveStatUnread
  <2>2. CASE ReceiveStat
    <3>1. PICK h \in StatLines : h = Head(tcp)
      BY <1>2
    <3>2. /\ awaited' = IF <<h.router, h.output>> = awaited THEN None ELSE awaited
          /\ starting' = (starting \/ <<h.router, h.output>> = awaited)
      BY <2>2, <3>1, Zenon DEF ReceiveStat
    <3>3. <<h.router, h.output>> # None
      <4>1. h.router \in Router
        BY DEF StatLines
      <4>2. h.router # 0
        BY <4>1, SaAssumption
      <4> QED BY <4>2 DEF None
    <3>4. CASE <<h.router, h.output>> = awaited
      <4>1. awaited # None
        BY <3>3, <3>4, Zenon
      <4> QED BY <1>2, <4>1, Zenon
    <3>5. CASE <<h.router, h.output>> # awaited
      <4>1. awaited' = awaited /\ (starting' <=> starting) /\ connected' = connected
        BY <1>1, <3>2, <3>5, Zenon
      <4> QED BY <1>2, <4>1, Zenon
    <3> QED BY <3>4, <3>5
  <2> QED BY <2>1, <2>2
<1> QED BY <1>1, <1>4, <1>5, <1>6, SameRound

\* The core, the reports and the answers.
LEMMA StaysInRound ==
  ASSUME TypeInv, TypeInv', NEW n \in 1 .. 6, NEW m \in Nat, Session(n, m),
         \/ \E d \in Dest, s \in Signal : DestinationChanged(d, s)
         \/ NotifyProtocols \/ CrosspointChanged \/ ProcessCommand \/ StartupTimeout
  PROVE  Session(n, m)'
<1>1. /\ cmds \in Seq(Command) /\ tcp \in Seq(Line) /\ UnderWay(cmds, tcp, n, m)
      /\ route \in [Dest -> Signal] /\ ipc \in Seq(Dest)
  BY DEF TypeInv, Session
<1>2. ASSUME UNCHANGED <<drops, parser>>, UnderWay(cmds', tcp', n, m)
      PROVE  Session(n, m)'
  <2>1. UNCHANGED <<torn, reading, current, last, routers, inputs, outputs>>
    BY <1>2 DEF parser, lists
  <2>2. UNCHANGED <<shots, drops, awaited, starting, connected>>
    BY <1>2 DEF parser, lists
  <2> QED BY <1>2, <2>1, <2>2, SameRound
<1>3. CASE \E d \in Dest, s \in Signal : DestinationChanged(d, s)
  <2>1. UNCHANGED <<cmds, tcp, drops, parser>>
    BY <1>3 DEF DestinationChanged
  <2> QED BY <1>1, <1>2, <2>1, Zenon
<1>4. CASE NotifyProtocols
  <2>1. UNCHANGED <<cmds, tcp, drops, parser>>
    BY <1>4 DEF NotifyProtocols
  <2> QED BY <1>1, <1>2, <2>1, Zenon
<1>5. CASE CrosspointChanged
  <2>1. /\ ipc # <<>> /\ tcp' = tcp \o Report(Head(ipc)) /\ cmds' = cmds
        /\ UNCHANGED <<drops, parser>>
    BY <1>5 DEF CrosspointChanged
  <2>2. PICK d \in Dest : d = Head(ipc)
    BY <1>1, <2>1
  <2>3. PICK t : t = Report(d) /\ t \in Seq(StatLines)
    BY <1>1, ReportFacts
  <2>4. UnderWay(cmds, tcp \o t, n, m)
    BY <1>1, <2>3, ReportsUnderWay
  <2>5. UnderWay(cmds', tcp', n, m)
    BY <2>1, <2>2, <2>3, <2>4, Zenon
  <2> QED BY <1>2, <2>1, <2>5
<1>6. CASE ProcessCommand
  <2>1. /\ cmds # <<>> /\ tcp' = tcp \o Answer(Head(cmds)) /\ cmds' = Tail(cmds)
        /\ UNCHANGED <<drops, parser>>
    BY <1>6 DEF ProcessCommand
  <2>2. PICK c \in Command : c = Head(cmds)
    BY <1>1, <2>1, AskedTail
  <2>3. c.cmd = Round[n]
    <3>1. 1 \in DOMAIN cmds /\ Head(cmds) = cmds[1]
      BY <1>1, <2>1, FirstAndRest
    <3> QED BY <1>1, <2>2, <3>1, Zenon DEF UnderWay
  <2>4. IsAnswer(Answer(c), c, n)
    BY <1>1, <2>3, AnswerFacts
  <2>5. UnderWay(Tail(cmds), tcp \o Answer(c), n, m)
    BY <1>1, <2>1, <2>2, <2>4, AnswerUnderWay
  <2>6. UnderWay(cmds', tcp', n, m)
    BY <2>1, <2>2, <2>5, Zenon
  <2> QED BY <1>2, <2>1, <2>6
<1>7. CASE StartupTimeout
  <2>1. /\ starting /\ UNCHANGED <<cmds, tcp, drops, torn, reading, current, last, lists>>
        /\ UNCHANGED awaited
    BY <1>7 DEF StartupTimeout
  <2>2. UnderWay(cmds', tcp', n, m)
    BY <1>1, <2>1, Zenon
  <2>3. UNCHANGED <<torn, reading, current, last, routers, inputs, outputs>> /\ shots' = shots
    BY <2>1 DEF lists
  <2> QED BY <2>1, <2>2, <2>3, SameRound
<1> QED BY <1>3, <1>4, <1>5, <1>6, <1>7

-----------------------------------------------------------------------------
(* The invariant.                                                          *)

LEMMA InitInv ==
  ASSUME Init
  PROVE  IInv
<1>1. TypeInv
  BY InitType
<1>2. First /\ Bare0 /\ ~conn /\ Closed
  <2>1. /\ conn = FALSE /\ torn = FALSE /\ starting = FALSE /\ connected = FALSE
        /\ awaited = None /\ ipc = <<>> /\ cmds = <<>> /\ tcp = <<>>
        /\ routers = {} /\ inputs = {} /\ outputs = [r \in Router |-> {}]
    BY DEF Init
  <2>2. inputs \subseteq Router
    BY <2>1
  <2> QED BY <2>1, <2>2, Zenon DEF First, Bare0, Closed
<1> QED BY <1>1, <1>2 DEF IInv

\* The steps that leave the lists of a panel, and what makes it known, alone.
LEMMA SmallParts ==
  ASSUME IInv, UNCHANGED <<conn, torn, routers, inputs, outputs, drops>>
  PROVE  First' /\ Bare0'
BY DEF IInv, First, Bare0

LEMMA WholeParts ==
  ASSUME IInv, ~torn, torn' = torn, drops' = drops, drops = 0 => inputs' \subseteq Router
  PROVE  First' /\ Bare0'
BY DEF First, Bare0

LEMMA ReceiveConn ==
  ASSUME ParserStep
  PROVE  conn /\ conn' = conn /\ drops' = drops /\ UNCHANGED <<core, ipc>>
<1>1. \E kind : Receive(kind)
  BY DEF ParserStep, ReceiveTorn, ReceiveLogin, ReceiveBegin, ReceiveNames, ReceiveEndRouters,
         ReceiveEndOther, ReceiveEndSources, ReceiveEndDests, ReceiveEndSnapshots, NextRound,
         EndsRound, ReceiveStatUnread, ReceiveStat, Whole
<1> QED BY <1>1 DEF Receive

\* Goes and the end of the snapshots, together.
Moves(n) == Goes(n) \/ (ReceiveEndSnapshots /\ Session(6, 0)')

LEMMA ParserMoves ==
  ASSUME IInv, TypeInv', NEW n \in 1 .. 6, NEW m \in Nat, Session(n, m), ParserStep
  PROVE  Moves(n)
<1>1. TypeInv /\ Bare0
  BY DEF IInv
<1>2. CASE ReceiveStatUnread \/ ReceiveStat
  <2>1. Session(n, m)'
    BY <1>1, <1>2, StatRead
  <2> QED BY <2>1 DEF Moves, Goes
<1> QED BY <1>1, <1>2, TornLine, LogsIn, BeginsList, NamesList, EndsRouters, EndsOther,
           EndsSourcesOrDests, EndsSnapshots
        DEF ParserStep, Moves

LEMMA ParserInv ==
  ASSUME IInv, ParserStep
  PROVE  IInv'
<1>1. TypeInv
  BY DEF IInv
<1>2. TypeInv'
  BY <1>1, TypeStep DEF Next, Work
<1>3. conn /\ conn' = conn /\ drops' = drops
  BY ReceiveConn
<1>4. PICK n \in 1 .. 6, m \in Nat : Session(n, m)
  BY <1>3 DEF IInv
<1>5. \E n2 \in 1 .. 6, m2 \in Nat : Session(n2, m2)'
  <2>1. Moves(n)
    BY <1>2, <1>4, ParserMoves
  <2>2. 6 \in 1 .. 6 /\ 0 \in Nat
    OBVIOUS
  <2> QED BY <2>1, <2>2 DEF Moves, Goes
<1>6. First' /\ Bare0'
  <2>0. drops = 0 => inputs \subseteq Router
    BY DEF IInv, First
  <2>1. CASE ReceiveTorn
    <3>1. torn /\ torn' = FALSE
      BY <2>1 DEF ReceiveTorn
    <3>2. drops' # 0
      BY <1>3, <3>1 DEF IInv, First
    <3> QED BY <3>1, <3>2 DEF First, Bare0
  <2>2. CASE ReceiveNames
    <3>1. ~torn /\ torn' = torn
      BY <2>2 DEF ReceiveNames, Whole
    <3>2. inputs \subseteq Router => inputs' \subseteq Router
      BY <1>1, <1>2, <1>4, <2>2, NamesList
    <3> QED BY <1>3, <2>0, <3>1, <3>2, WholeParts
  <2>3. CASE ReceiveBegin
    <3>1. ~torn /\ torn' = torn
          /\ inputs' = IF Head(tcp).list = "SourceNames" THEN inputs \ {Head(tcp).router}
                                                         ELSE inputs
      BY <2>3, Zenon DEF ReceiveBegin, Whole
    <3>2. inputs \subseteq Router => inputs' \subseteq Router
      BY <3>1
    <3> QED BY <1>3, <2>0, <3>1, <3>2, WholeParts
  <2>4. CASE \/ ReceiveLogin \/ ReceiveEndRouters \/ ReceiveEndOther
             \/ ReceiveEndSources \/ ReceiveEndDests \/ ReceiveEndSnapshots
             \/ ReceiveStatUnread \/ ReceiveStat
    <3>1. ~torn /\ torn' = torn /\ inputs' = inputs
      BY <2>4 DEF ReceiveLogin, ReceiveEndRouters, ReceiveEndOther, ReceiveEndSources,
                  ReceiveEndDests, ReceiveEndSnapshots, NextRound, EndsRound,
                  ReceiveStatUnread, ReceiveStat, Whole, lists
    <3> QED BY <1>3, <2>0, <3>1, WholeParts
  <2> QED BY <2>1, <2>2, <2>3, <2>4 DEF ParserStep
<1> QED BY <1>2, <1>3, <1>5, <1>6 DEF IInv

LEMMA ConnectInv ==
  ASSUME IInv, Connect
  PROVE  IInv' /\ Session(1, 0)'
<1>1. TypeInv'
  BY TypeStep DEF IInv, Next, Work
<1>2. /\ ~conn /\ conn' = TRUE /\ cmds' = <<[cmd |-> "Login"]>> /\ tcp' = tcp
      /\ UNCHANGED <<drops, parser>>
  BY DEF Connect
<1>3. Closed
  BY <1>2 DEF IInv
<1>4. UnderWay(cmds', tcp', 1, 0)
  <2>1. PICK c \in Command : c = [cmd |-> "Login"]
    BY CommandTypes
  <2>2. cmds' = <<c>>
    BY <1>2, <2>1
  <2>3. cmds' \in Seq(Command) /\ DOMAIN cmds' = {1} /\ cmds'[1] = c
    BY <1>1, <2>2 DEF TypeInv
  <2>4. c.cmd = Round[1]
    BY <2>1, RoundFacts
  <2>5. Answers(c) = All(1)
    <3>1. Answers(c) = {0}
      BY <2>1 DEF Answers
    <3> QED BY <3>1, AllFacts
  <2>6. Asked(cmds') = All(1)
    BY <2>3, <2>5 DEF Asked
  <2>7. IsRound(cmds', 1)
    BY <2>3, <2>4, <2>6 DEF IsRound
  <2>8. \A k \in DOMAIN tcp' : ~Listed(tcp'[k])
    <3>1. tcp' = <<>>
      BY <1>2, <1>3 DEF Closed
    <3> QED BY <3>1
  <2>9. 1 \in 1 .. 6
    OBVIOUS
  <2> QED BY <2>7, <2>8, <2>9, RoundBegins
<1>5. UNCHANGED <<torn, routers, inputs, outputs, awaited, starting, connected>>
  BY <1>2 DEF parser, lists
<1>6. Session(1, 0)'
  <2>1. Bare'
    BY <1>3, <1>5 DEF Bare, Closed
  <2>2. ~(drops' = 0 /\ (awaited' # None \/ starting' \/ connected'))
    BY <1>2, <1>3, <1>5 DEF Closed
  <2>3. 0 \in Nat
    OBVIOUS
  <2> QED BY <1>4, <2>1, <2>2, <2>3, FirstRound
<1>7. First' /\ Bare0'
  BY <1>2, <1>5 DEF IInv, First, Bare0
<1>8. conn' /\ 1 \in 1 .. 6 /\ 0 \in Nat
  BY <1>2
<1> QED BY <1>1, <1>6, <1>7, <1>8 DEF IInv

LEMMA ClosedInv ==
  ASSUME IInv, ConnectionClosed
  PROVE  IInv'
<1>1. TypeInv'
  BY TypeStep DEF IInv, Next
<1>2. /\ conn' = FALSE /\ drops' = drops + 1 /\ ipc' = <<>> /\ cmds' = <<>> /\ tcp' = <<>>
      /\ routers' = {} /\ inputs' = {} /\ outputs' = [r \in Router |-> {}]
  BY DEF ConnectionClosed, Cleared
<1>3. drops' # 0
  BY <1>2 DEF IInv, TypeInv
<1>4. First' /\ Closed'
  BY <1>2, <1>3, Zenon DEF First, Closed
<1>5. Bare0'
  BY <1>2 DEF Bare0
<1>6. ~conn'
  BY <1>2
<1> QED BY <1>1, <1>4, <1>5, <1>6 DEF IInv

\* The steps between the core and the protocol process, and the timer.
LEMMA OutsideInv ==
  ASSUME IInv,
         \/ \E d \in Dest, s \in Signal : DestinationChanged(d, s)
         \/ NotifyProtocols \/ CrosspointChanged \/ ProcessCommand \/ StartupTimeout
  PROVE  IInv'
<1>1. TypeInv /\ TypeInv'
  BY TypeStep DEF IInv, Next, Work, ProtocolStep
<1>2. UNCHANGED <<conn, torn, routers, inputs, outputs, drops>>
  BY DEF DestinationChanged, NotifyProtocols, CrosspointChanged, ProcessCommand,
         StartupTimeout, parser, lists
<1>3. First' /\ Bare0'
  BY <1>2, SmallParts
<1>4. CASE conn
  <2>1. PICK n \in 1 .. 6, m \in Nat : Session(n, m)
    BY <1>4 DEF IInv
  <2>2. Session(n, m)'
    BY <1>1, <2>1, StaysInRound
  <2> QED BY <1>1, <1>2, <1>3, <1>4, <2>2 DEF IInv
<1>5. CASE ~conn
  <2>1. Closed
    BY <1>5 DEF IInv
  <2>2. ~CrosspointChanged /\ ~ProcessCommand
    BY <1>5 DEF CrosspointChanged, ProcessCommand
  <2>3. CASE StartupTimeout
    <3>1. /\ starting /\ starting' = FALSE /\ UNCHANGED <<ipc, cmds, tcp, awaited>>
      BY <2>3 DEF StartupTimeout
    <3>2. drops # 0
      BY <2>1, <3>1 DEF Closed
    <3>3. Closed'
      BY <1>2, <2>1, <3>1, <3>2 DEF Closed
    <3> QED BY <1>1, <1>2, <1>3, <1>5, <3>3 DEF IInv
  <2>4. CASE NotifyProtocols \/ \E d \in Dest, s \in Signal : DestinationChanged(d, s)
    <3>1. UNCHANGED <<ipc, cmds, tcp, awaited, starting, connected>>
      BY <1>5, <2>4 DEF NotifyProtocols, DestinationChanged, parser
    <3>2. Closed'
      BY <1>2, <2>1, <3>1 DEF Closed
    <3> QED BY <1>1, <1>2, <1>3, <1>5, <3>2 DEF IInv
  <2> QED BY <2>2, <2>3, <2>4
<1> QED BY <1>4, <1>5

LEMMA StutterInv ==
  ASSUME IInv, UNCHANGED vars
  PROVE  IInv'
<1>1. TypeInv /\ TypeInv'
  BY TypeStep DEF IInv
<1>2. /\ UNCHANGED <<conn, torn, routers, inputs, outputs, drops>>
      /\ UNCHANGED <<ipc, cmds, tcp, awaited, starting, connected, reading, current, last, shots>>
  BY DEF vars, parser, lists
<1>3. First' /\ Bare0'
  BY <1>2, SmallParts
<1>4. CASE conn
  <2>1. PICK n \in 1 .. 6, m \in Nat : Session(n, m)
    BY <1>4 DEF IInv
  <2>2. UnderWay(cmds', tcp', n, m)
    BY <1>2, <2>1, Zenon DEF Session
  <2>3. Session(n, m)'
    BY <1>2, <2>1, <2>2, SameRound
  <2> QED BY <1>1, <1>2, <1>3, <1>4, <2>3 DEF IInv
<1>5. CASE ~conn
  <2>1. Closed
    BY <1>5 DEF IInv
  <2>2. Closed'
    BY <1>2, <2>1 DEF Closed
  <2> QED BY <1>1, <1>2, <1>3, <1>5, <2>2 DEF IInv
<1> QED BY <1>4, <1>5

LEMMA StepInv ==
  ASSUME IInv, [Next]_vars
  PROVE  IInv'
BY ParserInv, ConnectInv, ClosedInv, OutsideInv, StutterInv DEF Next, Work, ProtocolStep

LEMMA InvRightList ==
  ASSUME IInv
  PROVE  RightList
<1> SUFFICES ASSUME tcp # <<>>, Head(tcp).line = "Names"
             PROVE  /\ Reading(Head(tcp).list)
                    /\ Head(tcp).list # "RouterNames" => current = Head(tcp).router
  BY DEF RightList
<1>1. TypeInv /\ conn
  BY DEF IInv, Closed
<1>2. PICK n \in 1 .. 6, m \in Nat : Session(n, m)
  BY <1>1 DEF IInv
<1>3. (\A l : l = Head(tcp).list => Reading(l)) /\ (n # 2 => current = Head(tcp).router)
  BY <1>1, <1>2, NamesFound
<1>4. n = 2 => Head(tcp).list = "RouterNames"
  BY <1>1, <1>2, HeadFacts, RoundFacts
<1> QED BY <1>3, <1>4

LEMMA InvFirstStart ==
  ASSUME IInv
  PROVE  FirstStart
<1> SUFFICES ASSUME connected, drops = 0 PROVE Loaded
  BY DEF FirstStart
<1>1. TypeInv /\ conn
  BY DEF IInv, Closed
<1>2. PICK n \in 1 .. 6, m \in Nat : Session(n, m)
  BY <1>1 DEF IInv
<1>3. n = 6 /\ Progress(6, m)
  BY <1>2 DEF Session
<1>4. Read(2, 0, 6, m) /\ \A r : Read(3, r, 6, m) /\ Read(4, r, 6, m) /\ Read(5, r, 6, m)
  BY DEF Read
<1>5. /\ routers = Router
      /\ \A r \in Router : r \in inputs /\ outputs[r] = OutputsOf(r) /\ "own" \in shots[r]
  BY <1>3, <1>4, Zenon DEF Progress
<1>6. inputs = Router
  BY <1>5 DEF IInv, First
<1> QED BY <1>5, <1>6, Zenon DEF Loaded, OutputsOf

\* A name is read into the list and the router it was listed for, for any number of
\* routers, reports, changes and lost connections.
THEOREM RightLists == Spec => []RightList
<1>1. Spec => []IInv
  BY InitInv, StepInv, PTL DEF Spec
<1> QED BY <1>1, InvRightList, PTL

\* The panel does not report that it is connected before it has every list.
THEOREM FirstStarts == Spec => []FirstStart
<1>1. Spec => []IInv
  BY InitInv, StepInv, PTL DEF Spec
<1> QED BY <1>1, InvFirstStart, PTL

-----------------------------------------------------------------------------
(* The crosspoints.                                                        *)

LEMMA RightSame ==
  ASSUME route' = route, NEW r, NEW o, NEW i
  PROVE  Right(r, o, i)' <=> Right(r, o, i)
BY DEF Right

LEMMA OneDestination ==
  ASSUME NEW r, NEW o, NEW d, NEW e, <<r, o, d>> \in Destinations, <<r, o, e>> \in Destinations
  PROVE  d = e
<1>1. PICK v, w : v = <<r, o, d>> /\ w = <<r, o, e>>
  OBVIOUS
<1>2. v \in Destinations /\ w \in Destinations /\ v[1] = w[1] /\ v[2] = w[2]
  BY <1>1
<1>3. v = w
  BY <1>2, SaAssumption
<1> QED BY <1>1, <1>3

\* What a report tells is right.
LEMMA TellsRight ==
  ASSUME PlainSources, NEW l, NEW r \in Router, NEW o, NEW d \in Dest, Tells(l, r, o, d),
         route[d] \in Signal
  PROVE  Right(r, o, l.input)
<1>1. <<r, o, d>> \in Destinations
  BY DEF Tells
<1>2. \A e \in Dest : <<r, o, e>> \in Destinations => e = d
  BY <1>1, OneDestination
<1>3. \A i : i \in Matches(r, route[d]) <=> <<r, i, route[d]>> \in Sources
  BY MatchesFacts
<1>4. Matches(r, route[d]) = {} <=> ~\E w \in Sources : w[1] = r /\ w[3] = route[d]
  BY DEF Matches
<1>5. route[d] = NullStream => ~\E w \in Sources : w[1] = r /\ w[3] = route[d]
  BY DEF PlainSources
<1>6. IF Matches(r, route[d]) = {} THEN l.input = 0 ELSE l.input \in Matches(r, route[d])
  BY DEF Tells
<1> QED BY <1>2, <1>3, <1>4, <1>5, <1>6 DEF Right

\* Of the lines about an output one is the last.
LEMMA LastExists ==
  ASSUME NEW s \in Seq(Line), NEW r, NEW o, NEW k0 \in DOMAIN s, StatOf(s[k0], r, o)
  PROVE  \E k \in DOMAIN s : /\ StatOf(s[k], r, o)
                             /\ \A j \in DOMAIN s : j > k => ~StatOf(s[j], r, o)
<1>1. PICK a \in Nat : a = Len(s) /\ DOMAIN s = 1 .. a
  OBVIOUS
<1> DEFINE T == {n \in 0 .. a : n # a /\ StatOf(s[a - n], r, o)}
<1>2. a - k0 \in T
  <2>1. a - k0 \in 0 .. a /\ a - k0 # a /\ a - (a - k0) = k0
    BY <1>1
  <2> QED BY <2>1
<1>3. PICK n \in T : \A x \in T : n <= x
  <2>1. T \subseteq Nat /\ T # {}
    BY <1>2
  <2> HIDE DEF T
  <2> QED BY <2>1, LeastMember
<1>4. a - n \in 1 .. a /\ StatOf(s[a - n], r, o)
  BY <1>3
<1>5. ASSUME NEW j \in 1 .. a, j > a - n PROVE ~StatOf(s[j], r, o)
  <2>1. a - j \in 0 .. a /\ a - j # a /\ a - (a - j) = j /\ ~(n <= a - j)
    BY <1>3, <1>5
  <2>2. a - j \notin T
    BY <1>3, <2>1
  <2> QED BY <2>1, <2>2
<1> QED BY <1>1, <1>4, <1>5

\* Lines are added about an output.
LEMMA ShownAdded ==
  ASSUME NEW t \in Seq(Line), tcp \in Seq(Line), tcp' = tcp \o t, route' = route, NEW r, NEW o,
         NEW k0 \in DOMAIN t, StatOf(t[k0], r, o),
         \A k \in DOMAIN t : StatOf(t[k], r, o) => Right(r, o, t[k].input)
  PROVE  Shown(r, o)'
<1>0. PICK u : u = tcp'
  OBVIOUS
<1>1. PICK a \in Nat, b \in Nat : a = Len(tcp) /\ b = Len(t)
  OBVIOUS
<1>2. /\ u \in Seq(Line) /\ DOMAIN u = 1 .. a + b /\ DOMAIN t = 1 .. b
      /\ \A i \in 1 .. b : u[a + i] = t[i]
  <2>1. /\ tcp \o t \in Seq(Line) /\ Len(tcp \o t) = Len(tcp) + Len(t)
        /\ \A i \in 1 .. Len(t) : (tcp \o t)[Len(tcp) + i] = t[i]
    BY Joined2
  <2>2. /\ u \in Seq(Line) /\ Len(u) = a + b /\ \A i \in 1 .. b : u[a + i] = t[i]
    BY <1>0, <1>1, <2>1, Zenon
  <2>3. DOMAIN t = 1 .. b
    BY <1>1
  <2>4. DOMAIN u = 1 .. a + b
    <3>1. PICK S : S = Line
      OBVIOUS
    <3>2. u \in Seq(S) /\ Len(u) = a + b
      BY <2>2, <3>1
    <3> QED BY <3>2
  <2> QED BY <2>2, <2>3, <2>4
<1>3. a + k0 \in 1 .. a + b /\ StatOf(u[a + k0], r, o)
  BY <1>2
<1>4. PICK k \in 1 .. a + b : /\ StatOf(u[k], r, o)
                              /\ \A j \in DOMAIN u : j > k => ~StatOf(u[j], r, o)
  BY <1>2, <1>3, LastExists
<1>5. k - a \in 1 .. b /\ a + (k - a) = k
  <2>1. ~(a + k0 > k)
    BY <1>2, <1>3, <1>4
  <2> QED BY <1>2, <2>1
<1>6. u[k] = t[k - a]
  BY <1>2, <1>5
<1>7. Right(r, o, u[k].input)
  BY <1>2, <1>4, <1>5, <1>6
<1>8. Right(r, o, u[k].input)'
  <2>1. PICK i : i = u[k].input
    OBVIOUS
  <2>2. Right(r, o, i)'
    BY <1>7, <2>1, RightSame
  <2> QED BY <1>0, <2>1, <2>2 DEF Right
<1> QED BY <1>0, <1>2, <1>4, <1>8 DEF Shown, LastStat

\* Lines are added about others.
LEMMA ShownKept ==
  ASSUME NEW t \in Seq(Line), tcp \in Seq(Line), tcp' = tcp \o t, route' = route,
         xpoint' = xpoint, NEW r, NEW o,
         \A k \in DOMAIN t : ~StatOf(t[k], r, o), Shown(r, o)
  PROVE  Shown(r, o)'
<1>0. PICK u, s : u = tcp' /\ s = tcp
  OBVIOUS
<1>1. PICK a \in Nat, b \in Nat : a = Len(s) /\ b = Len(t)
  BY <1>0
<1>2. /\ DOMAIN u = 1 .. a + b /\ DOMAIN t = 1 .. b /\ DOMAIN s = 1 .. a
      /\ \A i \in 1 .. a : u[i] = s[i]
      /\ \A i \in 1 .. b : u[a + i] = t[i]
  <2>1. /\ tcp \o t \in Seq(Line) /\ Len(tcp \o t) = Len(tcp) + Len(t)
        /\ \A i \in 1 .. Len(tcp) : (tcp \o t)[i] = tcp[i]
        /\ \A i \in 1 .. Len(t) : (tcp \o t)[Len(tcp) + i] = t[i]
    BY Joined2
  <2>2. /\ u \in Seq(Line) /\ Len(u) = a + b /\ \A i \in 1 .. b : u[a + i] = t[i]
        /\ \A i \in 1 .. a : u[i] = s[i]
    BY <1>0, <1>1, <2>1, Zenon
  <2> QED BY <1>0, <1>1, <2>2
<1>3. ASSUME NEW j \in 1 .. a + b, StatOf(u[j], r, o) PROVE j \in 1 .. a
  <2> SUFFICES ASSUME j \notin 1 .. a PROVE FALSE
    OBVIOUS
  <2>1. j - a \in 1 .. b /\ a + (j - a) = j
    OBVIOUS
  <2>2. u[j] = t[j - a]
    BY <1>2, <2>1
  <2> QED BY <1>2, <1>3, <2>1, <2>2
<1>4. \/ \E k \in 1 .. a : /\ StatOf(s[k], r, o) /\ Right(r, o, s[k].input)
                           /\ \A j \in 1 .. a : j > k => ~StatOf(s[j], r, o)
      \/ /\ \A k \in 1 .. a : ~StatOf(s[k], r, o)
         /\ \E i \in xpoint[r][o] : Right(r, o, i)
  BY <1>0, <1>2, Zenon DEF Shown, LastStat
<1>5. ASSUME NEW k \in 1 .. a, StatOf(s[k], r, o), Right(r, o, s[k].input),
             \A j \in 1 .. a : j > k => ~StatOf(s[j], r, o)
      PROVE  Shown(r, o)'
  <2>1. k \in 1 .. a + b /\ u[k] = s[k]
    BY <1>2
  <2>2. \A j \in 1 .. a + b : j > k => ~StatOf(u[j], r, o)
    <3> SUFFICES ASSUME NEW j \in 1 .. a + b, j > k, StatOf(u[j], r, o) PROVE FALSE
      OBVIOUS
    <3>1. j \in 1 .. a
      BY <1>3
    <3>2. u[j] = s[j]
      BY <1>2, <3>1
    <3> QED BY <1>5, <3>1, <3>2
  <2>3. Right(r, o, u[k].input)'
    <3>1. PICK i : i = u[k].input
      OBVIOUS
    <3>2. Right(r, o, i)'
      BY <1>5, <2>1, <3>1, RightSame
    <3> QED BY <1>0, <3>1, <3>2 DEF Right
  <2> QED BY <1>0, <1>2, <1>5, <2>1, <2>2, <2>3 DEF Shown, LastStat
<1>6. ASSUME \A k \in 1 .. a : ~StatOf(s[k], r, o), NEW i \in xpoint[r][o], Right(r, o, i)
      PROVE  Shown(r, o)'
  <2>1. \A j \in 1 .. a + b : ~StatOf(u[j], r, o)
    <3> SUFFICES ASSUME NEW j \in 1 .. a + b, StatOf(u[j], r, o) PROVE FALSE
      OBVIOUS
    <3>1. j \in 1 .. a
      BY <1>3
    <3>2. u[j] = s[j]
      BY <1>2, <3>1
    <3> QED BY <1>6, <3>1, <3>2
  <2>2. Right(r, o, i)'
    BY <1>6, RightSame
  <2> QED BY <1>0, <1>2, <1>6, <2>1, <2>2 DEF Shown
<1> QED BY <1>4, <1>5, <1>6

\* An output that a map has is a destination.
LEMMA DestinationOf ==
  ASSUME NEW r \in Router, NEW o \in OutputsOf(r)
  PROVE  o \in Output /\ \E e \in Dest : <<r, o, e>> \in Destinations
<1>1. PICK w \in Destinations : w[1] = r /\ w[2] = o
  BY DEF OutputsOf
<1>2. w \in Router \X Output \X Dest
  BY SaAssumption
<1>3. w = <<r, o, w[3]>> /\ o \in Output /\ w[3] \in Dest
  BY <1>1, <1>2
<1>4. <<r, o, w[3]>> \in Destinations
  BY <1>3, Zenon
<1> QED BY <1>3, <1>4

LEMMA HeadOrTail ==
  ASSUME NEW S, NEW s \in Seq(S), s # <<>>
  PROVE  /\ Head(s) \in S /\ Tail(s) \in Seq(S)
         /\ \A x : x \in ToSet(s) <=> x = Head(s) \/ x \in ToSet(Tail(s))
<1>1. PICK n \in Nat \ {0} : n = Len(s)
  BY FirstAndRest
<1>2. /\ DOMAIN s = 1 .. n /\ DOMAIN Tail(s) = 1 .. n - 1 /\ Head(s) = s[1]
      /\ Head(s) \in S /\ Tail(s) \in Seq(S)
      /\ \A k \in 1 .. n - 1 : Tail(s)[k] = s[k + 1]
  BY <1>1, FirstAndRest, Zenon
<1>3. ASSUME NEW x \in ToSet(s) PROVE x = Head(s) \/ x \in ToSet(Tail(s))
  <2>1. PICK k \in 1 .. n : x = s[k]
    BY <1>2, <1>3 DEF ToSet
  <2>2. CASE k = 1
    BY <1>2, <2>1, <2>2
  <2>3. CASE k # 1
    <3>1. k - 1 \in 1 .. n - 1 /\ (k - 1) + 1 = k
      BY <2>3
    <3>2. x = Tail(s)[k - 1]
      BY <1>2, <2>1, <3>1
    <3> QED BY <1>2, <3>1, <3>2 DEF ToSet
  <2> QED BY <2>2, <2>3
<1>4. ASSUME NEW x, x = Head(s) \/ x \in ToSet(Tail(s)) PROVE x \in ToSet(s)
  <2>1. CASE x = Head(s)
    <3>1. 1 \in DOMAIN s /\ x = s[1]
      BY <1>2, <2>1
    <3> QED BY <3>1 DEF ToSet
  <2>2. CASE x \in ToSet(Tail(s))
    <3>1. PICK k \in 1 .. n - 1 : x = Tail(s)[k]
      BY <1>2, <2>2 DEF ToSet
    <3>2. k + 1 \in 1 .. n /\ x = s[k + 1]
      BY <1>2, <3>1
    <3> QED BY <1>2, <3>2 DEF ToSet
  <2> QED BY <1>4, <2>1, <2>2
<1> QED BY <1>2, <1>3, <1>4

LEMMA AppendSet ==
  ASSUME NEW S, NEW s \in Seq(S), NEW x \in S
  PROVE  \A y : y \in ToSet(s) \/ y = x => y \in ToSet(Append(s, x))
<1>1. PICK n \in Nat : n = Len(s)
  OBVIOUS
<1>2. PICK u : u = Append(s, x)
  OBVIOUS
<1>3. /\ DOMAIN s = 1 .. n /\ DOMAIN u = 1 .. n + 1 /\ u[n + 1] = x
      /\ \A k \in 1 .. n : u[k] = s[k]
  BY <1>1, <1>2
<1>4. \A y \in ToSet(s) : y \in ToSet(u)
  <2> SUFFICES ASSUME NEW k \in 1 .. n PROVE s[k] \in ToSet(u)
    BY <1>3 DEF ToSet
  <2>1. k \in 1 .. n + 1 /\ u[k] = s[k]
    BY <1>3
  <2> QED BY <1>3, <2>1 DEF ToSet
<1>5. x \in ToSet(u)
  <2>1. n + 1 \in 1 .. n + 1
    OBVIOUS
  <2> QED BY <1>3, <2>1 DEF ToSet
<1> QED BY <1>2, <1>4, <1>5

\* A change of something else.
LEMMA ShownSame ==
  ASSUME tcp' = tcp, xpoint' = xpoint, NEW r, NEW o,
         \A i : Right(r, o, i) => Right(r, o, i)', Shown(r, o)
  PROVE  Shown(r, o)'
<1>0. PICK s : s = tcp
  OBVIOUS
<1>1. \/ \E k \in DOMAIN s : /\ StatOf(s[k], r, o) /\ Right(r, o, s[k].input)
                             /\ \A j \in DOMAIN s : j > k => ~StatOf(s[j], r, o)
      \/ /\ \A k \in DOMAIN s : ~StatOf(s[k], r, o)
         /\ \E i \in xpoint[r][o] : Right(r, o, i)
  BY <1>0, Zenon DEF Shown, LastStat
<1>2. ASSUME NEW k \in DOMAIN s, StatOf(s[k], r, o), Right(r, o, s[k].input),
             \A j \in DOMAIN s : j > k => ~StatOf(s[j], r, o)
      PROVE  Shown(r, o)'
  <2>1. Right(r, o, s[k].input)'
    <3>1. PICK i : i = s[k].input
      OBVIOUS
    <3>2. Right(r, o, i)'
      BY <1>2, <3>1
    <3> QED BY <3>1, <3>2 DEF Right
  <2> QED BY <1>0, <1>2, <2>1 DEF Shown, LastStat
<1>3. ASSUME \A k \in DOMAIN s : ~StatOf(s[k], r, o), NEW i \in xpoint[r][o], Right(r, o, i)
      PROVE  Shown(r, o)'
  <2>1. Right(r, o, i)'
    BY <1>3
  <2> QED BY <1>0, <1>3, <2>1 DEF Shown
<1> QED BY <1>1, <1>2, <1>3

-----------------------------------------------------------------------------
(* The steps while the crosspoints are being asked for.                    *)

\* Stands for the three ways in which a crosspoint may yet come right.
Settles(r, o) == Reported(r, o) \/ Questioned(r) \/ Shown(r, o)

LEMMA ChangeCross ==
  ASSUME TypeInv, Crosspoints, NEW d \in Dest, NEW s \in Signal, DestinationChanged(d, s)
  PROVE  Crosspoints'
<1>1. /\ pending = <<>> /\ pending' = <<d>> /\ route' = [route EXCEPT ![d] = s]
      /\ UNCHANGED <<ipc, cmds, tcp>> /\ xpoint' = xpoint
  BY DEF DestinationChanged, parser, lists
<1> SUFFICES ASSUME NEW r \in Router, NEW o \in OutputsOf(r) PROVE Settles(r, o)'
  BY Zenon DEF Crosspoints, Settles
<1>2. Settles(r, o)
  BY Zenon DEF Crosspoints, Settles
<1>3. PICK e \in Dest : <<r, o, e>> \in Destinations
  BY DestinationOf
<1>4. CASE e = d
  <2>1. d \in ToSet(pending')
    <3>1. DOMAIN pending' = {1} /\ pending'[1] = d
      BY <1>1
    <3> QED BY <3>1 DEF ToSet
  <2>2. Reported(r, o)'
    BY <1>3, <1>4, <2>1, Zenon DEF Reported
  <2> QED BY <2>2 DEF Settles
<1>5. CASE e # d
  <2>1. CASE Reported(r, o)
    <3>1. PICK x \in Dest : <<r, o, x>> \in Destinations
                            /\ x \in ToSet(pending) \cup ToSet(ipc)
      BY <2>1 DEF Reported
    <3>2. x \in ToSet(ipc)
      BY <1>1, <3>1 DEF ToSet
    <3>3. x \in ToSet(ipc')
      BY <1>1, <3>2, Zenon
    <3>4. Reported(r, o)'
      BY <3>1, <3>3 DEF Reported
    <3> QED BY <3>4 DEF Settles
  <2>2. CASE Questioned(r)
    <3>1. Questioned(r)'
      BY <1>1, <2>2 DEF Questioned
    <3> QED BY <3>1 DEF Settles
  <2>3. CASE Shown(r, o)
    <3>1. \A x \in Dest : <<r, o, x>> \in Destinations => route'[x] = route[x]
      <4> SUFFICES ASSUME NEW x \in Dest, <<r, o, x>> \in Destinations
                   PROVE  route'[x] = route[x]
        OBVIOUS
      <4>1. x = e
        BY <1>3, OneDestination
      <4> QED BY <1>1, <1>5, <4>1 DEF TypeInv
    <3>2. \A i : Right(r, o, i) => Right(r, o, i)'
      <4> SUFFICES ASSUME NEW i, Right(r, o, i) PROVE Right(r, o, i)'
        OBVIOUS
      <4> SUFFICES ASSUME NEW x \in Dest, <<r, o, x>> \in Destinations
                   PROVE  IF route'[x] = NullStream
                               \/ ~\E w \in Sources : w[1] = r /\ w[3] = route'[x]
                            THEN i = 0
                            ELSE <<r, i, route'[x]>> \in Sources
        BY Zenon DEF Right
      <4>1. PICK y : y = route[x] /\ y = route'[x]
        BY <3>1
      <4>2. IF y = NullStream \/ ~\E w \in Sources : w[1] = r /\ w[3] = y
              THEN i = 0
              ELSE <<r, i, y>> \in Sources
        BY <4>1, Zenon DEF Right
      <4> QED BY <4>1, <4>2, Zenon
    <3>3. Shown(r, o)'
      BY <1>1, <2>3, <3>2, ShownSame
    <3> QED BY <3>3 DEF Settles
  <2> QED BY <1>2, <2>1, <2>2, <2>3 DEF Settles
<1> QED BY <1>4, <1>5

LEMMA NotifyCross ==
  ASSUME TypeInv, conn, Crosspoints, NotifyProtocols
  PROVE  Crosspoints'
<1>1. /\ pending # <<>> /\ ipc' = Append(ipc, Head(pending)) /\ pending' = Tail(pending)
      /\ UNCHANGED <<route, cmds, tcp>> /\ xpoint' = xpoint
  BY DEF NotifyProtocols, parser, lists
<1>2. pending \in Seq(Dest) /\ ipc \in Seq(Dest)
  BY DEF TypeInv
<1> SUFFICES ASSUME NEW r \in Router, NEW o \in OutputsOf(r) PROVE Settles(r, o)'
  BY Zenon DEF Crosspoints, Settles
<1>3. Settles(r, o)
  BY Zenon DEF Crosspoints, Settles
<1>4. CASE Reported(r, o)
  <2>1. PICK x \in Dest : <<r, o, x>> \in Destinations
                          /\ x \in ToSet(pending) \cup ToSet(ipc)
    BY <1>4 DEF Reported
  <2>2. PICK h \in Dest : h = Head(pending)
    BY <1>1, <1>2, HeadOrTail
  <2>3. x = h \/ x \in ToSet(pending') \/ x \in ToSet(ipc)
    <3>1. x \in ToSet(pending) <=> x = Head(pending) \/ x \in ToSet(Tail(pending))
      BY <1>1, <1>2, HeadOrTail
    <3> QED BY <1>1, <2>1, <2>2, <3>1
  <2>4. x = h \/ x \in ToSet(ipc) => x \in ToSet(ipc')
    <3>1. x \in ToSet(ipc) \/ x = h => x \in ToSet(Append(ipc, h))
      BY <1>2, AppendSet
    <3> QED BY <1>1, <2>2, <3>1, Zenon
  <2>5. Reported(r, o)'
    BY <2>1, <2>3, <2>4 DEF Reported
  <2> QED BY <2>5 DEF Settles
<1>5. CASE Questioned(r)
  <2>1. Questioned(r)'
    BY <1>1, <1>5 DEF Questioned
  <2> QED BY <2>1 DEF Settles
<1>6. CASE Shown(r, o)
  <2>1. Shown(r, o)'
    BY <1>1, <1>6, RightSame, ShownSame
  <2> QED BY <2>1 DEF Settles
<1> QED BY <1>3, <1>4, <1>5, <1>6 DEF Settles

LEMMA ReportCross ==
  ASSUME PlainSources, TypeInv, Crosspoints, CrosspointChanged
  PROVE  Crosspoints'
<1>1. /\ ipc # <<>> /\ tcp' = tcp \o Report(Head(ipc)) /\ ipc' = Tail(ipc)
      /\ UNCHANGED <<route, pending, cmds>> /\ xpoint' = xpoint
  BY DEF CrosspointChanged, core, parser, lists
<1>2. pending \in Seq(Dest) /\ ipc \in Seq(Dest) /\ tcp \in Seq(Line)
      /\ route \in [Dest -> Signal]
  BY DEF TypeInv
<1>3. PICK d \in Dest : d = Head(ipc)
  BY <1>1, <1>2, HeadOrTail
<1>4. route[d] \in Signal
  BY <1>2
<1>5. PICK t : t = Report(d) /\ t \in Seq(StatLines) /\ Reports(d, t)
  BY <1>4, ReportFacts
<1>6. t \in Seq(Line) /\ tcp' = tcp \o t /\ DOMAIN t = 1 .. Len(t)
  <2>1. t \in Seq(Line)
    BY <1>5, StatsNumbers
  <2>2. tcp' = tcp \o t
    BY <1>1, <1>3, <1>5, Zenon
  <2>3. DOMAIN t = 1 .. Len(t)
    BY <1>5
  <2> QED BY <2>1, <2>2, <2>3
<1> SUFFICES ASSUME NEW r \in Router, NEW o \in OutputsOf(r) PROVE Settles(r, o)'
  BY Zenon DEF Crosspoints, Settles
<1>7. Settles(r, o)
  BY Zenon DEF Crosspoints, Settles
<1>8. o \in Output
  BY DestinationOf
<1>9. PICK e \in Dest : <<r, o, e>> \in Destinations
  BY DestinationOf
<1>10. ASSUME NEW k \in DOMAIN t, StatOf(t[k], r, o) PROVE Tells(t[k], r, o, d)
  <2>1. PICK r2 \in Router, o2 \in Output : Tells(t[k], r2, o2, d)
    BY <1>5, <1>6 DEF Reports
  <2>2. r2 = r /\ o2 = o
    BY <1>10, <2>1 DEF Tells, StatOf
  <2> QED BY <2>1, <2>2
<1>11. CASE e = d
  <2>1. PICK k0 \in DOMAIN t : Tells(t[k0], r, o, d)
    BY <1>5, <1>6, <1>8, <1>9, <1>11 DEF Reports
  <2>2. StatOf(t[k0], r, o)
    BY <2>1 DEF Tells, StatOf, StatLines
  <2>3. \A k \in DOMAIN t : StatOf(t[k], r, o) => Right(r, o, t[k].input)
    BY <1>4, <1>10, TellsRight
  <2>4. Shown(r, o)'
    BY <1>1, <1>2, <1>6, <2>2, <2>3, ShownAdded
  <2> QED BY <2>4 DEF Settles
<1>12. CASE e # d
  <2>1. \A k \in DOMAIN t : ~StatOf(t[k], r, o)
    <3> SUFFICES ASSUME NEW k \in DOMAIN t, StatOf(t[k], r, o) PROVE FALSE
      OBVIOUS
    <3>1. <<r, o, d>> \in Destinations
      BY <1>10 DEF Tells
    <3>2. e = d
      BY <1>9, <3>1, OneDestination
    <3> QED BY <1>12, <3>2
  <2>2. CASE Reported(r, o)
    <3>1. PICK x \in Dest : <<r, o, x>> \in Destinations
                            /\ x \in ToSet(pending) \cup ToSet(ipc)
      BY <2>2 DEF Reported
    <3>2. x # d
      BY <1>9, <1>12, <3>1, OneDestination
    <3>3. x \in ToSet(ipc) <=> x = d \/ x \in ToSet(ipc')
      <4>1. x \in ToSet(ipc) <=> x = Head(ipc) \/ x \in ToSet(Tail(ipc))
        BY <1>1, <1>2, HeadOrTail
      <4> QED BY <1>1, <1>3, <4>1, Zenon
    <3>4. x \in ToSet(pending') \cup ToSet(ipc')
      BY <1>1, <3>1, <3>2, <3>3
    <3>5. Reported(r, o)'
      BY <3>1, <3>4 DEF Reported
    <3> QED BY <3>5 DEF Settles
  <2>3. CASE Questioned(r)
    <3>1. Questioned(r)'
      BY <1>1, <2>3 DEF Questioned
    <3> QED BY <3>1 DEF Settles
  <2>4. CASE Shown(r, o)
    <3>1. Shown(r, o)'
      BY <1>1, <1>2, <1>6, <2>1, <2>4, ShownKept
    <3> QED BY <3>1 DEF Settles
  <2> QED BY <1>7, <2>2, <2>3, <2>4 DEF Settles
<1> QED BY <1>11, <1>12

LEMMA AnswerCross ==
  ASSUME PlainSources, TypeInv, NEW m, Session(6, m), Crosspoints, ProcessCommand
  PROVE  Crosspoints'
<1>1. /\ cmds # <<>> /\ tcp' = tcp \o Answer(Head(cmds)) /\ cmds' = Tail(cmds)
      /\ UNCHANGED <<route, pending, ipc>> /\ xpoint' = xpoint
  BY DEF ProcessCommand, core, parser, lists
<1>2. cmds \in Seq(Command) /\ tcp \in Seq(Line) /\ route \in [Dest -> Signal]
  BY DEF TypeInv
<1>3. PICK c \in Command : c = Head(cmds)
  BY <1>1, <1>2, HeadOrTail
<1>4. c.cmd = "RouteStat" /\ c.router \in Router
  <2>1. 1 \in DOMAIN cmds /\ Head(cmds) = cmds[1]
    BY <1>1, <1>2, FirstAndRest
  <2>2. c.cmd = Round[6]
    BY <1>3, <2>1, Zenon DEF Session, UnderWay
  <2>3. c.cmd = "RouteStat"
    BY <2>2, RoundFacts
  <2> QED BY <2>3, CommandFacts
<1>5. PICK b \in Router : b = c.router
  BY <1>4
<1>6. PICK t : t = RouteInfo(b)
  OBVIOUS
<1>7. /\ t \in Seq(StatLines) /\ Len(t) = Outputs
      /\ \A o \in Output : StatOf(t[o], b, o) /\ Right(b, o, t[o].input)
  BY <1>2, <1>6, RouteInfoFacts, RouteInfoRight
<1>8. t \in Seq(Line) /\ tcp' = tcp \o t /\ DOMAIN t = Output
  <2>1. t \in Seq(Line)
    BY <1>7, StatsNumbers
  <2>2. Answer(c) = t
    BY <1>4, <1>5, <1>6 DEF Answer
  <2>3. DOMAIN t = 1 .. Len(t)
    BY <1>7
  <2>4. DOMAIN t = Output
    BY <1>7, <2>3, Zenon DEF Output
  <2> QED BY <1>1, <1>3, <2>1, <2>2, <2>4, Zenon
<1> SUFFICES ASSUME NEW r \in Router, NEW o \in OutputsOf(r) PROVE Settles(r, o)'
  BY Zenon DEF Crosspoints, Settles
<1>9. Settles(r, o)
  BY Zenon DEF Crosspoints, Settles
<1>10. o \in Output
  BY DestinationOf
<1>11. CASE r = b
  <2>1. StatOf(t[o], r, o)
    BY <1>7, <1>10, <1>11
  <2>2. ASSUME NEW k \in DOMAIN t, StatOf(t[k], r, o) PROVE Right(r, o, t[k].input)
    <3>1. StatOf(t[k], b, k)
      BY <1>7, <1>8
    <3>2. k = o
      BY <2>2, <3>1 DEF StatOf
    <3> QED BY <1>7, <1>10, <1>11, <3>2
  <2>3. Shown(r, o)'
    BY <1>1, <1>2, <1>8, <1>10, <2>1, <2>2, ShownAdded
  <2> QED BY <2>3 DEF Settles
<1>12. CASE r # b
  <2>1. \A k \in DOMAIN t : ~StatOf(t[k], r, o)
    BY <1>7, <1>8, <1>12 DEF StatOf
  <2>2. CASE Reported(r, o)
    <3>1. Reported(r, o)'
      BY <1>1, <2>2 DEF Reported
    <3> QED BY <3>1 DEF Settles
  <2>3. CASE Questioned(r)
    <3>1. PICK q : q = [cmd |-> "RouteStat", router |-> r]
      OBVIOUS
    <3>2. q \in ToSet(cmds)
      BY <2>3, <3>1 DEF Questioned, ToSet
    <3>3. q # c
      <4>1. q.router = r
        BY <3>1
      <4> QED BY <1>5, <1>12, <4>1
    <3>4. q \in ToSet(cmds')
      <4>1. q \in ToSet(cmds) <=> q = Head(cmds) \/ q \in ToSet(Tail(cmds))
        BY <1>1, <1>2, HeadOrTail
      <4> QED BY <1>1, <1>3, <3>2, <3>3, <4>1, Zenon
    <3>5. Questioned(r)'
      BY <3>1, <3>4 DEF Questioned, ToSet
    <3> QED BY <3>5 DEF Settles
  <2>4. CASE Shown(r, o)
    <3>1. Shown(r, o)'
      BY <1>1, <1>2, <1>8, <2>1, <2>4, ShownKept
    <3> QED BY <3>1 DEF Settles
  <2> QED BY <1>9, <2>2, <2>3, <2>4 DEF Settles
<1> QED BY <1>11, <1>12

\* The panel reads a report: the last one it has not read is still right, or it is the
\* one that it reads.
LEMMA ReadCross ==
  ASSUME TypeInv, Crosspoints, ReceiveStat
  PROVE  Crosspoints'
<1>1. Receive("RouteStat") /\ UNCHANGED cmds
  BY DEF ReceiveStat, Whole
<1>2. /\ tcp # <<>> /\ tcp' = Tail(tcp) /\ Head(tcp) \in StatLines
      /\ UNCHANGED <<core, ipc>>
  BY <1>1, ReceiveFacts
<1>3. PICK h \in StatLines : h = Head(tcp)
  BY <1>2
<1>4. /\ h.line = "RouteStat" /\ h.router \in Router /\ h.output \in Output
      /\ xpoint' = [xpoint EXCEPT ![h.router][h.output] = {h.input}]
  <2>1. h.line = "RouteStat" /\ h.router \in Router /\ h.output \in Output
    BY DEF StatLines
  <2> QED BY <1>3, <2>1, Zenon DEF ReceiveStat
<1>5. tcp \in Seq(Line) /\ xpoint \in [Router -> [Output -> SUBSET Nat]]
  BY DEF TypeInv
<1>6. PICK u, s, a : u = tcp' /\ s = tcp /\ a = Len(tcp)
  OBVIOUS
<1>x. a \in Nat \ {0} /\ a = Len(tcp)
  BY <1>2, <1>5, <1>6, FirstAndRest
<1>7. /\ DOMAIN s = 1 .. a /\ DOMAIN u = 1 .. a - 1 /\ h = s[1]
      /\ \A k \in 1 .. a - 1 : u[k] = s[k + 1]
  BY <1>2, <1>3, <1>5, <1>6, FirstAndRest, Zenon
<1>8. route' = route /\ pending' = pending /\ ipc' = ipc
  BY <1>2 DEF core
<1> SUFFICES ASSUME NEW r \in Router, NEW o \in OutputsOf(r) PROVE Settles(r, o)'
  BY Zenon DEF Crosspoints, Settles
<1>9. Settles(r, o)
  BY Zenon DEF Crosspoints, Settles
<1>10. o \in Output
  BY DestinationOf
<1>11. CASE Reported(r, o)
  <2>1. Reported(r, o)'
    BY <1>8, <1>11 DEF Reported
  <2> QED BY <2>1 DEF Settles
<1>12. CASE Questioned(r)
  <2>1. Questioned(r)'
    BY <1>1, <1>12 DEF Questioned
  <2> QED BY <2>1 DEF Settles
<1>13. ASSUME NEW k \in 1 .. a, StatOf(s[k], r, o), Right(r, o, s[k].input),
              \A j \in 1 .. a : j > k => ~StatOf(s[j], r, o)
       PROVE  Shown(r, o)'
  <2>1. CASE k = 1
    <3>1. ASSUME NEW j \in 1 .. a - 1 PROVE ~StatOf(u[j], r, o)
      <4>1. j + 1 \in 1 .. a /\ j + 1 > k /\ u[j] = s[j + 1]
        BY <1>x, <1>7, <2>1
      <4> QED BY <1>13, <4>1
    <3>2. PICK i : i = h.input
      OBVIOUS
    <3>3. h.router = r /\ h.output = o /\ Right(r, o, i)
      BY <1>7, <1>13, <2>1, <3>2 DEF StatOf
    <3>4. xpoint'[r][o] = {i}
      BY <1>4, <1>5, <1>10, <3>2, <3>3
    <3>5. i \in xpoint'[r][o] /\ Right(r, o, i)'
      BY <1>8, <3>3, <3>4, RightSame
    <3>6. \A j \in DOMAIN tcp' : ~StatOf(tcp'[j], r, o)
      BY <1>6, <1>7, <3>1
    <3> QED BY <3>5, <3>6 DEF Shown
  <2>2. CASE k # 1
    <3>1. PICK l \in 1 .. a - 1 : l = k - 1
      BY <1>x, <2>2
    <3>2. l + 1 = k /\ u[l] = s[k]
      <4>1. l + 1 = k
        BY <3>1
      <4> QED BY <1>7, <4>1
    <3>3. ASSUME NEW j \in 1 .. a - 1, j > l PROVE ~StatOf(u[j], r, o)
      <4>1. j + 1 \in 1 .. a /\ j + 1 > k /\ u[j] = s[j + 1]
        BY <1>x, <1>7, <3>1, <3>3
      <4> QED BY <1>13, <4>1
    <3>4. Right(r, o, u[l].input)'
      <4>1. PICK i : i = u[l].input
        OBVIOUS
      <4>2. Right(r, o, i)'
        BY <1>8, <1>13, <3>2, <4>1, RightSame
      <4> QED BY <4>1, <4>2 DEF Right
    <3> QED BY <1>6, <1>7, <1>13, <3>1, <3>2, <3>3, <3>4 DEF Shown, LastStat
  <2> QED BY <2>1, <2>2
<1>14. ASSUME \A k \in 1 .. a : ~StatOf(s[k], r, o),
              NEW i \in xpoint[r][o], Right(r, o, i)
       PROVE  Shown(r, o)'
  <2>1. ASSUME NEW j \in 1 .. a - 1 PROVE ~StatOf(u[j], r, o)
    <3>1. j + 1 \in 1 .. a /\ u[j] = s[j + 1]
      BY <1>x, <1>7
    <3> QED BY <1>14, <3>1
  <2>2. ~(h.router = r /\ h.output = o)
    <3>1. 1 \in 1 .. a
      BY <1>x
    <3> QED BY <1>4, <1>7, <1>14, <3>1 DEF StatOf
  <2>3. xpoint'[r][o] = xpoint[r][o]
    BY <1>4, <1>5, <1>10, <2>2
  <2>4. i \in xpoint'[r][o] /\ Right(r, o, i)'
    BY <1>8, <1>14, <2>3, RightSame
  <2>5. \A j \in DOMAIN tcp' : ~StatOf(tcp'[j], r, o)
    BY <1>6, <1>7, <2>1
  <2> QED BY <2>4, <2>5 DEF Shown
<1>15. CASE Shown(r, o)
  <2>1. \/ \E k \in 1 .. a : /\ StatOf(s[k], r, o) /\ Right(r, o, s[k].input)
                             /\ \A j \in 1 .. a : j > k => ~StatOf(s[j], r, o)
        \/ /\ \A k \in 1 .. a : ~StatOf(s[k], r, o)
           /\ \E i \in xpoint[r][o] : Right(r, o, i)
    BY <1>6, <1>7, <1>15, Zenon DEF Shown, LastStat
  <2>2. Shown(r, o)'
    BY <2>1, <1>13, <1>14
  <2> QED BY <2>2 DEF Settles
<1> QED BY <1>9, <1>11, <1>12, <1>15 DEF Settles

\* When the crosspoints have been asked for only reports and answers are under way.
LEMMA LastRound ==
  ASSUME TypeInv, NEW m \in Nat, Session(6, m), ParserStep
  PROVE  ReceiveStat
<1>1. 6 \in 1 .. 6 /\ ~(6 \in 2 .. 5) /\ 6 # 1
  OBVIOUS
<1>2. ASSUME NEW kind \in {"Begin", "Names", "End"}, Receive(kind) PROVE FALSE
  <2>1. tcp # <<>> /\ Head(tcp).line = kind
    BY <1>2, ReceiveFacts
  <2> QED BY <1>1, <2>1, HeadFacts
<1>3. ~ReceiveLogin
  <2> SUFFICES ASSUME Receive("Login") PROVE FALSE
    BY DEF ReceiveLogin, Whole
  <2>1. tcp # <<>> /\ Head(tcp).line = "Login"
    BY ReceiveFacts
  <2>2. /\ cmds \in Seq(Command) /\ tcp \in Seq(Line) /\ UnderWay(cmds, tcp, 6, m)
        /\ Listed(Head(tcp))
    BY <2>1 DEF TypeInv, Session, Listed
  <2>3. Belongs(Head(tcp), 6)
    BY <1>1, <2>1, <2>2, ListedUnderWay
  <2> QED BY <2>1, <2>2, <2>3 DEF Belongs
<1>4. ~ReceiveTorn
  BY <1>1 DEF ReceiveTorn, Session, Progress
<1>5. ~ReceiveStatUnread
  <2>1. \A k \in 1 .. 4 : List[k] \notin reading
    <3>1. \A k \in 1 .. 4 : k + 1 < 6
      OBVIOUS
    <3> QED BY <3>1, Zenon DEF Session, Progress
  <2>2. reading = {}
    <3>1. reading \subseteq Range(List)
      BY DEF TypeInv
    <3>2. 1 \in 1 .. 4 /\ 2 \in 1 .. 4 /\ 3 \in 1 .. 4 /\ 4 \in 1 .. 4
      OBVIOUS
    <3> QED BY <2>1, <3>1, <3>2, RoundFacts
  <2> QED BY <2>2 DEF ReceiveStatUnread
<1>6. ~ReceiveBegin
  BY <1>2 DEF ReceiveBegin, Whole
<1>7. ~ReceiveNames
  BY <1>2 DEF ReceiveNames, Whole
<1>8. ~(ReceiveEndRouters \/ ReceiveEndOther \/ ReceiveEndSources \/ ReceiveEndDests
        \/ ReceiveEndSnapshots)
  BY <1>2 DEF ReceiveEndRouters, ReceiveEndOther, ReceiveEndSources, ReceiveEndDests,
              ReceiveEndSnapshots, NextRound, EndsRound, Whole
<1> QED BY <1>3, <1>4, <1>5, <1>6, <1>7, <1>8 DEF ParserStep

LEMMA CrossSame ==
  ASSUME Crosspoints, UNCHANGED <<route, pending, ipc, cmds, tcp, xpoint>>
  PROVE  Crosspoints'
<1> SUFFICES ASSUME NEW r \in Router, NEW o \in OutputsOf(r) PROVE Settles(r, o)'
  BY Zenon DEF Crosspoints, Settles
<1>1. Settles(r, o)
  BY Zenon DEF Crosspoints, Settles
<1>2. Reported(r, o) => Reported(r, o)'
  BY DEF Reported
<1>3. Questioned(r) => Questioned(r)'
  BY DEF Questioned
<1>4. Shown(r, o) => Shown(r, o)'
  BY RightSame, ShownSame
<1> QED BY <1>1, <1>2, <1>3, <1>4 DEF Settles

LEMMA ParserStats ==
  ASSUME IInv, TypeInv', Stats, ParserStep
  PROVE  Stats'
<1>1. TypeInv /\ conn
  BY ReceiveConn DEF IInv
<1>2. PICK n \in 1 .. 6, m \in Nat : Session(n, m) /\ (n = 6 => Crosspoints)
  BY <1>1 DEF Stats
<1>3. CASE ReceiveEndSnapshots
  <2>1. Session(6, 0)' /\ \A r \in Router : OutputsOf(r) # {} => Questioned(r)'
    BY <1>1, <1>2, <1>3, EndsSnapshots
  <2>2. Crosspoints'
    <3> SUFFICES ASSUME NEW r \in Router, NEW o \in OutputsOf(r) PROVE Settles(r, o)'
      BY Zenon DEF Crosspoints, Settles
    <3>1. Questioned(r)'
      BY <2>1
    <3> QED BY <3>1 DEF Settles
  <2>3. 6 \in 1 .. 6 /\ 0 \in Nat
    OBVIOUS
  <2> QED BY <2>1, <2>2, <2>3 DEF Stats
<1>4. CASE ~ReceiveEndSnapshots
  <2>1. Goes(n)
    BY <1>2, <1>4, ParserMoves DEF Moves
  <2>2. PICK n2 \in 1 .. 6, m2 \in Nat : Session(n2, m2)' /\ (n2 = 6 => n = 6)
    BY <2>1, Zenon DEF Goes
  <2>3. n2 = 6 => Crosspoints'
    <3> SUFFICES ASSUME n2 = 6 PROVE Crosspoints'
      OBVIOUS
    <3>1. Session(6, m) /\ Crosspoints
      BY <1>2, <2>2
    <3>2. ReceiveStat
      BY <1>1, <3>1, LastRound
    <3> QED BY <1>1, <3>1, <3>2, ReadCross
  <2> QED BY <2>2, <2>3, Zenon DEF Stats
<1> QED BY <1>3, <1>4

LEMMA OutsideStats ==
  ASSUME PlainSources, IInv, TypeInv', Stats, conn,
         \/ \E d \in Dest, s \in Signal : DestinationChanged(d, s)
         \/ NotifyProtocols \/ CrosspointChanged \/ ProcessCommand \/ StartupTimeout
  PROVE  Stats'
<1>1. TypeInv
  BY DEF IInv
<1>2. PICK n \in 1 .. 6, m \in Nat : Session(n, m) /\ (n = 6 => Crosspoints)
  BY DEF Stats
<1>3. Session(n, m)'
  BY <1>1, <1>2, StaysInRound
<1>4. ASSUME Session(6, m), Crosspoints PROVE Crosspoints'
  <2>1. CASE StartupTimeout
    <3>1. UNCHANGED <<route, pending, ipc, cmds, tcp, xpoint>>
      BY <2>1 DEF StartupTimeout, core, lists
    <3> QED BY <1>4, <3>1, CrossSame
  <2> QED BY <1>1, <1>4, <2>1, ChangeCross, NotifyCross, ReportCross, AnswerCross
<1>5. n = 6 => Crosspoints'
  BY <1>2, <1>4
<1> QED BY <1>3, <1>5, Zenon DEF Stats

LEMMA StatsStep ==
  ASSUME PlainSources, IInv, Stats, [Next]_vars
  PROVE  Stats'
<1>1. TypeInv /\ TypeInv'
  BY TypeStep DEF IInv
<1> SUFFICES ASSUME conn' PROVE Stats'
  BY DEF Stats
<1>2. CASE Connect
  <2>1. Session(1, 0)'
    BY <1>2, ConnectInv
  <2>2. 1 \in 1 .. 6 /\ 0 \in Nat /\ 1 # 6
    OBVIOUS
  <2> QED BY <2>1, <2>2, Zenon DEF Stats
<1>3. CASE ConnectionClosed
  BY <1>3 DEF ConnectionClosed
<1>4. CASE UNCHANGED vars
  <2>1. UNCHANGED <<route, pending, ipc, cmds, tcp, xpoint, conn>>
    BY <1>4 DEF vars, core, parser, lists
  <2>2. PICK n \in 1 .. 6, m \in Nat : Session(n, m) /\ (n = 6 => Crosspoints)
    BY <2>1 DEF Stats
  <2>3. UnderWay(cmds', tcp', n, m)
    BY <2>1, <2>2, Zenon DEF Session
  <2>4. UNCHANGED <<drops, torn, reading, current, last, routers, inputs, outputs, shots,
                    awaited, starting, connected>>
    BY <1>4 DEF vars, parser, lists
  <2>5. Session(n, m)'
    BY <2>2, <2>3, <2>4, SameRound
  <2>6. n = 6 => Crosspoints'
    BY <2>1, <2>2, CrossSame
  <2> QED BY <2>5, <2>6, Zenon DEF Stats
<1>5. CASE \/ \E d \in Dest, s \in Signal : DestinationChanged(d, s)
           \/ NotifyProtocols \/ CrosspointChanged \/ ProcessCommand \/ StartupTimeout
  <2>1. conn
    BY <1>5 DEF DestinationChanged, NotifyProtocols, CrosspointChanged, ProcessCommand,
                StartupTimeout
  <2> QED BY <1>1, <1>5, <2>1, OutsideStats
<1>6. CASE ParserStep
  BY <1>1, <1>6, ParserStats
<1> QED BY <1>2, <1>3, <1>4, <1>5, <1>6 DEF Next, Work, ProtocolStep

\* Where nothing is under way every round has been read to its end.
LEMMA InvConverged ==
  ASSUME IInv, Stats
  PROVE  Converged
<1> SUFFICES ASSUME Quiescent, NEW r \in routers, NEW o \in outputs[r]
             PROVE  \E i \in xpoint[r][o] : Right(r, o, i)
  BY DEF Converged
<1>1. TypeInv /\ conn /\ pending = <<>> /\ ipc = <<>> /\ cmds = <<>> /\ tcp = <<>>
  BY DEF IInv, Quiescent
<1>2. PICK n \in 1 .. 6, m \in Nat : Session(n, m) /\ (n = 6 => Crosspoints)
  BY <1>1 DEF Stats
<1>3. r \in Router
  BY <1>1 DEF TypeInv
<1>4. \A i \in All(n) : ~(i >= m)
  <2>1. Numbers(tcp) = {} /\ Asked(cmds) = {}
    BY <1>1 DEF Numbers, Asked
  <2>2. Numbers(tcp) \cup Asked(cmds) = {i \in All(n) : i >= m}
    BY <1>2, Zenon DEF Session, UnderWay
  <2> QED BY <2>1, <2>2
<1>5. n # 1
  <2>1. n = 1 => routers = {} \/ \A x \in Router : outputs[x] = {}
    BY <1>2, Zenon DEF Session, Bare
  <2> QED BY <1>3, <2>1
<1>6. n \notin 2 .. 5
  BY <1>2, <1>3, <1>4, Zenon DEF Session, Unfinished
<1>7. n = 6
  BY <1>5, <1>6
<1>8. o \in OutputsOf(r)
  <2>1. Read(4, r, 6, m)
    BY DEF Read
  <2>2. outputs[r] = OutputsOf(r)
    BY <1>2, <1>3, <1>7, <2>1, Zenon DEF Session, Progress
  <2> QED BY <2>2
<1>9. Settles(r, o)
  BY <1>2, <1>3, <1>7, <1>8, Zenon DEF Crosspoints, Settles
<1>10. ~Reported(r, o) /\ ~Questioned(r)
  BY <1>1 DEF Reported, Questioned, ToSet
<1>11. Shown(r, o) /\ DOMAIN tcp = {}
  BY <1>1, <1>9, <1>10 DEF Settles
<1> QED BY <1>11 DEF Shown

\* When nothing is under way any more every output that the panel lists shows the input
\* it is connected to, for any number of routers, changes and lost connections, if no
\* source has the null stream or the stream of another source of its router.
THEOREM Convergence == ASSUME PlainSources PROVE Spec => []Converged
<1>1. Init => IInv /\ Stats
  <2>1. Init => ~conn
    BY DEF Init
  <2> QED BY <2>1, InitInv DEF Stats
<1>2. IInv /\ Stats /\ [Next]_vars => (IInv /\ Stats)'
  BY StepInv, StatsStep
<1>3. Spec => [](IInv /\ Stats)
  BY <1>1, <1>2, PTL DEF Spec
<1> QED BY <1>3, InvConverged, PTL
=============================================================================
