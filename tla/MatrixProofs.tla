---------------------------- MODULE MatrixProofs -----------------------------
(***************************************************************************)
(* That the last route asked for holds (LastRouteHolds), that every        *)
(* variable has its type (TypeOK) and that the watchdog takes only a       *)
(* device for lost whose answers were dropped (NoFalseAlarm), for any      *)
(* number of inputs, addresses of other nodes, routes and faults and       *)
(* either driver.                                                          *)
(***************************************************************************)
EXTENDS Matrix, SequenceTheorems, FiniteSetTheorems, FunctionTheorems, TLAPS

\* What each driver asks its device, and what it hears.
Asked == IF kind = "bt" THEN {"list", "gpi", "poll"} ELSE {"list", "names", "time"}
Told  == IF kind = "bt" THEN {"gpi", "alarm"} ELSE {"names", "time"}

Questions == [ask : Asked]
Commands  == [set : Streams \cup Foreign]
Lines     == [line : {"xpoint"}, input : Streams] \cup [line : Told]

\* A command for an input the device has.
Sets(c) == \E s \in Streams : c = [set |-> s]

TypeInv ==
  /\ kind \in {"bt", "gvg"} /\ xpoint \in Streams
  /\ toDev \in Seq(Questions \cup Commands)
  /\ toDrv \in Seq(Lines)
  /\ settled \in BOOLEAN

\* The device tells nothing without a connection.
Unplugged == link # "up" => toDrv = <<>>

\* No command of these tells the device what to select.
Harmless(lines) == \A k \in 1 .. Len(lines) : ~Sets(lines[k])

\* The last of these commands is the one for x.
LastSet(lines, k, x) ==
  /\ lines[k] = [set |-> x]
  /\ \A j \in k + 1 .. Len(lines) : ~Sets(lines[j])

\* The route last asked for is on its way, with none behind it, or it is there.
OnItsWay ==
  settled => \/ wanted \in Streams /\ \E k \in 1 .. Len(toDev) : LastSet(toDev, k, wanted)
             \/ Harmless(toDev) /\ xpoint = wanted

IInv == TypeInv /\ Unplugged /\ OnItsWay

\* The action leaves the invariant alone.
Quiet == UNCHANGED <<kind, xpoint, link, toDev, toDrv, row, wanted, settled>>
-----------------------------------------------------------------------------
(* Lines.                                                                  *)

\* A question is no command.
LEMMA QuestionIsNone ==
  ASSUME NEW q
  PROVE  ~Sets(Question(q))
<1>1. DOMAIN [ask |-> q] = {"ask"}
  BY Zenon
<1>2. \A s : DOMAIN [set |-> s] = {"set"}
  BY Zenon
<1> QED BY <1>1, <1>2 DEF Sets, Question

\* Without a command nothing is selected.
LEMMA NoCommandIsHarmless ==
  ASSUME NoCommand, toDev' = toDev PROVE Harmless(toDev) /\ Harmless(toDev')
<1>1. \A s : DOMAIN [set |-> s] = {"set"}
  BY Zenon
<1>2. Harmless(toDev)
  BY <1>1 DEF NoCommand, Harmless, Sets
<1> QED BY <1>2

\* A line behind the others that is no command changes nothing.
LEMMA HarmlessLine ==
  ASSUME IInv, NEW c \in Questions \cup Commands, ~Sets(c),
         toDev' = Append(toDev, c), UNCHANGED <<kind, xpoint, link, wanted, settled>>
  PROVE  toDev' \in Seq(Questions \cup Commands) /\ OnItsWay'
<1>1. toDev' \in Seq(Questions \cup Commands)
  BY DEF IInv, TypeInv
<1>2. Len(toDev') = Len(toDev) + 1 /\ toDev'[Len(toDev) + 1] = c
      /\ Len(toDev) \in Nat /\ \A k \in 1 .. Len(toDev) : toDev'[k] = toDev[k]
  BY DEF IInv, TypeInv
<1>3. Harmless(toDev) => Harmless(toDev')
  <2> SUFFICES ASSUME Harmless(toDev), NEW k \in 1 .. Len(toDev') PROVE ~Sets(toDev'[k])
    BY DEF Harmless
  <2> QED BY <1>2 DEF Harmless
<1>4. \A k \in 1 .. Len(toDev) : LastSet(toDev, k, wanted) => LastSet(toDev', k, wanted')
  <2> SUFFICES ASSUME NEW k \in 1 .. Len(toDev), LastSet(toDev, k, wanted)
               PROVE  \A j \in k + 1 .. Len(toDev') : ~Sets(toDev'[j])
    BY <1>2 DEF LastSet
  <2> QED BY <1>2 DEF LastSet
<1>5. OnItsWay'
  <2> SUFFICES ASSUME settled
               PROVE  \/ /\ wanted \in Streams
                         /\ \E k \in 1 .. Len(toDev') : LastSet(toDev', k, wanted')
                      \/ Harmless(toDev') /\ xpoint = wanted
    BY DEF OnItsWay
  <2> QED BY <1>2, <1>3, <1>4 DEF IInv, OnItsWay
<1> QED BY <1>1, <1>5

\* So does a question, if the socket is open, and no question at all.
LEMMA AskingIsHarmless ==
  ASSUME IInv, NEW q \in Asked, toDev' \in {toDev, Write(<< Question(q) >>)},
         UNCHANGED <<kind, xpoint, link, wanted, settled>>
  PROVE  toDev' \in Seq(Questions \cup Commands) /\ OnItsWay'
<1>1. CASE toDev' = toDev
  BY <1>1 DEF IInv, TypeInv, Harmless, OnItsWay, LastSet, Questions,
              Asked, Commands, Streams, Input
<1>2. CASE toDev' # toDev
  <2>1. toDev' = toDev \o << Question(q) >>
    BY <1>2 DEF Write
  <2>2. toDev' = Append(toDev, Question(q))
    BY <2>1 DEF IInv, TypeInv
  <2>3. Question(q) \in Questions \cup Commands
    BY DEF Question, Questions
  <2> QED BY <2>2, <2>3, QuestionIsNone, HarmlessLine
<1> QED BY <1>1, <1>2

\* Nor are the lines dropped with a route, or else the route is no longer expected.
LEMMA DropKeeps ==
  ASSUME IInv, Drop, link' # "up", toDrv' = <<>>, UNCHANGED <<kind, xpoint, wanted>>
  PROVE  IInv'
<1>1. toDev' = <<>> /\ settled' = (settled /\ NoCommand)
  BY DEF Drop
<1>2. TypeInv'
  BY <1>1 DEF IInv, TypeInv, Questions, Asked, Commands, Lines, Told, Streams, Input
<1>3. OnItsWay'
  <2> SUFFICES ASSUME settled' PROVE xpoint = wanted
    BY <1>1 DEF OnItsWay, Harmless
  <2>1. settled /\ NoCommand
    BY <1>1
  <2>2. \A k \in 1 .. Len(toDev) : toDev[k] # [set |-> wanted]
    <3>1. DOMAIN [set |-> wanted] = {"set"}
      BY Zenon
    <3> QED BY <2>1, <3>1 DEF NoCommand
  <2> QED BY <2>1, <2>2 DEF IInv, OnItsWay, LastSet
<1> QED BY <1>2, <1>3 DEF IInv, Unplugged

-----------------------------------------------------------------------------
(* One lemma per kind of step.                                             *)

LEMMA InitInv ==
  ASSUME Init PROVE IInv
<1>1. Kinds \subseteq {"bt", "gvg"}
  BY MatrixAssumption
<1> QED BY <1>1 DEF Init, IInv, TypeInv, Unplugged, OnItsWay, Harmless

LEMMA QuietKeeps ==
  ASSUME IInv, Quiet PROVE IInv'
BY DEF Quiet, IInv, TypeInv, Unplugged, OnItsWay, Harmless, LastSet, Questions, Asked,
       Commands, Lines, Told, Streams, Input, Sets

\* The questions of a new connection come behind the commands that the socket kept.
LEMMA ConnectedKeeps ==
  ASSUME IInv, Connected PROVE IInv'
<1> USE DEF IInv
<1>1. link = "connecting" /\ link' = "up" /\ toDev' = toDev \o Greeting
      /\ UNCHANGED <<kind, xpoint, toDrv, row, wanted, settled>>
  BY DEF Connected, device, driver, core, past
<1>2. Greeting \in Seq(Questions) /\ Harmless(Greeting)
  <2>1. \A k \in 1 .. Len(Greeting) : \E q \in Asked : Greeting[k] = Question(q)
    BY DEF Greeting, TypeInv, Asked
  <2>2. \A q \in Asked : Question(q) \in Questions
    BY DEF Questions, Question
  <2>3. Greeting \in Seq(Questions)
    <3>1. CASE kind = "bt"
      BY <2>2, <3>1 DEF Greeting, Asked
    <3>2. CASE kind # "bt"
      BY <2>2, <3>2 DEF Greeting, Asked
    <3> QED BY <3>1, <3>2
  <2> QED BY <2>1, <2>3, QuestionIsNone DEF Harmless
<1>3. toDev' \in Seq(Questions \cup Commands)
  BY <1>1, <1>2 DEF TypeInv
<1>4. Len(toDev') = Len(toDev) + Len(Greeting) /\ Len(toDev) \in Nat /\ Len(Greeting) \in Nat
  BY <1>1, <1>2 DEF TypeInv
<1>5. \A k \in 1 .. Len(toDev) : k \in 1 .. Len(toDev') /\ toDev'[k] = toDev[k]
  BY <1>1, <1>2, <1>4 DEF TypeInv
<1>6. ASSUME NEW k \in 1 .. Len(toDev'), k \notin 1 .. Len(toDev) PROVE ~Sets(toDev'[k])
  <2>1. k - Len(toDev) \in 1 .. Len(Greeting)
    BY <1>4, <1>6
  <2>2. toDev'[k] = Greeting[k - Len(toDev)]
    BY <1>1, <1>2, <1>4, <1>6 DEF TypeInv
  <2> QED BY <1>2, <2>1, <2>2 DEF Harmless
<1>7. Harmless(toDev) => Harmless(toDev')
  BY <1>5, <1>6 DEF Harmless
<1>8. ASSUME NEW k \in 1 .. Len(toDev), LastSet(toDev, k, wanted)
      PROVE  LastSet(toDev', k, wanted')
  <2>1. ASSUME NEW j \in k + 1 .. Len(toDev') PROVE ~Sets(toDev'[j])
    <3>1. CASE j \in 1 .. Len(toDev)
      <4>1. j \in k + 1 .. Len(toDev)
        BY <1>4, <3>1
      <4> QED BY <1>5, <1>8, <3>1, <4>1 DEF LastSet
    <3>2. CASE j \notin 1 .. Len(toDev)
      <4>1. j \in 1 .. Len(toDev')
        BY <1>4
      <4> QED BY <1>6, <3>2, <4>1
    <3> QED BY <3>1, <3>2
  <2> QED BY <1>1, <1>5, <1>8, <2>1 DEF LastSet
<1>9. OnItsWay'
  <2> SUFFICES ASSUME settled
               PROVE  \/ /\ wanted \in Streams
                         /\ \E k \in 1 .. Len(toDev') : LastSet(toDev', k, wanted')
                      \/ Harmless(toDev') /\ xpoint = wanted
    BY <1>1 DEF OnItsWay, Streams, Input
  <2> QED BY <1>5, <1>7, <1>8 DEF OnItsWay
<1>10. TypeInv'
  BY <1>1, <1>3 DEF TypeInv, Questions, Asked, Commands, Lines, Told, Streams, Input
<1> QED BY <1>1, <1>9, <1>10 DEF Unplugged

\* The device takes the first line: if that was the route last asked for, it is there.
LEMMA ObeyKeeps ==
  ASSUME IInv, Obey PROVE IInv'
<1> USE DEF IInv
<1>1. link = "up" /\ toDev # <<>> /\ toDev' = Tail(toDev)
      /\ UNCHANGED <<kind, link, row, wanted, settled>>
  BY DEF Obey, driver, core, past, bounds, timers
<1> DEFINE c == Head(toDev)
<1>2. c \in Questions \cup Commands /\ toDev' \in Seq(Questions \cup Commands)
      /\ c = toDev[1] /\ Len(toDev) \in Nat \ {0} /\ Len(toDev') = Len(toDev) - 1
      /\ \A k \in 1 .. Len(toDev') : toDev'[k] = toDev[k + 1]
  BY <1>1 DEF TypeInv
<1>3. c \in Questions => \E q \in Asked : c = Question(q)
  BY DEF Questions, Question
<1>4. \/ \E s \in Streams : c = [set |-> s] /\ xpoint' = s
      \/ ~Sets(c) /\ xpoint' = xpoint
  <2>1. CASE c \in Questions
    <3>1. ~Sets(c)
      BY <1>3, <2>1, QuestionIsNone
    <3>2. "set" \notin DOMAIN c
      BY <2>1 DEF Questions
    <3> QED BY <3>1, <3>2 DEF Obey
  <2>2. CASE c \in Commands
    <3>1. PICK s \in Streams \cup Foreign : c = [set |-> s]
      BY <2>2 DEF Commands
    <3>2. "set" \in DOMAIN c /\ c.set = s
      BY <3>1
    <3>3. CASE s \in Streams
      BY <3>1, <3>2, <3>3 DEF Obey, Select
    <3>4. CASE s \notin Streams
      BY <3>1, <3>2, <3>4 DEF Obey, Sets
    <3> QED BY <3>3, <3>4
  <2> QED BY <1>2, <2>1, <2>2
<1>5. toDrv' \in Seq(Lines)
  <2>1. ASSUME NEW s \in Streams PROVE Selected(s) \in Lines
    BY DEF Selected, Lines
  <2>2. ASSUME NEW q \in Asked PROVE Answer(q) \in Lines
    <3>1. \A l \in Told : Says(l) \in Lines
      BY DEF Says, Lines
    <3>2. CASE q = "list"
      BY <2>1, <3>2 DEF Answer, TypeInv
    <3>3. CASE q # "list"
      BY <2>2, <3>1, <3>3 DEF Answer, Asked, Told
    <3> QED BY <3>2, <3>3
  <2>3. CASE c \in Questions
    <3>1. PICK q \in Asked : c = [ask |-> q]
      BY <2>3 DEF Questions
    <3>2. "set" \notin DOMAIN c /\ "ask" \in DOMAIN c /\ c.ask = q
      BY <3>1
    <3>3. toDrv' = toDrv \o << Answer(q) >>
      BY <1>1, <3>2 DEF Obey, Tell
    <3> QED BY <2>2, <3>3 DEF TypeInv
  <2>4. CASE c \in Commands
    <3>1. PICK s \in Streams \cup Foreign : c = [set |-> s]
      BY <2>4 DEF Commands
    <3>2. "set" \in DOMAIN c /\ "ask" \notin DOMAIN c /\ c.set = s
      BY <3>1
    <3>3. \/ s \in Streams /\ toDrv' \in {toDrv \o << Selected(s) >>, toDrv \o <<>>}
          \/ toDrv' = toDrv \o <<>>
      BY <1>1, <3>2 DEF Obey, Select, Tell
    <3> QED BY <2>1, <3>3 DEF TypeInv
  <2> QED BY <1>2, <2>3, <2>4
<1>6. TypeInv'
  BY <1>1, <1>2, <1>4, <1>5 DEF TypeInv, Questions, Asked, Commands, Lines, Told, Streams,
                                Input
<1>7. OnItsWay'
  <2> SUFFICES ASSUME settled
               PROVE  \/ /\ wanted \in Streams
                         /\ \E k \in 1 .. Len(toDev') : LastSet(toDev', k, wanted')
                      \/ Harmless(toDev') /\ xpoint' = wanted
    BY <1>1 DEF OnItsWay
  <2>1. CASE wanted \in Streams /\ LastSet(toDev, 1, wanted)
    <3>1. xpoint' = wanted
      <4>1. c = [set |-> wanted] /\ c.set = wanted
        BY <1>2, <2>1 DEF LastSet
      <4>2. Sets(c)
        BY <2>1, <4>1 DEF Sets
      <4> QED BY <1>4, <4>1, <4>2
    <3>2. Harmless(toDev')
      BY <1>2, <2>1 DEF LastSet, Harmless
    <3> QED BY <3>1, <3>2
  <2>2. ASSUME NEW k \in 2 .. Len(toDev), wanted \in Streams, LastSet(toDev, k, wanted)
        PROVE  LastSet(toDev', k - 1, wanted')
    <3>1. k - 1 \in 1 .. Len(toDev') /\ toDev'[k - 1] = toDev[k]
      BY <1>2
    <3>2. ASSUME NEW j \in k .. Len(toDev')
          PROVE  j \in 1 .. Len(toDev') /\ j + 1 \in k + 1 .. Len(toDev)
      BY <1>2
    <3>3. \A j \in k .. Len(toDev') : ~Sets(toDev'[j])
      BY <1>2, <2>2, <3>2 DEF LastSet
    <3> QED BY <1>1, <2>2, <3>1, <3>3 DEF LastSet
  <2>3. CASE Harmless(toDev) /\ xpoint = wanted
    <3>1. ~Sets(c)
      BY <1>2, <2>3 DEF Harmless
    <3>2. xpoint' = wanted
      BY <1>4, <2>3, <3>1 DEF Sets
    <3>3. Harmless(toDev')
      BY <1>2, <2>3 DEF Harmless
    <3> QED BY <3>2, <3>3
  <2> QED
    <3>1. ASSUME NEW k \in 1 .. Len(toDev), k # 1
          PROVE  k \in 2 .. Len(toDev) /\ k - 1 \in 1 .. Len(toDev')
      BY <1>2, <3>1
    <3>2. 1 \in 1 .. Len(toDev)
      BY <1>2
    <3> QED BY <1>1, <2>1, <2>2, <2>3, <3>1, <3>2 DEF OnItsWay
<1>8. Unplugged'
  BY <1>1 DEF Unplugged
<1> QED BY <1>6, <1>7, <1>8

\* A push of the device's buttons counts only when no command is under way.
LEMMA PushKeeps ==
  ASSUME IInv, NEW x \in Streams, Push(x) PROVE IInv'
<1>1. xpoint' = x /\ wanted' = x /\ settled' = NoCommand /\ dev = "up"
      /\ UNCHANGED <<kind, link, toDev, row>>
  BY DEF Push, Select, core, driver, timers
<1>2. Selected(x) \in Lines
  BY DEF Selected, Lines
<1>3. toDrv' \in Seq(Lines) /\ (link # "up" => toDrv' = toDrv)
  BY <1>2 DEF Push, Select, Tell, IInv, TypeInv
<1>4. OnItsWay'
  <2>1. settled' => Harmless(toDev') /\ xpoint' = wanted'
    BY <1>1, NoCommandIsHarmless
  <2> QED BY <2>1 DEF OnItsWay
<1>5. settled' \in BOOLEAN
  BY <1>1 DEF NoCommand
<1> QED BY <1>1, <1>3, <1>4, <1>5 DEF IInv, TypeInv, Unplugged, Questions, Asked, Commands, Lines,
                               Told, Streams, Input, Sets

\* The number in a command is that of an input, off, or the foreign one itself.
LEMMA NumbersAre ==
  ASSUME NEW s \in Streams \cup Foreign
  PROVE  Numbers(s) \subseteq Streams \cup Foreign
<1>1. CASE s \in Input
  BY <1>1 DEF Numbers, Streams
<1>2. CASE s \notin Input /\ s = Off
  BY <1>2 DEF Numbers, Streams
<1>3. CASE s \notin Input /\ s # Off
  BY <1>3 DEF Numbers
<1> QED BY <1>1, <1>2, <1>3

\* A route that the core asks for comes behind all others, if it is written at all.
LEMMA CrosspointKeeps ==
  ASSUME IInv, NEW s \in Streams \cup Foreign, Crosspoint(s) PROVE IInv'
<1> USE DEF IInv
<1>1. UNCHANGED <<kind, xpoint, link, toDrv, row>>
  BY DEF Crosspoint, device, core
<1>2. CASE /\ Held(s)
           /\ wanted' = s /\ settled' = (s = xpoint /\ NoCommand) /\ toDev' = toDev
  <2>1. settled' => Harmless(toDev') /\ xpoint' = wanted'
    BY <1>1, <1>2, NoCommandIsHarmless
  <2>2. settled' \in BOOLEAN
    BY <1>2 DEF NoCommand
  <2>3. OnItsWay'
    BY <2>1 DEF OnItsWay
  <2> QED BY <1>1, <1>2, <2>2, <2>3 DEF TypeInv, Unplugged, Questions, Asked, Commands,
                 Lines, Told, Streams, Input
<1>3. CASE UNCHANGED <<toDev, wanted, settled>>
  BY <1>1, <1>3, QuietKeeps DEF Quiet
<1>4. CASE \E low \in Numbers(s) :
             /\ toDev' = Write(<< [set |-> Number(low)] >>)
             /\ IF low \in Streams
                  THEN wanted' = low /\ settled' = (link \in {"connecting", "up"})
                  ELSE UNCHANGED <<wanted, settled>>
  <2>1. PICK low \in Numbers(s) :
             /\ toDev' = Write(<< [set |-> low] >>)
             /\ IF low \in Streams
                  THEN wanted' = low /\ settled' = (link \in {"connecting", "up"})
                  ELSE UNCHANGED <<wanted, settled>>
    BY <1>4 DEF Number
  <2>2. low \in Streams \cup Foreign
    BY NumbersAre
  <2>3. [set |-> low] \in Questions \cup Commands
    BY <2>2 DEF Commands
  <2>4. CASE link \notin {"connecting", "up"}
    <3>1. toDev' = toDev
      BY <2>1, <2>4 DEF Write
    <3>2. CASE low \in Streams
      <4>1. settled' = (link \in {"connecting", "up"})
        BY <2>1, <3>2, Zenon
      <4>2. ~settled'
        BY <2>4, <4>1
      <4>3. settled' \in BOOLEAN
        BY <4>1
      <4> QED BY <1>1, <3>1, <4>2, <4>3 DEF TypeInv, Unplugged, OnItsWay, Questions, Asked, Commands,
                 Lines, Told, Streams, Input
    <3>3. CASE low \notin Streams
      BY <1>1, <2>1, <3>1, <3>3, QuietKeeps DEF Quiet
    <3> QED BY <3>2, <3>3
  <2>5. CASE link \in {"connecting", "up"}
    <3>1. toDev' = Append(toDev, [set |-> low])
      BY <2>1, <2>5 DEF Write, TypeInv
    <3>2. toDev' \in Seq(Questions \cup Commands)
          /\ Len(toDev') = Len(toDev) + 1 /\ Len(toDev) \in Nat
          /\ toDev'[Len(toDev) + 1] = [set |-> low]
      BY <2>3, <3>1 DEF TypeInv
    <3>3. CASE low \in Streams
      <4>1. wanted' = low /\ settled' = TRUE
        BY <2>1, <2>5, <3>3
      <4>2. LastSet(toDev', Len(toDev) + 1, low)
        BY <3>2 DEF LastSet
      <4>3. OnItsWay'
        BY <3>2, <3>3, <4>1, <4>2 DEF OnItsWay, Streams, Input
      <4> QED BY <1>1, <3>2, <4>1, <4>3 DEF TypeInv, Unplugged, Questions, Asked,
                 Commands, Lines, Told, Streams, Input
    <3>4. CASE low \notin Streams
      <4>1. ~Sets([set |-> low])
        <5>1. ASSUME NEW t \in Streams, [set |-> low] = [set |-> t] PROVE FALSE
          BY <3>4, <5>1
        <5> QED BY <5>1 DEF Sets
      <4>2. UNCHANGED <<wanted, settled>>
        BY <2>1, <3>4
      <4>3. OnItsWay'
        BY <1>1, <2>3, <3>1, <4>1, <4>2, HarmlessLine
      <4> QED BY <1>1, <3>2, <4>2, <4>3 DEF TypeInv, Unplugged, Questions, Asked,
                 Commands, Lines, Told, Streams, Input
    <3> QED BY <3>3, <3>4
  <2> QED BY <2>4, <2>5
<1> QED BY <1>2, <1>3, <1>4 DEF Crosspoint

\* A line from the device leaves what is asked of it alone, but for one more question.
LEMMA BtReadKeeps ==
  ASSUME IInv, NEW n \in 1 .. Len(toDrv), BtRead(n) PROVE IInv'
<1> USE DEF IInv
<1>1. kind = "bt" /\ toDrv' = SubSeq(toDrv, n + 1, Len(toDrv))
      /\ UNCHANGED <<kind, xpoint, link, wanted, settled>>
  BY DEF BtRead, device
<1>2. link = "up"
  BY DEF Unplugged
<1>3. toDrv' \in Seq(Lines)
  BY <1>1, SubSeqProperties DEF TypeInv
<1>4. "gpi" \in Asked
  BY <1>1 DEF Asked
<1>5. toDev' \in {toDev, Write(<< Question("gpi") >>)}
  <2>1. CASE n = 1
    <3>1. BtReads(Head(toDrv))
      BY <2>1 DEF BtRead
    <3>2. Head(toDrv) \in Lines
      BY DEF TypeInv
    <3>3. Head(toDrv).line \in {"xpoint", "gpi", "alarm"}
      BY <1>1, <3>2 DEF Lines, Told
    <3> QED BY <3>1, <3>3 DEF BtReads
  <2>2. CASE n # 1
    BY <2>2 DEF BtRead
  <2> QED BY <2>1, <2>2
<1>6. toDev' \in Seq(Questions \cup Commands) /\ OnItsWay'
  BY <1>1, <1>4, <1>5, AskingIsHarmless
<1> QED BY <1>1, <1>2, <1>3, <1>6 DEF TypeInv, Unplugged, Questions, Asked, Commands, Lines,
                                     Told, Streams, Input

LEMMA GvgReadKeeps ==
  ASSUME IInv, GvgRead PROVE IInv'
<1> USE DEF IInv
<1>1. toDrv # <<>> /\ toDrv' = Tail(toDrv)
      /\ UNCHANGED <<kind, xpoint, link, toDev, wanted, settled>>
  BY DEF GvgRead, device, past
<1>2. link = "up"
  BY <1>1 DEF Unplugged
<1>3. toDrv' \in Seq(Lines)
  BY <1>1 DEF TypeInv
<1> QED BY <1>1, <1>2, <1>3 DEF TypeInv, Unplugged, OnItsWay, Harmless, LastSet, Questions,
                               Asked, Commands, Lines, Told, Streams, Input, Sets

LEMMA PollKeeps ==
  ASSUME IInv, Poll PROVE IInv'
<1> USE DEF IInv
<1>1. UNCHANGED <<kind, xpoint, link, toDrv, row, wanted, settled>>
  BY DEF Poll, device, core, past
<1> DEFINE q == IF kind = "bt" THEN "poll" ELSE "list"
<1>2. q \in Asked /\ toDev' \in {toDev, Write(<< Question(q) >>)}
  BY DEF Poll, Asked
<1>3. toDev' \in Seq(Questions \cup Commands) /\ OnItsWay'
  BY <1>1, <1>2, AskingIsHarmless
<1> QED BY <1>1, <1>3 DEF TypeInv, Unplugged, Harmless, Questions, Asked, Commands, Lines,
                          Told, Streams, Input, Sets

\* The driver closes the socket: what was under way is lost.
LEMMA TimeoutKeeps ==
  ASSUME IInv, WatchdogTimeout PROVE IInv'
<1>1. UNCHANGED <<kind, xpoint, row, wanted>>
  BY DEF WatchdogTimeout, device, core
<1>2. CASE link = "up"
  <2>1. Drop /\ link' = "lost" /\ toDrv' = <<>>
    BY <1>2 DEF WatchdogTimeout, Cut
  <2> QED BY <1>1, <2>1, DropKeeps
<1>3. CASE link = "connecting"
  <2>1. link' = "closing" /\ UNCHANGED <<toDev, toDrv, settled>>
    BY <1>3 DEF WatchdogTimeout
  <2>2. OnItsWay'
    BY <1>1, <2>1 DEF IInv, OnItsWay, Harmless, LastSet, Sets
  <2> QED BY <1>1, <1>3, <2>1, <2>2 DEF IInv, TypeInv, Unplugged, Questions, Asked, Commands,
             Lines, Told, Streams, Input, Sets
<1>4. CASE link \notin {"up", "connecting"}
  BY <1>1, <1>4, QuietKeeps DEF WatchdogTimeout, Quiet
<1> QED BY <1>2, <1>3, <1>4

\* The steps that only the connection takes.
LEMMA LinkKeeps ==
  ASSUME IInv, \/ ConnectToHost \/ ConnectedClosing \/ Refused \/ Lose \/ Disconnected
  PROVE  IInv'
<1>1. CASE ConnectToHost
  <2>1. UNCHANGED <<kind, xpoint, toDev, toDrv, row, wanted, settled>>
    BY <1>1 DEF ConnectToHost, device, core, past
  <2>2. CASE link = "idle"
    <3>1. link' = "connecting"
      BY <1>1, <2>2 DEF ConnectToHost
    <3>2. OnItsWay'
      BY <2>1 DEF IInv, OnItsWay, Harmless, LastSet, Sets
    <3> QED BY <2>1, <2>2, <3>1, <3>2 DEF IInv, TypeInv, Unplugged, Questions, Asked, Commands,
               Lines, Told, Streams, Input, Sets
  <2>3. CASE link # "idle"
    BY <1>1, <2>1, <2>3, QuietKeeps DEF ConnectToHost, Quiet
  <2> QED BY <2>2, <2>3
<1>2. CASE ConnectedClosing
  <2>1. link = "closing" /\ link' = "lost" /\ Drop
        /\ UNCHANGED <<kind, xpoint, toDrv, wanted>>
    BY <1>2 DEF ConnectedClosing, device
  <2> QED BY <2>1, DropKeeps DEF IInv, Unplugged
<1>3. CASE Refused
  <2>1. link \in {"connecting", "closing"} /\ link' = "refused" /\ Drop
        /\ UNCHANGED <<kind, xpoint, toDrv, wanted>>
    BY <1>3 DEF Refused, device
  <2> QED BY <2>1, DropKeeps DEF IInv, Unplugged
<1>4. CASE Lose
  <2>1. Drop /\ link' = "lost" /\ toDrv' = <<>> /\ UNCHANGED <<kind, xpoint, wanted>>
    BY <1>4 DEF Lose, Cut, device
  <2> QED BY <2>1, DropKeeps
<1>5. CASE Disconnected
  <2>1. link = "lost" /\ link' = "idle" /\ row' = FALSE
        /\ UNCHANGED <<kind, xpoint, toDev, toDrv, wanted, settled>>
    BY <1>5 DEF Disconnected, device, past
  <2>2. OnItsWay'
    BY <2>1 DEF IInv, OnItsWay, Harmless, LastSet, Sets
  <2> QED BY <2>1, <2>2 DEF IInv, TypeInv, Unplugged, Questions, Asked, Commands, Lines, Told,
             Streams, Input, Sets
<1> QED BY <1>1, <1>2, <1>3, <1>4, <1>5

LEMMA NextKeeps ==
  ASSUME IInv, [Next]_vars PROVE IInv'
<1>1. CASE UNCHANGED vars
  BY <1>1, QuietKeeps DEF vars, Quiet, device, core, past
<1>2. CASE \E state \in {"up", "hung", "down"} : Change(state)
  BY <1>2, QuietKeeps DEF Change, Quiet, core, past
<1>3. CASE Tick
  BY <1>3, QuietKeeps DEF Tick, Quiet, device, core, past
<1> QED
  BY <1>1, <1>2, <1>3, LinkKeeps, ConnectedKeeps, ObeyKeeps, PushKeeps, CrosspointKeeps,
     BtReadKeeps, GvgReadKeeps, PollKeeps, TimeoutKeeps DEF Next

-----------------------------------------------------------------------------
(* What the watchdog counts.                                               *)

\* How many members of a sequence are in a set.
Hits(s, T)  == {k \in DOMAIN s : s[k] \in T}
Count(s, T) == Cardinality(Hits(s, T))

Polls   == {Question("poll")}
Replied == {Says("alarm")}

\* The polls that are on their way, and their answers.
UnderWay == Count(toDev, Polls) + Count(toDrv, Replied)

\* A count is a number.
LEMMA CountType ==
  ASSUME NEW S, NEW s \in Seq(S), NEW T
  PROVE  IsFiniteSet(Hits(s, T)) /\ Count(s, T) \in Nat
<1>1. Hits(s, T) \in SUBSET (1 .. Len(s)) /\ Len(s) \in Nat
  BY DEF Hits
<1>2. IsFiniteSet(1 .. Len(s))
  BY <1>1, FS_Interval
<1>3. IsFiniteSet(Hits(s, T))
  BY <1>1, <1>2, FS_Subset
<1> QED BY <1>3, FS_CardinalityType DEF Count

\* Two sequences in a row have the members of both.
LEMMA CountJoin ==
  ASSUME NEW S, NEW s \in Seq(S), NEW t \in Seq(S), NEW T
  PROVE  Count(s \o t, T) = Count(s, T) + Count(t, T)
<1>1. PICK n \in Nat, m \in Nat : n = Len(s) /\ m = Len(t)
  OBVIOUS
<1>2. PICK u : u = s \o t
  OBVIOUS
<1>3. /\ u \in Seq(S) /\ DOMAIN u = 1 .. n + m
      /\ \A k \in 1 .. n + m : u[k] = IF k <= n THEN s[k] ELSE t[k - n]
  BY <1>1, <1>2, ConcatProperties
<1> DEFINE A == Hits(s, T)
           B == {k \in n + 1 .. n + m : t[k - n] \in T}
           f == [k \in B |-> k - n]
<1>4. A \subseteq 1 .. n /\ B \subseteq n + 1 .. n + m
  BY <1>1 DEF Hits
<1>5. Hits(u, T) = A \cup B
  <2>1. ASSUME NEW k PROVE k \in Hits(u, T) <=> k \in A \cup B
    <3>1. CASE k \in 1 .. n
      <4>1. k \in 1 .. n + m /\ u[k] = s[k] /\ k \notin n + 1 .. n + m
        BY <1>3, <3>1
      <4> QED BY <1>1, <1>3, <3>1, <4>1 DEF Hits
    <3>2. CASE k \in n + 1 .. n + m
      <4>1. k \in 1 .. n + m /\ u[k] = t[k - n] /\ k \notin 1 .. n
        BY <1>3, <3>2
      <4> QED BY <1>1, <1>3, <3>2, <4>1 DEF Hits
    <3>3. CASE k \notin 1 .. n /\ k \notin n + 1 .. n + m
      <4>1. k \notin 1 .. n + m
        BY <3>3
      <4> QED BY <1>3, <1>4, <3>3, <4>1 DEF Hits
    <3> QED BY <3>1, <3>2, <3>3
  <2> QED BY <2>1
<1>6. f \in Injection(B, Hits(t, T)) /\ f \in Surjection(B, Hits(t, T))
  <2>1. \A k \in n + 1 .. n + m : k - n \in 1 .. m
    OBVIOUS
  <2>2. DOMAIN t = 1 .. m
    BY <1>1
  <2>3. f \in [B -> Hits(t, T)]
    BY <2>1, <2>2 DEF Hits
  <2>4. \A a, b \in B : f[a] = f[b] => a = b
    OBVIOUS
  <2>5. \A j \in Hits(t, T) : \E k \in B : f[k] = j
    <3> SUFFICES ASSUME NEW j \in Hits(t, T) PROVE j + n \in B /\ f[j + n] = j
      OBVIOUS
    <3>1. j \in 1 .. m /\ t[j] \in T
      BY <2>2 DEF Hits
    <3>2. j + n \in n + 1 .. n + m /\ (j + n) - n = j
      BY <3>1
    <3> QED BY <3>1, <3>2
  <2> HIDE DEF f, B
  <2> QED BY <2>3, <2>4, <2>5, Fun_IsInj, Fun_IsSurj
<1>7. IsFiniteSet(B) /\ Cardinality(B) = Count(t, T)
  <2>1. IsFiniteSet(Hits(t, T))
    BY CountType
  <2> HIDE DEF f, B
  <2>2. IsFiniteSet(B) /\ Cardinality(B) = Cardinality(Hits(t, T))
    BY <1>6, <2>1, FS_Injection
  <2> QED BY <2>2 DEF Count
<1>8. IsFiniteSet(A) /\ Cardinality(A) = Count(s, T)
  BY CountType DEF Count
<1>9. A \cap B = {}
  <2> HIDE DEF A, B
  <2> QED BY <1>4
<1>10. Cardinality(A \cup B) = Count(s, T) + Count(t, T)
  <2> HIDE DEF A, B
  <2>1. Cardinality(A \cup B) = Cardinality(A) + Cardinality(B) - Cardinality(A \cap B)
    BY <1>7, <1>8, FS_Union
  <2>2. Cardinality(A \cap B) = 0
    BY <1>9, FS_EmptySet
  <2>3. Count(s, T) \in Nat /\ Count(t, T) \in Nat
    BY CountType
  <2> QED BY <1>7, <1>8, <2>1, <2>2, <2>3
<1> QED BY <1>2, <1>5, <1>10 DEF Count

\* One line has one hit, or none.
LEMMA CountOne ==
  ASSUME NEW e, NEW T
  PROVE  Count(<< e >>, T) = IF e \in T THEN 1 ELSE 0
<1>1. DOMAIN << e >> = {1} /\ << e >>[1] = e
  OBVIOUS
<1>2. CASE e \in T
  <2>1. Hits(<< e >>, T) = {1}
    BY <1>1, <1>2 DEF Hits
  <2> QED BY <1>2, <2>1, FS_Singleton DEF Count
<1>3. CASE e \notin T
  <2>1. Hits(<< e >>, T) = {}
    BY <1>1, <1>3 DEF Hits
  <2> QED BY <1>3, <2>1, FS_EmptySet DEF Count
<1> QED BY <1>2, <1>3

LEMMA CountNone ==
  ASSUME NEW T
  PROVE  Count(<<>>, T) = 0
<1>1. Hits(<<>>, T) = {}
  BY DEF Hits
<1> QED BY <1>1, FS_EmptySet DEF Count

\* What is read and what is left are all that was there.
LEMMA CountParts ==
  ASSUME NEW S, NEW s \in Seq(S), NEW n \in 1 .. Len(s), NEW T
  PROVE  /\ SubSeq(s, 1, n) \in Seq(S) /\ SubSeq(s, n + 1, Len(s)) \in Seq(S)
         /\ Count(s, T) = Count(SubSeq(s, 1, n), T) + Count(SubSeq(s, n + 1, Len(s)), T)
<1>0. Len(s) \in Nat /\ n \in Nat /\ n <= Len(s)
  OBVIOUS
<1>1. SubSeq(s, 1, n) \in Seq(S) /\ SubSeq(s, n + 1, Len(s)) \in Seq(S)
  BY <1>0, SubSeqProperties
<1>2. SubSeq(s, 1, n) \o SubSeq(s, n + 1, Len(s)) = SubSeq(s, 1, Len(s))
  BY <1>0, ConcatAdjacentSubSeq
<1>3. SubSeq(s, 1, Len(s)) = s
  OBVIOUS
<1>4. Count(SubSeq(s, 1, n) \o SubSeq(s, n + 1, Len(s)), T)
        = Count(SubSeq(s, 1, n), T) + Count(SubSeq(s, n + 1, Len(s)), T)
  <2>1. PICK h \in Seq(S), t \in Seq(S) :
          h = SubSeq(s, 1, n) /\ t = SubSeq(s, n + 1, Len(s))
    BY <1>1
  <2>2. Count(h \o t, T) = Count(h, T) + Count(t, T)
    BY CountJoin
  <2> QED BY <2>1, <2>2, Zenon
<1> QED BY <1>1, <1>2, <1>3, <1>4, Zenon

\* Taking the head takes it alone.
LEMMA CountHead ==
  ASSUME NEW S, NEW s \in Seq(S), s # <<>>, NEW T
  PROVE  Count(s, T) = Count(Tail(s), T) + IF Head(s) \in T THEN 1 ELSE 0
<1>1. s = << Head(s) >> \o Tail(s) /\ << Head(s) >> \in Seq(S) /\ Tail(s) \in Seq(S)
  OBVIOUS
<1>2. Count(s, T) = Count(<< Head(s) >>, T) + Count(Tail(s), T)
  <2>1. PICK h \in Seq(S), t \in Seq(S) : h = << Head(s) >> /\ t = Tail(s)
    BY <1>1
  <2>2. Count(h \o t, T) = Count(h, T) + Count(t, T)
    BY CountJoin
  <2> QED BY <1>1, <2>1, <2>2, Zenon
<1>3. Count(Tail(s), T) \in Nat
  BY <1>1, CountType
<1> QED BY <1>2, <1>3, CountOne

\* The answers the driver drops are those it is said to drop.
LEMMA AlarmsCounted ==
  ASSUME NEW s \in Seq(Lines)
  PROVE  Alarms(s) = Count(s, Replied)
<1>1. \A k \in DOMAIN s : s[k].line = "alarm" <=> s[k] \in Replied
  <2>1. ASSUME NEW l \in Lines PROVE l.line = "alarm" <=> l = Says("alarm")
    <3>1. CASE l \in [line : Told]
      BY <3>1 DEF Says
    <3>2. CASE l \in [line : {"xpoint"}, input : Streams]
      BY <3>2 DEF Says
    <3> QED BY <3>1, <3>2 DEF Lines
  <2>2. \A k \in DOMAIN s : s[k] \in Lines
    OBVIOUS
  <2> QED BY <2>1, <2>2 DEF Replied
<1>2. {k \in DOMAIN s : s[k].line = "alarm"} = Hits(s, Replied)
  BY <1>1 DEF Hits
<1> QED BY <1>2 DEF Alarms, Count

-----------------------------------------------------------------------------
(* Types and the watchdog, step by step.                                   *)

\* Since the driver began to connect, the seconds left of the timeout, with two of them
\* for every poll that was not counted as answered, outlast the next two polls.
WatchInv ==
  /\ kind = "gvg" => timeout = Stopped
  /\ reconnect => link = "idle"
  /\ link \in {"idle", "refused", "lost"} => toDev = <<>>
  /\ kind = "bt" /\ link \in {"connecting", "up"} =>
       /\ poll \in 0 .. FirstPoll /\ timeout \in 0 .. FirstPoll + Timeout
       /\ UnderWay > 0 => poll <= PollInterval
       /\ missed = 2 \/ timeout + missed + UnderWay >= poll + 2

\* The driver and the core agree on the streams there are and on the connection.
DriverInv ==
  /\ dev \in {"up", "hung", "down"}
  /\ link \in {"idle", "connecting", "refused", "closing", "up", "lost"}
  /\ reconnect \in BOOLEAN
  /\ poll \in 0 .. FirstPoll \cup {Stopped} /\ timeout \in 0 .. Stopped
  /\ connected \in BOOLEAN /\ listed \in BOOLEAN /\ dst \in Streams
  /\ row = connected /\ table \in Streams
  /\ routes \in 0 .. MaxRoutes /\ faults \in 0 .. MaxFaults
  /\ lumped \in BOOLEAN /\ missed \in 0 .. 2 /\ wanted \in Streams

Times == FirstPoll = 5 /\ PollInterval = 1 /\ Timeout = 3 /\ Stopped = 9

LEMMA TimesAre == Times
BY DEF Times, FirstPoll, PollInterval, Timeout, Stopped

\* What is asked and told are lines of the two kinds of sequences.
LEMMA TypesHold ==
  ASSUME TypeInv, DriverInv PROVE TypeOK
<1>1. Questions \cup Commands \subseteq [ask : Ask] \cup [set : Streams \cup Foreign]
  BY DEF Questions, Commands, Asked, Ask
<1>2. Lines \subseteq Line
  BY DEF Lines, Line, Told
<1>3. toDev \in Seq([ask : Ask] \cup [set : Streams \cup Foreign])
  BY <1>1 DEF TypeInv
<1>4. toDrv \in Seq(Line)
  BY <1>2 DEF TypeInv
<1> QED BY <1>3, <1>4 DEF TypeInv, DriverInv, TypeOK

\* What is under way is a number, whatever it is.
LEMMA UnderWayType ==
  ASSUME TypeInv
  PROVE  /\ Count(toDev, Polls) \in Nat /\ Count(toDrv, Replied) \in Nat
         /\ UnderWay = Count(toDev, Polls) + Count(toDrv, Replied) /\ UnderWay \in Nat
BY CountType DEF TypeInv, UnderWay

LEMMA InitDriver ==
  ASSUME Init PROVE DriverInv /\ WatchInv
<1>1. DriverInv
  <2>1. poll \in 0 .. FirstPoll \cup {Stopped} /\ timeout \in 0 .. Stopped
    BY TimesAre DEF Init, Times
  <2>2. listed \in BOOLEAN
    BY DEF Init
  <2>3. dst \in Streams /\ table \in Streams /\ wanted \in Streams
    BY DEF Init, Streams
  <2>4. routes \in 0 .. MaxRoutes /\ faults \in 0 .. MaxFaults
    BY MatrixAssumption DEF Init
  <2>5. /\ dev = "up" /\ link = "idle" /\ reconnect = TRUE
        /\ connected = FALSE /\ row = FALSE /\ lumped = FALSE /\ missed = 0
    BY DEF Init
  <2>6. missed \in 0 .. 2
    BY <2>5
  <2>7. row = connected
    BY <2>5, Zenon
  <2> QED BY <2>1, <2>2, <2>3, <2>4, <2>5, <2>6, <2>7, Zenon DEF DriverInv
<1>2. WatchInv
  BY DEF Init, WatchInv
<1> QED BY <1>1, <1>2

\* The steps that only count, or tell the device something.
LEMMA DriverKeeps ==
  ASSUME TypeInv, DriverInv, Next PROVE DriverInv'
<1> USE DEF device, timers, driver, core, bounds, past
<1>0. Times /\ MaxRoutes \in Nat /\ MaxFaults \in Nat
  BY TimesAre, MatrixAssumption
<1>1. CASE ConnectToHost
  <2>1. poll' \in 0 .. FirstPoll \cup {Stopped} /\ timeout' \in 0 .. Stopped
    BY <1>0, <1>1 DEF ConnectToHost, DriverInv, Times
  <2>2. link' \in {link, "connecting"} /\ reconnect' = FALSE
    BY <1>1 DEF ConnectToHost
  <2> QED BY <1>1, <2>1, <2>2 DEF ConnectToHost, DriverInv, Streams, Input
<1>2. CASE Connected
  BY <1>0, <1>2 DEF Connected, DriverInv, Times, Streams, Input
<1>3. CASE ConnectedClosing \/ Refused
  BY <1>3 DEF ConnectedClosing, Refused, DriverInv, Streams, Input
<1>4. CASE Lose
  BY <1>0, <1>4 DEF Lose, Cut, DriverInv, Streams, Input
<1>5. CASE Disconnected
  BY <1>0, <1>5 DEF Disconnected, DriverInv, Streams, Input
<1>6. CASE Obey
  BY <1>6 DEF Obey, DriverInv, Streams, Input
<1>7. ASSUME NEW x \in Streams, Push(x) PROVE DriverInv'
  BY <1>0, <1>7 DEF Push, DriverInv, Streams, Input
<1>8. ASSUME NEW state \in {"up", "hung", "down"}, Change(state) PROVE DriverInv'
  BY <1>0, <1>8 DEF Change, DriverInv, Streams, Input
<1>9. ASSUME NEW s \in Streams \cup Foreign, Crosspoint(s) PROVE DriverInv'
  <2>1. wanted' \in Streams
    <3>1. wanted' \in Streams \/ wanted' = wanted
      <4>1. (Held(s) /\ wanted' = s) \/ wanted' \in Streams \cup {wanted}
        BY <1>9 DEF Crosspoint
      <4>2. Held(s) => s \in Streams
        BY DEF Held, DriverInv
      <4> QED BY <4>1, <4>2
    <3> QED BY <3>1 DEF DriverInv
  <2>2. routes' \in 0 .. MaxRoutes
    BY <1>0, <1>9 DEF Crosspoint, DriverInv
  <2>3. UNCHANGED <<dev, link, reconnect, poll, timeout, connected, listed, dst, row, table,
                    faults, lumped, missed>>
    BY <1>9 DEF Crosspoint
  <2> QED BY <2>1, <2>2, <2>3 DEF DriverInv, Streams, Input
<1>10. ASSUME NEW n \in 1 .. Len(toDrv), BtRead(n) PROVE DriverInv'
  <2>1. /\ UNCHANGED <<kind, dev, xpoint, link, reconnect, poll, listed, routes, faults>>
        /\ wanted' = wanted /\ kind = "bt"
    BY <1>10 DEF BtRead
  <2>2. Head(toDrv) \in Lines /\ toDrv \in Seq(Lines)
    BY DEF TypeInv
  <2>3. CASE n = 1
    <3>1. BtReads(Head(toDrv)) /\ lumped' = lumped
      BY <1>10, <2>3 DEF BtRead
    <3>2. PICK l \in Lines : l = Head(toDrv)
      BY <2>2
    <3>3. l.line \in {"xpoint", "gpi", "alarm"} /\ (l.line = "xpoint" => l.input \in Streams)
      BY <2>1, <3>2 DEF Lines, Told
    <3>4. CASE l.line = "xpoint"
      <4>1. dst' \in Streams /\ table' \in Streams
            /\ UNCHANGED <<connected, row, timeout, missed>>
        BY <3>1, <3>2, <3>3, <3>4 DEF BtReads, DestinationChanged, DriverInv
      <4> QED BY <2>1, <3>1, <4>1 DEF DriverInv, Streams, Input
    <3>5. CASE l.line = "gpi"
      <4>1. /\ \/ UNCHANGED <<connected, row, table>>
               \/ connected' = TRUE /\ row' = TRUE /\ table' = dst
            /\ UNCHANGED <<dst, timeout, missed>>
        BY <3>1, <3>2, <3>5 DEF BtReads, NodeConnected
      <4>2. CASE UNCHANGED <<connected, row, table>>
        BY <2>1, <3>1, <4>1, <4>2 DEF DriverInv, Streams, Input
      <4>3. CASE connected' = TRUE /\ row' = TRUE /\ table' = dst
        <5>1. table' \in Streams /\ row' = connected' /\ connected' \in BOOLEAN
          BY <4>3 DEF DriverInv
        <5> QED BY <2>1, <3>1, <4>1, <5>1 DEF DriverInv, Streams, Input
      <4> QED BY <4>1, <4>2, <4>3
    <3>6. CASE l.line = "alarm"
      <4>1. /\ timeout' \in {Stopped, Timeout} /\ missed' = 0
            /\ UNCHANGED <<connected, row, dst, table>>
        BY <3>1, <3>2, <3>6 DEF BtReads
      <4> QED BY <1>0, <2>1, <3>1, <4>1 DEF DriverInv, Times, Streams, Input
    <3> QED BY <3>3, <3>4, <3>5, <3>6
  <2>4. CASE n # 1
    <3>1. PICK a \in Nat : a = Alarms(SubSeq(toDrv, 1, n))
      <4>1. SubSeq(toDrv, 1, n) \in Seq(Lines)
        BY <2>2, CountParts
      <4> QED BY <4>1, AlarmsCounted, CountType
    <3>2. /\ lumped' = TRUE /\ missed' = Least(2, missed + a)
          /\ UNCHANGED <<connected, row, dst, table, timeout>>
      BY <1>10, <2>4, <3>1 DEF BtRead
    <3>3. missed' \in 0 .. 2
      BY <3>2 DEF Least, DriverInv
    <3> QED BY <2>1, <3>2, <3>3 DEF DriverInv, Streams, Input
  <2> QED BY <2>3, <2>4
<1>11. CASE GvgRead
  <2>1. PICK l \in Lines : l = Head(toDrv)
    BY <1>11 DEF GvgRead, TypeInv
  <2>2. l.line \in {"names", "time", "xpoint"} /\ (l.line = "xpoint" => l.input \in Streams)
    BY <1>11, <2>1 DEF GvgRead, Lines, Told
  <2>3. /\ UNCHANGED <<dev, link, reconnect, poll, timeout, routes, faults, lumped, missed,
                       wanted>>
        /\ xpoint' = xpoint
    BY <1>11 DEF GvgRead
  <2>4. /\ dst' \in Streams /\ table' \in Streams /\ row' = connected'
        /\ connected' \in BOOLEAN /\ listed' \in BOOLEAN
    <3>1. CASE l.line = "names"
      BY <1>11, <2>1, <3>1 DEF GvgRead, DriverInv
    <3>2. CASE l.line = "time"
      BY <1>11, <2>1, <3>2 DEF GvgRead, NodeConnected, DriverInv
    <3>3. CASE l.line = "xpoint"
      BY <1>11, <2>1, <2>2, <3>3 DEF GvgRead, DestinationChanged, DriverInv
    <3> QED BY <2>2, <3>1, <3>2, <3>3
  <2> QED BY <2>3, <2>4 DEF DriverInv, Streams, Input
<1>12. CASE Poll
  BY <1>0, <1>12 DEF Poll, NextPoll, DriverInv, Times, Streams, Input
<1>13. CASE WatchdogTimeout
  <2>1. link' \in {link, "lost", "closing"}
    <3>1. CASE link = "up"
      BY <1>13, <3>1 DEF WatchdogTimeout, Cut
    <3>2. CASE link = "connecting"
      BY <1>13, <3>2 DEF WatchdogTimeout
    <3>3. CASE link \notin {"up", "connecting"}
      BY <1>13, <3>3 DEF WatchdogTimeout
    <3> QED BY <3>1, <3>2, <3>3
  <2> QED BY <1>0, <1>13, <2>1 DEF WatchdogTimeout, DriverInv, Times, Streams, Input
<1>14. CASE Tick
  <2>1. poll' \in 0 .. FirstPoll \cup {Stopped} /\ timeout' \in 0 .. Stopped
    BY <1>0, <1>14 DEF Tick, Less, DriverInv, Times
  <2> QED BY <1>14, <2>1 DEF Tick, DriverInv, Streams, Input
<1> QED BY <1>1, <1>2, <1>3, <1>4, <1>5, <1>6, <1>7, <1>8, <1>9, <1>10, <1>11, <1>12, <1>13,
           <1>14 DEF Next

\* No line that the device answers otherwise is a poll, and no answer to it an alarm.
LEMMA OnlyPollsAlarm ==
  ASSUME NEW q \in Asked, q # "poll"
  PROVE  Question(q) \notin Polls /\ Answer(q) \notin Replied
<1>1. Question(q) # Question("poll")
  <2>1. Question(q).ask = q /\ Question("poll").ask = "poll"
    BY DEF Question
  <2> QED BY <2>1
<1>2. Answer(q).line # "alarm"
  BY DEF Answer, Asked, Says, Selected
<1>3. Says("alarm").line = "alarm"
  BY DEF Says
<1> QED BY <1>1, <1>2, <1>3 DEF Polls, Replied

\* Asking the device for something else than an alarm counts for nothing; a poll counts
\* one, if the socket is open.
LEMMA WrittenCounts ==
  ASSUME TypeInv, NEW q \in Asked
  PROVE  LET after == Write(<< Question(q) >>) IN
         Count(after, Polls) = Count(toDev, Polls)
           + IF q = "poll" /\ link \in {"connecting", "up"} THEN 1 ELSE 0
<1>1. toDev \in Seq(Questions \cup Commands)
  BY DEF TypeInv
<1>2. Count(toDev, Polls) \in Nat
  BY <1>1, CountType
<1>3. Question(q) \in Questions \cup Commands
  BY DEF Question, Questions
<1>4. << Question(q) >> \in Seq(Questions \cup Commands)
  BY <1>3
<1>5. Question(q) \in Polls <=> q = "poll"
  BY OnlyPollsAlarm DEF Polls
<1>6. Count(<< Question(q) >>, Polls) = IF q = "poll" THEN 1 ELSE 0
  BY <1>5, CountOne
<1>7. Count(toDev \o << Question(q) >>, Polls)
        = Count(toDev, Polls) + Count(<< Question(q) >>, Polls)
  BY <1>1, <1>4, CountJoin
<1>8. CASE link \in {"connecting", "up"}
  BY <1>2, <1>6, <1>7, <1>8 DEF Write
<1>9. CASE link \notin {"connecting", "up"}
  BY <1>2, <1>9 DEF Write
<1> QED BY <1>8, <1>9

\* A command is no poll.
LEMMA CommandCounts ==
  ASSUME TypeInv, NEW s \in Streams \cup Foreign
  PROVE  Count(Write(<< [set |-> s] >>), Polls) = Count(toDev, Polls)
<1>1. toDev \in Seq(Questions \cup Commands)
  BY DEF TypeInv
<1>2. PICK c : c = [set |-> s]
  OBVIOUS
<1>3. c \in Questions \cup Commands
  BY <1>2 DEF Commands
<1>4. c \notin Polls
  <2>1. DOMAIN [set |-> s] = {"set"} /\ DOMAIN [ask |-> "poll"] = {"ask"}
    BY Zenon
  <2> QED BY <1>2, <2>1 DEF Polls, Question
<1>5. << c >> \in Seq(Questions \cup Commands)
  BY <1>3
<1>6. Count(toDev \o << c >>, Polls) = Count(toDev, Polls) + Count(<< c >>, Polls)
  BY <1>1, <1>5, CountJoin
<1>7. Count(<< c >>, Polls) = 0 /\ Count(toDev, Polls) \in Nat
  BY <1>1, <1>4, CountOne, CountType
<1>8. Count(toDev \o << c >>, Polls) = Count(toDev, Polls)
  BY <1>6, <1>7
<1> QED BY <1>2, <1>8, Zenon DEF Write

\* What the device says of itself is no alarm.
LEMMA SelectedCounts ==
  ASSUME TypeInv, NEW x \in Streams, Select(x)
  PROVE  Count(toDrv', Replied) = Count(toDrv, Replied)
<1>1. toDrv \in Seq(Lines) /\ Count(toDrv, Replied) \in Nat
  BY CountType DEF TypeInv
<1>2. PICK l : l = Selected(x)
  OBVIOUS
<1>3. l \in Lines /\ l \notin Replied
  <2>1. l.line = "xpoint" /\ Says("alarm").line = "alarm"
    BY <1>2 DEF Selected, Says
  <2> QED BY <1>2, <2>1 DEF Selected, Lines, Replied
<1>4. toDrv' \in {toDrv, toDrv \o << l >>, toDrv \o <<>>}
  BY <1>2 DEF Select, Tell
<1>5. << l >> \in Seq(Lines) /\ <<>> \in Seq(Lines)
  BY <1>3
<1>6. Count(toDrv \o << l >>, Replied) = Count(toDrv, Replied) + Count(<< l >>, Replied)
  BY <1>1, <1>5, CountJoin
<1>7. Count(toDrv \o <<>>, Replied) = Count(toDrv, Replied) + Count(<<>>, Replied)
  BY <1>1, <1>5, CountJoin
<1>8. Count(<< l >>, Replied) = 0 /\ Count(<<>>, Replied) = 0
  BY <1>3, CountOne, CountNone
<1>9. /\ Count(toDrv \o << l >>, Replied) = Count(toDrv, Replied)
      /\ Count(toDrv \o <<>>, Replied) = Count(toDrv, Replied)
  BY <1>1, <1>6, <1>7, <1>8
<1> QED BY <1>4, <1>9, Zenon

\* The device answers a poll with an alarm.
LEMMA ObeyCounts ==
  ASSUME TypeInv, kind = "bt", Obey
  PROVE  UnderWay' = UnderWay
<1>1. toDev \in Seq(Questions \cup Commands) /\ toDrv \in Seq(Lines)
  BY DEF TypeInv
<1>2. PICK a \in Nat, b \in Nat, d \in Nat :
        a = Count(toDev, Polls) /\ b = Count(toDrv, Replied) /\ d = Count(Tail(toDev), Polls)
  <2>1. Tail(toDev) \in Seq(Questions \cup Commands)
    BY <1>1 DEF Obey
  <2> QED BY <1>1, <2>1, CountType
<1>3. PICK c : c = Head(toDev)
  OBVIOUS
<1>4. c \in Questions \cup Commands /\ toDev # <<>> /\ toDev' = Tail(toDev) /\ link = "up"
  BY <1>1, <1>3 DEF Obey
<1>5. a = d + IF c \in Polls THEN 1 ELSE 0
  BY <1>1, <1>2, <1>3, <1>4, CountHead
<1>6. CASE c \in Commands
  <2>1. PICK s \in Streams \cup Foreign : c = [set |-> s]
    BY <1>6 DEF Commands
  <2>2. "set" \in DOMAIN c /\ "ask" \notin DOMAIN c /\ c.set = s
    BY <2>1
  <2>3. c \notin Polls
    <3>1. DOMAIN [ask |-> "poll"] = {"ask"}
      BY Zenon
    <3> QED BY <2>2, <3>1 DEF Polls, Question
  <2>4. Count(toDrv', Replied) = b
    <3>1. CASE s \in Streams
      <4>1. Select(s)
        BY <1>3, <2>2, <3>1 DEF Obey
      <4> QED BY <1>2, <3>1, <4>1, SelectedCounts
    <3>2. CASE s \notin Streams
      <4>1. toDrv' = toDrv \o <<>>
        BY <1>3, <1>4, <2>2, <3>2 DEF Obey, Tell
      <4>2. toDrv \o <<>> = toDrv
        BY <1>1, ConcatEmptySeq
      <4> QED BY <1>2, <4>1, <4>2, Zenon
    <3> QED BY <3>1, <3>2
  <2>5. Count(toDev', Polls) = d /\ a = d
    BY <1>2, <1>4, <1>5, <2>3
  <2> QED BY <1>2, <2>4, <2>5, Zenon DEF UnderWay
<1>7. CASE c \in Questions
  <2>1. PICK q \in Asked : c = Question(q)
    BY <1>7 DEF Questions, Question
  <2>2. "set" \notin DOMAIN c /\ "ask" \in DOMAIN c /\ c.ask = q
    BY <2>1 DEF Question
  <2>3. PICK l : l = Answer(q)
    OBVIOUS
  <2>4. toDrv' = toDrv \o << l >>
    BY <1>3, <1>4, <2>2, <2>3 DEF Obey, Tell
  <2>5. l \in Lines /\ (l \in Replied <=> q = "poll")
    <3>1. l \in Lines
      BY <2>3 DEF Answer, Asked, Lines, Told, Says, Selected, TypeInv
    <3>2. q = "poll" => l = Says("alarm")
      BY <2>3 DEF Answer
    <3>3. q # "poll" => l \notin Replied
      BY <2>3, OnlyPollsAlarm
    <3> QED BY <3>1, <3>2, <3>3 DEF Replied
  <2>6. c \in Polls <=> q = "poll"
    BY <2>1, OnlyPollsAlarm DEF Polls
  <2>7. Count(toDrv \o << l >>, Replied) = b + Count(<< l >>, Replied)
    <3>1. << l >> \in Seq(Lines)
      BY <2>5
    <3> QED BY <1>1, <1>2, <3>1, CountJoin
  <2>8. Count(<< l >>, Replied) = IF q = "poll" THEN 1 ELSE 0
    BY <2>5, CountOne
  <2>9. Count(toDrv', Replied) = b + IF q = "poll" THEN 1 ELSE 0
    BY <2>4, <2>7, <2>8, Zenon
  <2>10. Count(toDev', Polls) = d /\ a = d + IF q = "poll" THEN 1 ELSE 0
    BY <1>2, <1>4, <1>5, <2>6
  <2>11. PICK e : e = Count(toDrv', Replied)
    OBVIOUS
  <2>12. d + e = a + b
    <3>1. e = b + IF q = "poll" THEN 1 ELSE 0
      BY <2>9, <2>11, Zenon
    <3> QED BY <2>10, <3>1
  <2> QED BY <1>2, <2>10, <2>11, <2>12, Zenon DEF UnderWay
<1> QED BY <1>4, <1>6, <1>7

\* The driver begins to connect with its whole time, and with nothing under way.
LEMMA ConnectWatch ==
  ASSUME TypeInv, Unplugged, DriverInv, WatchInv, ConnectToHost PROVE WatchInv'
<1> USE DEF device, timers, driver, core, bounds, past
<1>1. /\ reconnect' = FALSE /\ link = "idle" /\ link' = "connecting"
      /\ toDev = <<>> /\ toDrv = <<>>
      /\ UNCHANGED <<kind, toDev, toDrv, missed>>
  BY DEF ConnectToHost, WatchInv, Unplugged
<1>2. UnderWay' = 0
  <2>1. toDev' = <<>> /\ toDrv' = <<>>
    BY <1>1
  <2>2. Count(toDev', Polls) = 0 /\ Count(toDrv', Replied) = 0
    BY <2>1, CountNone
  <2> QED BY <2>2 DEF UnderWay
<1>3. CASE kind = "bt"
  <2>1. poll' = 5 /\ timeout' = 8
    BY <1>3, TimesAre DEF ConnectToHost, Times
  <2>2. PICK m \in 0 .. 2 : m = missed
    BY DEF DriverInv
  <2>3. PICK u, p, t : u = UnderWay' /\ p = poll' /\ t = timeout'
    OBVIOUS
  <2>4. u = 0 /\ p = 5 /\ t = 8 /\ missed' = m
    BY <1>1, <1>2, <2>1, <2>2, <2>3, Zenon
  <2>5. m = 2 \/ t + m + u >= p + 2
    BY <2>2, <2>4
  <2>6. missed' = 2 \/ timeout' + missed' + UnderWay' >= poll' + 2
    BY <2>3, <2>4, <2>5, Zenon
  <2>7. /\ poll' \in 0 .. FirstPoll /\ timeout' \in 0 .. FirstPoll + Timeout
        /\ UnderWay' > 0 => poll' <= PollInterval
    BY <1>2, <2>1, TimesAre DEF Times
  <2>8. kind' = "bt" /\ link' = "connecting" /\ reconnect' = FALSE
    BY <1>1, <1>3
  <2> QED BY <2>6, <2>7, <2>8 DEF WatchInv
<1>4. CASE kind # "bt"
  BY <1>1, <1>4 DEF ConnectToHost, WatchInv
<1> QED BY <1>3, <1>4

\* A step on which no poll is made, answered or forgotten.
LEMMA SameWatch ==
  ASSUME WatchInv, UNCHANGED <<kind, link, reconnect, poll, timeout, missed>>,
         link \in {"idle", "refused", "lost"} => toDev' = toDev,
         kind = "bt" => UnderWay' = UnderWay
  PROVE  WatchInv'
BY DEF WatchInv

\* A step after which there is no connection, and nothing on its way.
LEMMA NoWatch ==
  ASSUME WatchInv, UNCHANGED kind, kind = "gvg" => timeout' = timeout,
         link' \notin {"connecting", "up"},
         link' = "closing" \/ toDev' = <<>>,
         reconnect' => link' = "idle"
  PROVE  WatchInv'
BY DEF WatchInv

\* The steps of the connection.
LEMMA LinkWatch ==
  ASSUME TypeInv, DriverInv, WatchInv,
         Connected \/ ConnectedClosing \/ Refused \/ Lose \/ Disconnected
  PROVE  WatchInv'
<1> USE DEF device, timers, driver, core, bounds, past
<1>1. CASE Connected
  <2>1. /\ link = "connecting" /\ link' = "up" /\ toDev' = toDev \o Greeting
        /\ UNCHANGED <<kind, toDrv, reconnect, timeout, missed>>
        /\ (kind = "bt" => poll' = poll)
    BY <1>1 DEF Connected
  <2>2. CASE kind = "bt"
    <3>1. Greeting = << Question("list") >> /\ "list" \in Asked
      BY <2>2 DEF Greeting, Asked
    <3>2. toDev' = Write(<< Question("list") >>)
      BY <2>1, <3>1 DEF Write
    <3>3. Count(Write(<< Question("list") >>), Polls)
            = Count(toDev, Polls)
                + IF "list" = "poll" /\ link \in {"connecting", "up"} THEN 1 ELSE 0
      BY <3>1, WrittenCounts
    <3>4. Count(toDev, Polls) \in Nat
      BY UnderWayType
    <3>5. Count(Write(<< Question("list") >>), Polls) = Count(toDev, Polls)
      BY <3>3, <3>4
    <3>6. UnderWay' = UnderWay
      BY <2>1, <3>2, <3>5, Zenon DEF UnderWay
    <3> QED BY <2>1, <2>2, <3>6 DEF WatchInv
  <2>3. CASE kind # "bt"
    BY <2>1, <2>3 DEF WatchInv
  <2> QED BY <2>2, <2>3
<1>2. CASE ConnectedClosing \/ Refused
  <2>1. /\ link \in {"closing", "connecting"} /\ link' \in {"lost", "refused"}
        /\ toDev' = <<>> /\ UNCHANGED <<kind, reconnect, timeout>>
    BY <1>2 DEF ConnectedClosing, Refused, Drop
  <2>2. ~reconnect'
    BY <2>1 DEF WatchInv
  <2> QED BY <2>1, <2>2, NoWatch
<1>3. CASE Lose
  <2>1. link = "up" /\ link' = "lost" /\ toDev' = <<>> /\ UNCHANGED <<kind, reconnect, timeout>>
    BY <1>3 DEF Lose, Cut, Drop
  <2>2. ~reconnect'
    BY <2>1 DEF WatchInv
  <2> QED BY <2>1, <2>2, NoWatch
<1>4. CASE Disconnected
  <2>1. link = "lost" /\ link' = "idle" /\ UNCHANGED <<kind, toDev, timeout>>
    BY <1>4 DEF Disconnected
  <2>2. toDev' = <<>>
    BY <2>1 DEF WatchInv
  <2> QED BY <2>1, <2>2, NoWatch
<1> QED BY <1>1, <1>2, <1>3, <1>4

\* The first element of a sequence, cut from it.
LEMMA FirstOnly ==
  ASSUME NEW S, NEW s \in Seq(S), s # <<>>
  PROVE  SubSeq(s, 1, 1) = << Head(s) >>
<1>1. 1 \in 1 .. Len(s) /\ Head(s) = s[1]
  OBVIOUS
<1>2. SubSeq(s, 1, 1) \in Seq(S) /\ Len(SubSeq(s, 1, 1)) = 1
  BY <1>1, SubSeqProperties
<1>3. SubSeq(s, 1, 1)[1] = s[1]
  BY <1>1, SubSeqProperties
<1>4. PICK t \in Seq(S) : t = SubSeq(s, 1, 1)
  BY <1>2
<1>5. Len(t) = 1 /\ t[1] = Head(s)
  BY <1>1, <1>2, <1>3, <1>4
<1>6. t = << Head(s) >>
  BY <1>5
<1> QED BY <1>4, <1>6

\* The driver's reading: an answer it takes gives it three seconds, of which the next poll
\* needs one, and those it drops are counted.
LEMMA ReadWatch ==
  ASSUME TypeInv, Unplugged, DriverInv, WatchInv, NEW n \in 1 .. Len(toDrv), BtRead(n)
  PROVE  WatchInv'
<1> USE DEF device, timers, driver, core, bounds, past
<1>1. /\ kind = "bt" /\ toDrv' = SubSeq(toDrv, n + 1, Len(toDrv))
      /\ UNCHANGED <<kind, link, reconnect, poll>>
  BY DEF BtRead
<1>2. toDrv \in Seq(Lines) /\ toDrv # <<>> /\ link = "up" /\ Len(toDrv) \in Nat
  BY DEF TypeInv, Unplugged
<1>3. PICK a : a = SubSeq(toDrv, 1, n)
  OBVIOUS
<1>4. a \in Seq(Lines) /\ toDrv' \in Seq(Lines)
      /\ Count(toDrv, Replied) = Count(a, Replied) + Count(toDrv', Replied)
  BY <1>1, <1>2, <1>3, CountParts
<1>5. PICK d \in Nat, r \in Nat, x \in Nat, y \in Nat :
        /\ d = Count(toDev, Polls) /\ r = Count(toDrv, Replied)
        /\ x = Count(a, Replied) /\ y = Count(toDrv', Replied)
  <2>1. /\ Count(toDev, Polls) \in Nat /\ Count(toDrv, Replied) \in Nat
        /\ Count(a, Replied) \in Nat /\ Count(toDrv', Replied) \in Nat
    BY <1>4, UnderWayType, CountType
  <2> QED BY <2>1
<1>6. r = x + y /\ UnderWay = d + r
  BY <1>4, <1>5, Zenon DEF UnderWay
<1>7. /\ poll \in 0 .. 5 /\ timeout \in 0 .. 8 /\ missed \in 0 .. 2
      /\ UnderWay > 0 => poll <= 1
      /\ missed = 2 \/ timeout + missed + UnderWay >= poll + 2
      /\ ~reconnect
  BY <1>1, <1>2, TimesAre DEF WatchInv, DriverInv, Times
<1>8. SUFFICES /\ timeout' \in 0 .. 8
               /\ UnderWay' > 0 => poll <= 1
               /\ missed' = 2 \/ timeout' + missed' + UnderWay' >= poll + 2
  <2>1. link' = "up" /\ ~reconnect' /\ kind' = "bt" /\ poll' = poll
    BY <1>1, <1>2, <1>7
  <2> QED BY <1>7, <2>1, TimesAre DEF WatchInv, Times
<1>9. CASE n = 1
  <2>1. PICK l \in Lines : l = Head(toDrv)
    BY <1>2
  <2>2. BtReads(l)
    BY <1>9, <2>1 DEF BtRead
  <2>3. a = << l >>
    <3>1. SubSeq(toDrv, 1, 1) = << Head(toDrv) >>
      BY <1>2, FirstOnly
    <3> QED BY <1>3, <1>9, <2>1, <3>1, Zenon
  <2>4. l.line \in {"xpoint", "gpi", "alarm"}
    BY <1>1 DEF Lines, Told
  <2>5. l.line = "alarm" <=> l = Says("alarm")
    <3>1. CASE l \in [line : Told]
      BY <3>1 DEF Says
    <3>2. CASE l \in [line : {"xpoint"}, input : Streams]
      BY <3>2 DEF Says
    <3> QED BY <3>1, <3>2 DEF Lines
  <2>6. x = IF l = Says("alarm") THEN 1 ELSE 0
    BY <1>5, <2>3, CountOne DEF Replied
  <2>7. Count(toDev', Polls) = d
    <3>1. toDev' \in {toDev, Write(<< Question("gpi") >>)}
      BY <2>2, <2>4 DEF BtReads
    <3>2. "gpi" \in Asked
      BY <1>1 DEF Asked
    <3>3. Count(Write(<< Question("gpi") >>), Polls)
            = Count(toDev, Polls)
                + IF "gpi" = "poll" /\ link \in {"connecting", "up"} THEN 1 ELSE 0
      BY <3>2, WrittenCounts
    <3>4. Count(Write(<< Question("gpi") >>), Polls) = d
      BY <1>5, <3>3
    <3> QED BY <1>5, <3>1, <3>4, Zenon
  <2>8. UnderWay' = d + y
    BY <1>5, <2>7, Zenon DEF UnderWay
  <2>9. CASE l.line = "alarm"
    <3>1. timeout' = 3 /\ missed' = 0
      BY <1>7, <2>2, <2>9, TimesAre DEF BtReads, Times
    <3>2. poll <= 1
      BY <1>6, <1>7, <2>5, <2>6, <2>9
    <3> QED BY <1>7, <2>8, <3>1, <3>2
  <2>10. CASE l.line # "alarm"
    <3>1. timeout' = timeout /\ missed' = missed
      BY <2>2, <2>4, <2>10 DEF BtReads
    <3>2. y = r /\ UnderWay' = UnderWay
      BY <1>6, <2>5, <2>6, <2>8, <2>10
    <3> QED BY <1>7, <3>1, <3>2
  <2> QED BY <2>9, <2>10
<1>10. CASE n # 1
  <2>1. timeout' = timeout /\ missed' = Least(2, missed + Alarms(a)) /\ toDev' = toDev
    BY <1>3, <1>10 DEF BtRead
  <2>2. Alarms(a) = x
    BY <1>4, <1>5, AlarmsCounted
  <2>3. UnderWay' = d + y
    BY <1>5, <2>1, Zenon DEF UnderWay
  <2>4. missed' = IF 2 < missed + x THEN 2 ELSE missed + x
    BY <2>1, <2>2 DEF Least
  <2>5. CASE missed = 2
    BY <1>6, <1>7, <2>1, <2>3, <2>4, <2>5
  <2>6. CASE missed # 2
    BY <1>6, <1>7, <2>1, <2>3, <2>4, <2>6
  <2> QED BY <2>5, <2>6
<1> QED BY <1>9, <1>10

\* The other steps of the device and the driver.
LEMMA WatchKeeps ==
  ASSUME TypeInv, Unplugged, DriverInv, WatchInv, [Next]_vars
  PROVE  WatchInv'
<1> USE DEF device, timers, driver, core, bounds, past
<1>1. CASE Obey
  <2>1. link = "up" /\ UNCHANGED <<kind, link, reconnect, poll, timeout, missed>>
    BY <1>1 DEF Obey
  <2>2. kind = "bt" => UnderWay' = UnderWay
    BY <1>1, ObeyCounts
  <2> QED BY <2>1, <2>2, SameWatch
<1>2. ASSUME NEW x \in Streams, Push(x) PROVE WatchInv'
  <2>1. Select(x) /\ UNCHANGED <<kind, link, toDev, reconnect, poll, timeout, missed>>
    BY <1>2 DEF Push
  <2>2. Count(toDrv', Replied) = Count(toDrv, Replied)
    BY <2>1, SelectedCounts
  <2>3. UnderWay' = UnderWay
    BY <2>1, <2>2, Zenon DEF UnderWay
  <2> QED BY <2>1, <2>3, SameWatch
<1>3. ASSUME NEW state \in {"up", "hung", "down"}, Change(state) PROVE WatchInv'
  <2>1. UNCHANGED <<kind, link, toDev, toDrv, reconnect, poll, timeout, missed>>
    BY <1>3 DEF Change
  <2> QED BY <2>1, SameWatch DEF UnderWay
<1>4. ASSUME NEW s \in Streams \cup Foreign, Crosspoint(s) PROVE WatchInv'
  <2>1. UNCHANGED <<kind, link, toDrv, reconnect, poll, timeout, missed>>
    BY <1>4 DEF Crosspoint
  <2>2. toDev' = toDev \/ \E low \in Streams \cup Foreign : toDev' = Write(<< [set |-> low] >>)
    BY <1>4, NumbersAre DEF Crosspoint, Number
  <2>3. Count(toDev', Polls) = Count(toDev, Polls)
    <3>1. CASE toDev' = toDev
      BY <3>1, Zenon
    <3>2. CASE \E low \in Streams \cup Foreign : toDev' = Write(<< [set |-> low] >>)
      <4>1. PICK low \in Streams \cup Foreign : toDev' = Write(<< [set |-> low] >>)
        BY <3>2
      <4>2. Count(Write(<< [set |-> low] >>), Polls) = Count(toDev, Polls)
        BY CommandCounts
      <4> QED BY <4>1, <4>2, Zenon
    <3> QED BY <2>2, <3>1, <3>2
  <2>4. UnderWay' = UnderWay
    BY <2>1, <2>3, Zenon DEF UnderWay
  <2>5. link \in {"idle", "refused", "lost"} => toDev' = toDev
    BY <2>2 DEF Write
  <2> QED BY <2>1, <2>4, <2>5, SameWatch
<1>5. CASE GvgRead
  <2>1. kind = "gvg" /\ UNCHANGED <<kind, link, toDev, reconnect, poll, timeout, missed>>
    BY <1>5 DEF GvgRead
  <2> QED BY <2>1, SameWatch
<1>6. CASE Poll
  <2>1. /\ poll = 0 /\ poll' = 1 /\ UNCHANGED <<kind, link, toDrv, reconnect, timeout, missed>>
    BY <1>6, TimesAre DEF Poll, NextPoll, Times
  <2>2. link \in {"idle", "refused", "lost"} => toDev' = toDev
    BY <1>6 DEF Poll, Write
  <2>3. CASE kind = "bt"
    <3>1. toDev' = Write(<< Question("poll") >>) /\ "poll" \in Asked
      BY <1>6, <2>3 DEF Poll, Asked
    <3>2. PICK d \in Nat, r \in Nat : d = Count(toDev, Polls) /\ r = Count(toDrv, Replied)
      BY UnderWayType
    <3>3. link \in {"connecting", "up"} => Count(toDev', Polls) = d + 1
      BY <3>1, <3>2, WrittenCounts
    <3>4. UnderWay = d + r
      BY <3>2, Zenon DEF UnderWay
    <3>5. link \in {"connecting", "up"} => UnderWay' = d + 1 + r
      BY <2>1, <3>2, <3>3, Zenon DEF UnderWay
    <3>6. CASE link \in {"connecting", "up"}
      <4>1. missed \in 0 .. 2 /\ timeout \in 0 .. 8
        BY <2>3, <3>6, TimesAre DEF DriverInv, WatchInv, Times
      <4>2. missed = 2 \/ timeout + missed + UnderWay >= 2
        BY <2>1, <2>3, <3>6 DEF WatchInv
      <4>3. missed' = 2 \/ timeout' + missed' + UnderWay' >= poll' + 2
        BY <2>1, <3>4, <3>5, <3>6, <4>1, <4>2
      <4>4. poll' \in 0 .. FirstPoll /\ poll' <= PollInterval
        BY <2>1, TimesAre DEF Times
      <4> QED BY <2>1, <2>3, <3>6, <4>3, <4>4 DEF WatchInv
    <3>7. CASE link \notin {"connecting", "up"}
      BY <2>1, <2>2, <2>3, <3>7 DEF WatchInv
    <3> QED BY <3>6, <3>7
  <2>4. CASE kind # "bt"
    BY <2>1, <2>2, <2>4 DEF WatchInv
  <2> QED BY <2>3, <2>4
<1>7. CASE WatchdogTimeout
  <2>1. timeout = 0 /\ UNCHANGED <<kind, reconnect>>
    BY <1>7 DEF WatchdogTimeout
  <2>2. kind = "bt"
    BY <2>1, TimesAre DEF WatchInv, TypeInv, Times
  <2>3. CASE link = "up"
    <3>1. link' = "lost" /\ toDev' = <<>> /\ ~reconnect'
      BY <1>7, <2>1, <2>3 DEF WatchdogTimeout, Cut, Drop, WatchInv
    <3> QED BY <2>1, <2>2, <3>1, NoWatch
  <2>4. CASE link = "connecting"
    <3>1. link' = "closing" /\ ~reconnect'
      BY <1>7, <2>1, <2>4 DEF WatchdogTimeout, WatchInv
    <3> QED BY <2>1, <2>2, <3>1, NoWatch
  <2>5. CASE link \notin {"up", "connecting"}
    <3>1. UNCHANGED <<link, toDev>>
      BY <1>7, <2>5 DEF WatchdogTimeout
    <3> QED BY <2>1, <2>2, <2>5, <3>1 DEF WatchInv
  <2> QED BY <2>3, <2>4, <2>5
<1>8. CASE Tick
  <2>1. /\ poll # 0 /\ timeout # 0
        /\ poll' = Less(poll) /\ timeout' = Less(timeout)
        /\ UNCHANGED <<kind, link, toDev, toDrv, reconnect, missed>>
    BY <1>8 DEF Tick
  <2>2. UnderWay' = UnderWay
    BY <2>1, Zenon DEF UnderWay
  <2>3. CASE kind = "bt" /\ link \in {"connecting", "up"}
    <3>1. poll \in 0 .. 5 /\ timeout \in 0 .. 8 /\ missed \in 0 .. 2 /\ UnderWay \in Nat
      BY <2>3, UnderWayType, TimesAre DEF WatchInv, DriverInv, Times
    <3>2. poll' = poll - 1 /\ timeout' = timeout - 1
      BY <2>1, <3>1, TimesAre DEF Less, Times
    <3>3. /\ UnderWay > 0 => poll <= 1
          /\ missed = 2 \/ timeout + missed + UnderWay >= poll + 2
      BY <2>3, TimesAre DEF WatchInv, Times
    <3>4. /\ poll' \in 0 .. 5 /\ timeout' \in 0 .. 8
          /\ UnderWay' > 0 => poll' <= 1
          /\ missed' = 2 \/ timeout' + missed' + UnderWay' >= poll' + 2
      BY <2>1, <2>2, <3>1, <3>2, <3>3
    <3> QED BY <2>1, <2>3, <3>4, TimesAre DEF WatchInv, Times
  <2>4. CASE ~(kind = "bt" /\ link \in {"connecting", "up"})
    <3>1. timeout = Stopped => timeout' = Stopped
      BY <2>1 DEF Less
    <3> QED BY <2>1, <2>4, <3>1 DEF WatchInv
  <2> QED BY <2>3, <2>4
<1>9. CASE UNCHANGED vars
  <2>1. UNCHANGED <<kind, link, toDev, toDrv, reconnect, poll, timeout, missed>>
    BY <1>9 DEF vars
  <2> QED BY <2>1, SameWatch DEF UnderWay
<1> QED BY <1>1, <1>2, <1>3, <1>4, <1>5, <1>6, <1>7, <1>8, <1>9, ConnectWatch, LinkWatch,
           ReadWatch DEF Next

-----------------------------------------------------------------------------
(* The theorems.                                                           *)

LEMMA Invariant == Spec => []IInv
<1>1. IInv /\ [Next]_vars => IInv'
  BY NextKeeps
<1> QED BY <1>1, InitInv, PTL DEF Spec

\* The invariant of the driver, on top of that of the route.
LEMMA Watched == Spec => [](IInv /\ DriverInv /\ WatchInv)
<1>1. Init => DriverInv /\ WatchInv
  BY InitDriver
<1>2. IInv /\ DriverInv /\ WatchInv /\ [Next]_vars => DriverInv' /\ WatchInv'
  <2> SUFFICES ASSUME IInv, DriverInv, WatchInv, [Next]_vars PROVE DriverInv' /\ WatchInv'
    OBVIOUS
  <2>1. WatchInv'
    BY WatchKeeps DEF IInv
  <2>2. DriverInv'
    <3>1. CASE Next
      BY <3>1, DriverKeeps DEF IInv
    <3>2. CASE UNCHANGED vars
      BY <3>2 DEF vars, device, timers, driver, core, bounds, past, DriverInv, Streams, Input
    <3> QED BY <3>1, <3>2
  <2> QED BY <2>1, <2>2
<1> QED BY <1>1, <1>2, Invariant, PTL DEF Spec

\* Every variable has its type, and the core has the rows of a device exactly while the
\* driver says that it is connected (nodeConnectedData, disconnectedData).
THEOREM TypeCorrect == Spec => []TypeOK
<1>1. IInv /\ DriverInv => TypeOK
  BY TypesHold DEF IInv
<1> QED BY <1>1, Watched, PTL

\* The watchdog does not close the connection to a device whose answers are read, unless
\* the driver dropped the last two (Watchdog::timeoutData, readyReadData).
THEOREM AlarmIsTrue == Spec => NoFalseAlarm
<1>1. IInv /\ DriverInv /\ WatchInv =>
        (WatchdogTimeout /\ link = "up" /\ dev = "up" /\ AtRest => missed = 2)
  <2> SUFFICES ASSUME IInv, DriverInv, WatchInv, WatchdogTimeout, link = "up", AtRest
               PROVE  missed = 2
    OBVIOUS
  <2>1. timeout = 0 /\ toDev = <<>> /\ toDrv = <<>>
    BY DEF WatchdogTimeout, AtRest
  <2>2. UnderWay = 0
    BY <2>1, CountNone DEF UnderWay
  <2>3. kind = "bt"
    BY <2>1, TimesAre DEF WatchInv, IInv, TypeInv, Times
  <2>4. missed = 2 \/ 0 + missed + 0 >= poll + 2
    BY <2>1, <2>2, <2>3 DEF WatchInv
  <2>5. poll \in 0 .. FirstPoll /\ missed \in 0 .. 2
    BY <2>3 DEF WatchInv, DriverInv
  <2> QED BY <2>4, <2>5, TimesAre DEF Times
<1> QED BY <1>1, Watched, PTL DEF NoFalseAlarm

\* The route last asked for, by the core or at the device, whether it was connected or
\* connecting then, is the one the device has when nothing is under way, unless its
\* command was lost or overtaken or the driver saw no need for one (setDstAddress,
\* disconnectedData; LastRouteHolds says it exactly).
THEOREM RouteHolds == Spec => []LastRouteHolds
<1>1. IInv => LastRouteHolds
  <2> SUFFICES ASSUME IInv, AtRest, settled PROVE xpoint = wanted
    BY DEF LastRouteHolds
  <2>1. Len(toDev) = 0
    BY DEF AtRest
  <2> QED BY <2>1 DEF IInv, OnItsWay
<1> QED BY <1>1, Invariant, PTL

=============================================================================
