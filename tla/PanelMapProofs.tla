---------------------------- MODULE PanelMapProofs ----------------------------
(***************************************************************************)
(* Two programs that number what others name, and must not lose count.     *)
(*                                                                         *)
(* Panel: every kind of panel sends the route a person meant, and shows    *)
(* the route that is set, for any numbers of inputs and outputs, and       *)
(* however often routes change, inputs appear and connections are lost.    *)
(*                                                                         *)
(* EndPointMap: a file that dmap has finished reads as the map dmap made,  *)
(* the core's rows are the endpoints of the connected nodes, and a         *)
(* snapshot reaches the endpoints with its numbers, for any files, nodes   *)
(* and slots, and wherever dmap, the core or the other process ends.       *)
(***************************************************************************)
EXTENDS Panel, EndPointMap, TLAPS, FiniteSetTheorems, FunctionTheorems,
        WellFoundedInduction

\* The widgets are a record with a flag for an armed choice.
Fields == {"out", "box", "cur", "known", "armed", "usable", "rows", "marks"}

IsPanel(p) == DOMAIN p = Fields /\ p.armed \in BOOLEAN

\* What is enumerated has no gaps.
IsList(s) == \E n \in Nat : DOMAIN s = 1 .. n /\ Len(s) = n

\* An armed choice that has not lapsed is the item the person chose, for the output that
\* was selected then.
Chosen(p, w, l) == p.armed /\ ~l => p.cur # 0 /\ w = <<p.out, p.box[p.cur].label>>

\* The marks of the listed inputs are the crosspoints the parser knows.
MarksTell(p, c) ==
  \A x \in Output, y \in DOMAIN p.rows : <<x, p.rows[y]>> \in p.marks <=> c[x] = p.rows[y]

Typed ==
  /\ kind \in {"output", "xy", "xpoint", "button", "armbutton"}
  /\ there \subseteq Input /\ reals \subseteq Input
  /\ lapsed \in BOOLEAN
  /\ DOMAIN xp = Output
  /\ IsPanel(panel)
  /\ kind = "xpoint" => IsList(panel.rows)

IInv ==
  /\ Typed
  /\ kind \in {"output", "xy"} => Chosen(panel, wanted, lapsed)
  /\ kind = "xpoint" /\ stage = "up" => MarksTell(panel, xp)
  /\ SendsWhatWasMeant

-----------------------------------------------------------------------------

\* What the list of a finite set is: as long as the set is large.
LEMMA AscendingIsList ==
  ASSUME NEW S, S \subseteq Input
  PROVE  IsList(Ascending(S))
<1>1. IsFiniteSet(Input)
  BY PanelAssumption, FS_Interval DEF Input
<1>2. Cardinality(S) \in Nat
  BY <1>1, FS_Subset, FS_CardinalityType
<1> QED
  BY <1>2 DEF IsList, Ascending

\* What an item's or a button's panel does of itself leaves a panel.
LEMMA PanelsStayPanels ==
  ASSUME NEW p, IsPanel(p), NEW o, NEW i, NEW S
  PROVE  /\ IsPanel(Disarmed(p)) /\ ~Disarmed(p).armed
         /\ IsPanel(ChangeOutputCrosspoint(p, i)) /\ ~ChangeOutputCrosspoint(p, i).armed
         /\ IsPanel(ChangeXy(p, i)) /\ ~ChangeXy(p, i).armed
         /\ IsPanel(Mark(p, o, i))
         /\ IsPanel(Emptied(p)) /\ IsPanel(Unbuilt(p))
         /\ IsPanel(Listed(p, S)) /\ IsPanel(UpdateInputNames(p, S))
<1>1. IsPanel(Disarmed(p)) /\ ~Disarmed(p).armed
  BY DEF IsPanel, Fields, Disarmed
<1>2. IsPanel(ChangeOutputCrosspoint(p, i)) /\ ~ChangeOutputCrosspoint(p, i).armed
  BY DEF IsPanel, Fields, Disarmed, ChangeOutputCrosspoint
<1>3. IsPanel(ChangeXy(p, i)) /\ ~ChangeXy(p, i).armed
  BY DEF IsPanel, Fields, Disarmed, ChangeXy
<1>4. IsPanel(Mark(p, o, i))
  BY DEF IsPanel, Fields, Mark
<1>5. IsPanel(Emptied(p)) /\ IsPanel(Unbuilt(p))
  BY DEF IsPanel, Fields, Emptied, Unbuilt
<1>6. IsPanel(Listed(p, S)) /\ IsPanel(UpdateInputNames(p, S))
  BY DEF IsPanel, Fields, Listed, UpdateInputNames
<1> QED
  BY <1>1, <1>2, <1>3, <1>4, <1>5, <1>6

\* What the parser tells a panel leaves a panel.
LEMMA ToldPanels ==
  ASSUME NEW p, IsPanel(p), NEW o, NEW i, NEW S
  PROVE  /\ IsPanel(OnReport(p, o, i)) /\ IsPanel(OnLost(p))
         /\ IsPanel(OnInputs(p, S)) /\ IsPanel(OnUp(p, S))
<1>1. IsPanel(OnReport(p, o, i))
  BY PanelsStayPanels DEF OnReport
<1>2. IsPanel(OnLost(p))
  <2>1. IsPanel([p EXCEPT !.usable = FALSE])
    BY DEF IsPanel, Fields
  <2> QED
    BY <2>1, PanelsStayPanels DEF OnLost
<1>3. IsPanel(OnInputs(p, S))
  BY PanelsStayPanels DEF OnInputs
<1>4. IsPanel(OnUp(p, S))
  <2> DEFINE q == [p EXCEPT !.out = 1,
                     !.box = [k \in 1 .. Cardinality(S) |-> Item(Ascending(S)[k])] \o <<Off>>]
  <2>1. IsPanel(q)
    BY DEF IsPanel, Fields
  <2> HIDE DEF q
  <2>2. IsPanel(ChangeXy(q, xp[1]))
    BY <2>1, PanelsStayPanels
  <2>3. IsPanel(RouterBox(p, S))
    BY <2>2 DEF RouterBox, q
  <2> QED
    BY <2>3, PanelsStayPanels DEF OnUp
<1> QED
  BY <1>1, <1>2, <1>3, <1>4

\* A report keeps the rows of xpointpanel, and its marks tell what the parser knows.
LEMMA MarkTells ==
  ASSUME NEW p, IsPanel(p), NEW c, DOMAIN c = Output, NEW o, NEW i, MarksTell(p, c)
  PROVE  MarksTell(Mark(p, o, i), [c EXCEPT ![o] = i])
<1> DEFINE q == Mark(p, o, i)
<1>1. q.rows = p.rows /\ q.marks = Others(p, o) \cup {m \in {<<o, i>>} : i \in ToSet(p.rows)}
  BY DEF Mark, IsPanel, Fields
<1>2. ASSUME NEW x \in Output, NEW y \in DOMAIN p.rows
      PROVE  <<x, p.rows[y]>> \in q.marks <=> [c EXCEPT ![o] = i][x] = p.rows[y]
  <2>1. p.rows[y] \in ToSet(p.rows)
    BY DEF ToSet
  <2>2. CASE x = o
    <3>1. <<x, p.rows[y]>> \notin Others(p, o)
      BY <2>2 DEF Others
    <3> QED
      BY <1>1, <2>1, <2>2, <3>1
  <2>3. CASE x # o
    BY <1>1, <2>3 DEF MarksTell, Others
  <2> QED
    BY <2>2, <2>3
<1> QED
  BY <1>1, <1>2 DEF MarksTell

\* Rows made anew are marked with what the parser knows, and are a list.
LEMMA ListedTells ==
  ASSUME NEW p, IsPanel(p), NEW S, S \subseteq Input, kind = "xpoint"
  PROVE  IsList(Listed(p, S).rows) /\ MarksTell(Listed(p, S), xp)
<1> DEFINE q == Listed(p, S)
<1>1. /\ q.rows = Ascending(S)
      /\ q.marks = {m \in Output \X ToSet(Ascending(S)) : xp[m[1]] = m[2]}
  BY DEF Listed, IsPanel, Fields
<1>2. \A y \in DOMAIN q.rows : q.rows[y] \in ToSet(q.rows)
  BY DEF ToSet
<1>3. MarksTell(q, xp)
  BY <1>1, <1>2 DEF MarksTell
<1> QED
  BY <1>1, <1>3, AscendingIsList

-----------------------------------------------------------------------------

\* The panel as it is made.
LEMMA InitIInv == Init => IInv
<1> SUFFICES ASSUME Init PROVE IInv
  OBVIOUS
<1>1. kind \in {"output", "xy", "xpoint", "button", "armbutton"}
  BY PanelAssumption DEF Init
<1>2. IsPanel(panel) /\ panel.rows = <<>> /\ (kind # "button" => ~panel.armed)
  BY <1>1 DEF Init, IsPanel, Fields, NewPanelWidget, NewXy, NewXpoint, NewButtonWidget, Blank
<1>3. IsList(<<>>)
  BY DEF IsList
<1>4. Typed
  BY <1>1, <1>2, <1>3, PanelAssumption DEF Init, Typed
<1>5. kind \in {"output", "xy"} => Chosen(panel, wanted, lapsed)
  BY <1>2 DEF Chosen
<1> QED
  BY <1>4, <1>5 DEF Init, IInv, SendsWhatWasMeant

\* A step that leaves the panel, what the parser knows and what was sent alone, and
\* neither enters stage up nor changes the rest but by adding inputs.
LEMMA QuietStep ==
  ASSUME IInv,
         UNCHANGED <<kind, reals, xp, panel, wanted, lapsed, sent>>,
         there' \subseteq Input, stage' = "up" => stage = "up"
  PROVE  IInv'
BY DEF IInv, Typed, Chosen, MarksTell, SendsWhatWasMeant

\* Every step of the server, the parser and the person keeps the invariant.
LEMMA NextIInv == IInv /\ [Next]_vars => IInv'
<1> SUFFICES ASSUME IInv, [Next]_vars PROVE IInv'
  OBVIOUS
<1> USE DEF server, parser, history
<1>1. ASSUME NEW o \in Output, NEW i \in {0} \cup Input, OtherRoutes(o, i) PROVE IInv'
  BY <1>1, QuietStep DEF OtherRoutes, IInv, Typed
<1>2. ASSUME NEW i \in Input, InputAppears(i) PROVE IInv'
  BY <1>2, QuietStep DEF InputAppears, IInv, Typed
<1>3. CASE ActivateRoute
  BY <1>3, QuietStep DEF ActivateRoute, IInv, Typed
<1>4. CASE ConnectionClosed
  <2>1. Typed'
    <3>1. IsPanel(panel')
      BY <1>4, ToldPanels DEF ConnectionClosed, IInv, Typed
    <3>2. kind = "xpoint" => panel' = panel
      BY <1>4 DEF ConnectionClosed, OnLost
    <3> QED
      BY <1>4, <3>1, <3>2 DEF ConnectionClosed, IInv, Typed
  <2>2. kind' \in {"output", "xy"} => Chosen(panel', wanted', lapsed')
    <3>1. CASE kind = "output"
      BY <1>4, <3>1 DEF ConnectionClosed, OnLost, Emptied, IInv, Typed, IsPanel, Fields, Chosen
    <3>2. CASE kind = "xy"
      BY <1>4, <3>2 DEF ConnectionClosed, OnLost, IInv, Typed, IsPanel, Fields, Chosen
    <3> QED
      BY <1>4, <3>1, <3>2 DEF ConnectionClosed
  <2> QED
    BY <1>4, <2>1, <2>2 DEF ConnectionClosed, IInv, SendsWhatWasMeant
<1>5. CASE Reconnect
  BY <1>5, QuietStep DEF Reconnect, IInv, Typed
<1>6. CASE ReadSources
  <2>1. reals' \subseteq Input
    BY <1>6 DEF ReadSources, IInv, Typed
  <2>2. Typed'
    BY <1>6, <2>1, ToldPanels DEF ReadSources, IInv, Typed, OnInputs
  <2>3. kind' \in {"output", "xy"} => Chosen(panel', wanted', lapsed')
    <3>1. CASE kind = "output"
      BY <1>6, <3>1 DEF ReadSources, OnInputs, UpdateInputNames, IInv, Typed, IsPanel, Fields,
                        Chosen
    <3>2. CASE kind = "xy"
      BY <1>6, <3>2 DEF ReadSources, OnInputs, IInv, Chosen
    <3> QED
      BY <1>6, <3>1, <3>2 DEF ReadSources
  <2> QED
    BY <1>6, <2>2, <2>3 DEF ReadSources, IInv, SendsWhatWasMeant
<1>7. CASE RouteStat
  BY <1>7, QuietStep DEF RouteStat, IInv, Typed
<1>8. CASE CrosspointChanged
  <2> DEFINE o == Head(reports)[1]
             i == Head(reports)[2]
  <2>1. /\ panel' = OnReport(panel, o, i) /\ xp' = [xp EXCEPT ![o] = i]
        /\ lapsed' = (lapsed /\ panel'.armed)
        /\ stage' = "up" => stage = "up"
        /\ UNCHANGED <<kind, there, reals, wanted, sent>>
    BY <1>8 DEF CrosspointChanged
  <2> HIDE DEF o, i
  <2>2. Typed'
    <3>1. IsPanel(panel')
      BY <2>1, ToldPanels DEF IInv, Typed
    <3>2. kind = "xpoint" => panel'.rows = panel.rows
      BY <2>1 DEF OnReport, Mark, IInv, Typed, IsPanel, Fields
    <3>3. panel'.armed \in BOOLEAN
      BY <3>1 DEF IsPanel
    <3> QED
      BY <2>1, <3>1, <3>2, <3>3 DEF IInv, Typed
  <2>3. kind' \in {"output", "xy"} => Chosen(panel', wanted', lapsed')
    <3>1. ~ChangeOutputCrosspoint(panel, i).armed /\ ~ChangeXy(panel, i).armed
      BY PanelsStayPanels DEF IInv, Typed
    <3>2. CASE kind \in {"output", "xy"} /\ o = panel.out
      BY <2>1, <3>1, <3>2 DEF OnReport, Chosen
    <3>3. CASE kind \in {"output", "xy"} /\ o # panel.out
      BY <2>1, <3>3 DEF OnReport, Chosen, IInv
    <3> QED
      BY <2>1, <3>2, <3>3
  <2>4. kind' = "xpoint" /\ stage' = "up" => MarksTell(panel', xp')
    BY <2>1, MarkTells DEF OnReport, IInv, Typed
  <2> QED
    BY <2>1, <2>2, <2>3, <2>4 DEF IInv, SendsWhatWasMeant
<1>9. CASE Startup
  <2>1. Typed'
    <3>1. IsPanel(panel')
      BY <1>9, ToldPanels DEF Startup, IInv, Typed
    <3>2. kind = "xpoint" => IsList(panel'.rows)
      BY <1>9, ListedTells DEF Startup, OnUp, IInv, Typed
    <3> QED
      BY <1>9, <3>1, <3>2 DEF Startup, IInv, Typed
  <2>2. kind' \in {"output", "xy"} => Chosen(panel', wanted', lapsed')
    <3>1. CASE kind = "output"
      BY <1>9, <3>1 DEF Startup, OnUp, IInv, Chosen
    <3>2. CASE kind = "xy"
      <4> DEFINE q == [panel EXCEPT !.out = 1,
                         !.box = [k \in 1 .. Cardinality(reals) |-> Item(Ascending(reals)[k])]
                                   \o <<Off>>]
      <4>1. IsPanel(q)
        BY DEF IsPanel, Fields, IInv, Typed
      <4> HIDE DEF q
      <4>2. ~ChangeXy(q, xp[1]).armed
        BY <4>1, PanelsStayPanels
      <4> QED
        BY <1>9, <3>2, <4>2 DEF Startup, OnUp, RouterBox, Chosen, q
    <3> QED
      BY <1>9, <3>1, <3>2 DEF Startup
  <2>3. kind' = "xpoint" => MarksTell(panel', xp')
    BY <1>9, ListedTells DEF Startup, OnUp, IInv, Typed
  <2> QED
    BY <1>9, <2>1, <2>2, <2>3 DEF Startup, IInv, SendsWhatWasMeant
<1>10. ASSUME NEW k \in 1 .. Inputs + 3, InputBoxActivated(k) PROVE IInv'
  <2>1. kind \in {"output", "xy"} /\ UNCHANGED <<kind, there, reals, xp, sent>>
    BY <1>10 DEF InputBoxActivated, Unsent
  <2>2. /\ IsPanel(panel') /\ panel'.cur = k
        /\ panel'.out = panel.out /\ panel'.box = panel.box
    BY <1>10 DEF InputBoxActivated, IInv, Typed, IsPanel, Fields
  <2>3. k # 0
    BY PanelAssumption
  <2>4. lapsed' \in BOOLEAN
    BY <1>10, <2>2 DEF InputBoxActivated, IInv, Typed, IsPanel
  <2>5. Chosen(panel', wanted', lapsed')
    BY <1>10, <2>2, <2>3 DEF InputBoxActivated, Chosen
  <2> QED
    BY <2>1, <2>2, <2>4, <2>5 DEF IInv, Typed, SendsWhatWasMeant
<1>11. ASSUME NEW o \in Output, OutputBoxActivated(o) PROVE IInv'
  <2> DEFINE q == [panel EXCEPT !.out = o]
  <2>1. IsPanel(q)
    BY DEF IsPanel, Fields, IInv, Typed
  <2>2. panel' = ChangeXy(q, xp[o]) /\ kind = "xy"
        /\ UNCHANGED <<kind, there, reals, xp, wanted, lapsed, sent>>
    BY <1>11 DEF OutputBoxActivated, Unsent
  <2> HIDE DEF q
  <2>3. IsPanel(panel') /\ ~panel'.armed
    BY <2>1, <2>2, PanelsStayPanels
  <2> QED
    BY <2>2, <2>3 DEF IInv, Typed, Chosen, SendsWhatWasMeant
<1>12. CASE Take
  <2>1. panel.armed /\ UNCHANGED <<kind, stage, there, reals, xp, panel, wanted, lapsed>>
    BY <1>12 DEF Take
  <2>2. SendsWhatWasMeant'
    <3> SUFFICES ASSUME ~sent'.excused PROVE sent'.did = sent'.meant
      BY DEF SendsWhatWasMeant
    <3>1. panel.cur # 0 /\ wanted = <<panel.out, panel.box[panel.cur].label>> 
      BY <1>12 DEF Take, Send, IInv, Chosen
    <3> QED
      BY <1>12, <3>1 DEF Take, Send, Unlisted
  <2> QED
    BY <2>1, <2>2 DEF IInv, Typed, Chosen, MarksTell
<1>13. CASE Cancel
  <2>1. kind \in {"output", "xy"} /\ UNCHANGED <<kind, there, reals, xp, sent>>
    BY <1>13 DEF Cancel, Unsent
  <2>2. IsPanel(panel') /\ ~panel'.armed /\ lapsed' = FALSE
    BY <1>13 DEF Cancel, IInv, Typed, IsPanel, Fields
  <2> QED
    BY <2>1, <2>2 DEF IInv, Typed, Chosen, SendsWhatWasMeant
<1>14. ASSUME NEW x \in Output, NEW y \in Input, XpointDoubleClicked(x, y) PROVE IInv'
  <2>1. UNCHANGED <<kind, stage, there, reals, xp, panel, wanted, lapsed>> /\ kind = "xpoint"
    BY <1>14 DEF XpointDoubleClicked
  <2>2. SendsWhatWasMeant'
    <3> SUFFICES ASSUME ~sent'.excused PROVE sent'.did = sent'.meant
      BY DEF SendsWhatWasMeant
    <3>1. x # Outputs /\ y # Len(panel.rows) /\ stage = "up" /\ y \in DOMAIN panel.rows
      BY <1>14 DEF XpointDoubleClicked, Send
    <3>2. Endpoint([k \in Output |-> k], x) = x
      BY <3>1, PanelAssumption DEF Endpoint, Output
    <3>3. Endpoint(panel.rows, y) = panel.rows[y]
      BY <2>1, <3>1 DEF Endpoint, IInv, Typed, IsList
    <3>4. x # 0
      BY DEF Output
    <3>5. <<x, panel.rows[y]>> \in panel.marks <=> xp[x] = panel.rows[y]
      BY <2>1, <3>1 DEF IInv, MarksTell
    <3> QED
      BY <1>14, <3>2, <3>3, <3>4, <3>5 DEF XpointDoubleClicked, Send
  <2> QED
    BY <2>1, <2>2 DEF IInv, Typed, Chosen, MarksTell
<1>15. ASSUME NEW i \in Input, ButtonClicked(i) PROVE IInv'
  <2>1. kind \in {"button", "armbutton"} /\ UNCHANGED <<kind, there, reals, xp, lapsed>>
    BY <1>15 DEF ButtonClicked
  <2>2. IsPanel(panel')
    BY <1>15 DEF ButtonClicked, IInv, Typed, IsPanel, Fields
  <2>3. SendsWhatWasMeant'
    BY <1>15 DEF ButtonClicked, Send, SendsWhatWasMeant
  <2> QED
    BY <2>1, <2>2, <2>3 DEF IInv, Typed
<1>16. CASE ArmButtonClicked
  <2>1. kind = "armbutton" /\ UNCHANGED <<kind, there, reals, xp, lapsed, sent>>
    BY <1>16 DEF ArmButtonClicked, Unsent
  <2>2. IsPanel(panel')
    BY <1>16 DEF ArmButtonClicked, IInv, Typed, IsPanel, Fields
  <2> QED
    BY <2>1, <2>2 DEF IInv, Typed, SendsWhatWasMeant
<1>17. CASE UNCHANGED vars
  BY <1>17, QuietStep DEF vars, IInv, Typed
<1> QED
  BY <1>1, <1>2, <1>3, <1>4, <1>5, <1>6, <1>7, <1>8, <1>9, <1>10, <1>11, <1>12, <1>13,
     <1>14, <1>15, <1>16, <1>17 DEF Next

-----------------------------------------------------------------------------

\* A panel sends the route the person meant, though reports, lists and lost connections
\* come between the choice and the sending (InputBoxActivated, Take, the clicks).
THEOREM MeantRoute == Spec => []SendsWhatWasMeant
<1>1. IInv => SendsWhatWasMeant
  BY DEF IInv
<1> QED
  BY <1>1, InitIInv, NextIInv, PTL DEF Spec

-----------------------------------------------------------------------------
(* What a panel shows.                                                     *)

Items   == [label : Nat, sends : Nat]
Source  == {0} \cup Input
Loading == {"reports", "startup", "up"}

\* A report about output o is on its way.
Pending(o) == \E k \in DOMAIN reports : reports[k][1] = o

\* A list begins with the items of the inputs in S and OFF, each of which sends the
\* input its label stands for.
Lists(b, S) ==
  \E n \in Nat :
    /\ n <= Len(b)
    /\ \A k \in 1 .. n : b[k].label = b[k].sends
    /\ \A i \in {0} \cup S : \E k \in 1 .. n : b[k].sends = i

\* The current item is that of the known input, unless a choice is pending.
Follows(p, S) ==
  p.known \in {0} \cup S /\ ~p.armed /\ ~Unlisted(p)
    => p.cur # 0 /\ p.box[p.cur].label = p.known

ShowTyped ==
  /\ stage \in {"down", "names", "inputs", "reports", "startup", "up"}
  /\ route \in [Output -> Source] /\ xp \in [Output -> Source]
  /\ reports \in Seq(Output \X Source)
  /\ panel.box \in Seq(Items)
  /\ kind \in {"output", "button", "armbutton"} => panel.out = 1
  /\ kind = "xy" /\ stage = "up" => panel.out \in Output

\* Without a connection no report is on its way; with one, the last report about an
\* output tells its route.
LastTells ==
  /\ stage = "down" => reports = <<>>
  /\ \A k \in DOMAIN reports :
       \/ \E j \in DOMAIN reports : j > k /\ reports[j][1] = reports[k][1]
       \/ reports[k][2] = route[reports[k][1]]

\* From RouteStat on, the parser knows the route of an output, or is to be told of it.
Heard == stage \in Loading => \A o \in Output : Pending(o) \/ xp[o] = route[o]

OutputShows ==
  kind = "output" =>
    /\ stage \in {"inputs"} \cup Loading => Lists(panel.box, reals)
    /\ stage \in Loading =>
         Pending(1) \/ (panel.known = xp[1] /\ Follows(panel, reals))

XyShows ==
  kind = "xy" /\ stage = "up" =>
    Lists(panel.box, reals) /\ panel.known = xp[panel.out] /\ Follows(panel, reals)

\* The outputs a panel marks crosspoints of, and those known of outputs O and inputs S.
Watched == IF kind = "xpoint" THEN Output ELSE {1}

KnownMarks(c, S, O) == {m \in O \X S : c[m[1]] = m[2]}

MarksShow ==
  kind \notin {"output", "xy"} /\ stage = "up" =>
    /\ ToSet(panel.rows) = reals
    /\ panel.marks = KnownMarks(xp, reals, Watched)

ShowInv ==
  /\ ShowTyped
  /\ LastTells /\ Heard
  /\ OutputShows /\ XyShows /\ MarksShow

-----------------------------------------------------------------------------

\* The least member of a set of numbers is one of them.
LEMMA MinIsMember ==
  ASSUME NEW S, S \subseteq Nat, S # {}
  PROVE  Min(S) \in S /\ \A x \in S : Min(S) <= x
<1>1. PICK t \in S : \A y \in S : <<y, t>> \notin OpToRel(<, Nat)
  BY NatLessThanWellFounded, WFMin
<1>2. \A y \in S : ~(y < t)
  BY <1>1 DEF OpToRel
<1>3. \A y \in S : t <= y
  BY <1>2
<1> QED BY <1>3 DEF Min

\* The list of a set in order has all its members and no others.
LEMMA AscendingEnumerates ==
  ASSUME NEW S, S \subseteq Input
  PROVE  /\ Cardinality(S) \in Nat
         /\ \A k \in 1 .. Cardinality(S) : Ascending(S)[k] \in S
         /\ \A i \in S : \E k \in 1 .. Cardinality(S) : Ascending(S)[k] = i
<1> DEFINE below(i) == {j \in S : j < i}
           rank == [i \in S |-> Cardinality(below(i)) + 1]
           n == Cardinality(S)
<1>1. IsFiniteSet(S) /\ n \in Nat
  <2>1. IsFiniteSet(Input)
    BY PanelAssumption, FS_Interval DEF Input
  <2> QED BY <2>1, FS_Subset, FS_CardinalityType
<1>2. ASSUME NEW i \in S
      PROVE  IsFiniteSet(below(i)) /\ Cardinality(below(i)) \in Nat /\ Cardinality(below(i)) < n
  <2>1. below(i) \in SUBSET S /\ below(i) # S
    BY DEF Input
  <2> HIDE DEF below
  <2>2. IsFiniteSet(below(i)) /\ Cardinality(below(i)) \in Nat
        /\ Cardinality(below(i)) <= n /\ Cardinality(below(i)) # n
    BY <1>1, <2>1, FS_Subset, FS_CardinalityType
  <2> QED BY <1>1, <2>2
<1>3. ASSUME NEW i \in S, NEW j \in S, i < j
      PROVE  rank[i] < rank[j]
  <2>c. S \subseteq Nat
    BY PanelAssumption DEF Input
  <2>a. \A x \in S : x < i => x < j
    BY <1>3, <2>c
  <2>b. i \in below(j) /\ i \notin below(i)
    BY <1>3, <2>c
  <2>1. below(i) \in SUBSET below(j) /\ below(i) # below(j)
    BY <2>a, <2>b
  <2> HIDE DEF below
  <2>2. /\ Cardinality(below(i)) <= Cardinality(below(j))
        /\ Cardinality(below(i)) # Cardinality(below(j))
    BY <1>2, <2>1, FS_Subset
  <2> QED BY <1>2, <2>2
<1>4. rank \in [S -> 1 .. n]
  <2> HIDE DEF below, n
  <2> QED BY <1>1, <1>2
<1>5. \A i, j \in S : rank[i] = rank[j] => i = j
  <2> SUFFICES ASSUME NEW i \in S, NEW j \in S, rank[i] = rank[j] PROVE i = j
    OBVIOUS
  <2>1. rank[i] \in 1 .. n /\ rank[j] \in 1 .. n
    BY <1>4
  <2> HIDE DEF rank
  <2>2. ~(i < j) /\ ~(j < i)
    BY <1>3, <2>1
  <2> QED BY <2>2 DEF Input
<1>6. \A k \in 1 .. n : \E i \in S : rank[i] = k
  <2> HIDE DEF rank, n
  <2>1. rank \in Injection(S, 1 .. n)
    BY <1>4, <1>5, Fun_IsInj
  <2>2. IsFiniteSet(1 .. n) /\ Cardinality(1 .. n) = n
    BY <1>1, FS_Interval
  <2>3. rank \in Surjection(S, 1 .. n)
    BY <2>1, <2>2, FS_Injection DEF n
  <2> QED BY <2>3 DEF Surjection
<1>7. ASSUME NEW k \in 1 .. n
      PROVE  Ascending(S)[k] \in S /\ rank[Ascending(S)[k]] = k
  <2>1. Ascending(S)[k] = CHOOSE i \in S : Cardinality(below(i)) = k - 1
    BY DEF Ascending
  <2>2. \E i \in S : Cardinality(below(i)) = k - 1
    <3>1. PICK i \in S : rank[i] = k
      BY <1>6
    <3>2. Cardinality(below(i)) = k - 1
      <4> HIDE DEF below
      <4> QED BY <1>2, <3>1
    <3> QED BY <3>2
  <2> HIDE DEF below
  <2>3. Ascending(S)[k] \in S /\ Cardinality(below(Ascending(S)[k])) = k - 1
    BY <2>1, <2>2
  <2> QED BY <2>3
<1>8. ASSUME NEW i \in S PROVE \E k \in 1 .. n : Ascending(S)[k] = i
  <2>1. rank[i] \in 1 .. n
    BY <1>4
  <2> HIDE DEF rank
  <2>2. Ascending(S)[rank[i]] = i
    BY <1>5, <1>7, <2>1
  <2> QED BY <2>1, <2>2
<1> QED BY <1>1, <1>7, <1>8

\* The items of what enumerates a set, and then OFF, list the set.
LEMMA ItemsList ==
  ASSUME NEW S, S \subseteq Input, NEW n \in Nat, NEW f,
         \A k \in 1 .. n : f[k] \in S,
         \A i \in S : \E k \in 1 .. n : f[k] = i,
         NEW b, b = [k \in 1 .. n |-> Item(f[k])] \o <<Off>>
  PROVE  b \in Seq(Items) /\ Lists(b, S)
<1> DEFINE s == [k \in 1 .. n |-> Item(f[k])]
<1>1. S \subseteq Nat
  BY PanelAssumption DEF Input
<1>2. /\ Off \in Items /\ Off.label = 0 /\ Off.sends = 0
      /\ \A i \in Nat : Item(i) \in Items /\ Item(i).label = i /\ Item(i).sends = i
  BY DEF Off, Item, Items
<1>3. \A k \in 1 .. n : f[k] \in Nat
  BY <1>1
<1>4. s \in [1 .. n -> Items]
  BY <1>2, <1>3
<1>5. s \in Seq(Items) /\ Len(s) = n /\ \A k \in 1 .. n : s[k] = Item(f[k])
  <2>1. s \in Seq(Items)
    <3> HIDE DEF s
    <3> QED BY <1>4
  <2> QED BY <2>1
<1> HIDE DEF s
<1>6. /\ b \in Seq(Items) /\ Len(b) = n + 1 /\ b[n + 1] = Off
      /\ \A k \in 1 .. n : b[k] = s[k]
  <2>1. b = s \o <<Off>>
    BY DEF s
  <2>2. <<Off>> \in Seq(Items) /\ Len(<<Off>>) = 1 /\ <<Off>>[1] = Off
    BY <1>2
  <2> HIDE DEF Off, Items
  <2> QED BY <1>5, <2>1, <2>2
<1>7. \A k \in 1 .. n + 1 : b[k].label = b[k].sends
  <2> SUFFICES ASSUME NEW k \in 1 .. n + 1 PROVE b[k].label = b[k].sends
    OBVIOUS
  <2>1. CASE k = n + 1
    BY <1>2, <1>6, <2>1
  <2>2. CASE k # n + 1
    <3>1. k \in 1 .. n
      BY <2>2
    <3>2. b[k] = Item(f[k]) /\ f[k] \in Nat
      BY <1>3, <1>5, <1>6, <3>1
    <3> QED BY <1>2, <3>2
  <2> QED BY <2>1, <2>2
<1>8. \A i \in {0} \cup S : \E k \in 1 .. n + 1 : b[k].sends = i
  <2> SUFFICES ASSUME NEW i \in {0} \cup S PROVE \E k \in 1 .. n + 1 : b[k].sends = i
    OBVIOUS
  <2>1. CASE i = 0
    <3>1. n + 1 \in 1 .. n + 1
      OBVIOUS
    <3> QED BY <1>2, <1>6, <2>1, <3>1
  <2>2. CASE i \in S
    <3>1. PICK k \in 1 .. n : f[k] = i
      BY <2>2
    <3>2. b[k] = Item(i) /\ i \in Nat
      BY <1>1, <1>5, <1>6, <2>2, <3>1
    <3>3. k \in 1 .. n + 1
      OBVIOUS
    <3> QED BY <1>2, <3>2, <3>3
  <2> QED BY <2>1, <2>2
<1> QED
  <2>1. PICK m \in Nat : m = n + 1
    OBVIOUS
  <2>2. m <= Len(b)
    BY <1>6, <2>1
  <2>3. /\ \A k \in 1 .. m : b[k].label = b[k].sends
        /\ \A i \in {0} \cup S : \E k \in 1 .. m : b[k].sends = i
    BY <1>7, <1>8, <2>1, Zenon
  <2>4. Lists(b, S)
    BY <2>2, <2>3, Zenon DEF Lists
  <2> QED BY <1>6, <2>4

\* The lists the panels make, by falling and by rising number.
LEMMA MadeLists ==
  ASSUME NEW S, S \subseteq Input
  PROVE  /\ LET b == [k \in 1 .. Cardinality(S) |-> Item(Descending(S)[k])] \o <<Off>>
            IN b \in Seq(Items) /\ Lists(b, S)
         /\ LET b == [k \in 1 .. Cardinality(S) |-> Item(Ascending(S)[k])] \o <<Off>>
            IN b \in Seq(Items) /\ Lists(b, S)
<1>1. PICK n \in Nat : n = Cardinality(S)
  BY AscendingEnumerates
<1>2. \A k \in 1 .. n : Ascending(S)[k] \in S
  BY <1>1, AscendingEnumerates
<1>3. \A i \in S : \E k \in 1 .. n : Ascending(S)[k] = i
  BY <1>1, AscendingEnumerates
<1>4. Ascending(S) \in [1 .. n -> S]
  BY <1>1, <1>2 DEF Ascending
<1>5. \A k \in 1 .. n : Descending(S)[k] = Ascending(S)[n - k + 1]
  <2>1. PICK a : a = Ascending(S)
    OBVIOUS
  <2>2. Len(a) = n
    BY <1>4, <2>1
  <2> QED BY <2>1, <2>2 DEF Descending, Reverse
<1>6. \A k \in 1 .. n : Descending(S)[k] \in S
  BY <1>2, <1>5
<1>7. \A i \in S : \E k \in 1 .. n : Descending(S)[k] = i
  <2> SUFFICES ASSUME NEW i \in S PROVE \E k \in 1 .. n : Descending(S)[k] = i
    OBVIOUS
  <2>1. PICK k \in 1 .. n : Ascending(S)[k] = i
    BY <1>3
  <2>2. n - k + 1 \in 1 .. n /\ n - (n - k + 1) + 1 = k
    OBVIOUS
  <2> QED BY <1>5, <2>1, <2>2
<1>8. LET b == [k \in 1 .. n |-> Item(Descending(S)[k])] \o <<Off>>
      IN b \in Seq(Items) /\ Lists(b, S)
  BY <1>6, <1>7, ItemsList
<1>9. LET b == [k \in 1 .. n |-> Item(Ascending(S)[k])] \o <<Off>>
      IN b \in Seq(Items) /\ Lists(b, S)
  BY <1>2, <1>3, ItemsList
<1> QED BY <1>1, <1>8, <1>9, Zenon

\* The first item that sends a listed input has its label.
LEMMA FirstItem ==
  ASSUME NEW p, p.box \in Seq(Items), NEW S, S \subseteq Input, Lists(p.box, S),
         NEW i \in {0} \cup S
  PROVE  /\ ItemsOf(p, i) # {} /\ Min(ItemsOf(p, i)) # 0
         /\ p.box[Min(ItemsOf(p, i))].label = i
<1>1. PICK n \in Nat :
        /\ n <= Len(p.box)
        /\ \A k \in 1 .. n : p.box[k].label = p.box[k].sends
        /\ \A j \in {0} \cup S : \E k \in 1 .. n : p.box[k].sends = j
  BY DEF Lists
<1>2. PICK k \in 1 .. n : p.box[k].sends = i
  BY <1>1
<1>3. PICK m \in Nat : m = Len(p.box) /\ DOMAIN p.box = 1 .. m
  OBVIOUS
<1>4. k \in ItemsOf(p, i) /\ ItemsOf(p, i) \subseteq 1 .. m
  BY <1>1, <1>2, <1>3 DEF ItemsOf
<1>5. PICK x : x = Min(ItemsOf(p, i))
  OBVIOUS
<1>6. x \in ItemsOf(p, i) /\ x <= k
  <2>1. ItemsOf(p, i) \subseteq Nat
    BY <1>4
  <2> QED BY <1>4, <1>5, <2>1, MinIsMember
<1>7. x \in 1 .. n
  BY <1>4, <1>6
<1>8. p.box[x].sends = i
  BY <1>6 DEF ItemsOf
<1> QED BY <1>1, <1>4, <1>5, <1>7, <1>8

\* A report is shown by the output panel.
LEMMA OutputFollows ==
  ASSUME NEW p, IsPanel(p), p.box \in Seq(Items), NEW S, S \subseteq Input, NEW i \in Source
  PROVE  LET q == ChangeOutputCrosspoint(p, i) IN
         /\ q.box \in Seq(Items) /\ q.out = p.out /\ q.known = i
         /\ Lists(p.box, S) => Lists(q.box, S) /\ Follows(q, S)
<1> DEFINE q == ChangeOutputCrosspoint(p, i)
           new == [label |-> i, sends |-> i + 1]
<1>0. i \in Nat
  BY PanelAssumption DEF Source, Input
<1>1. q.out = p.out /\ q.known = i
  BY DEF ChangeOutputCrosspoint, Disarmed, IsPanel, Fields
<1>2. CASE ItemsOf(p, i) # {}
  <2>1. q.box = p.box /\ q.cur = Min(ItemsOf(p, i))
    BY <1>2 DEF ChangeOutputCrosspoint, Disarmed, IsPanel, Fields
  <2> HIDE DEF q
  <2>2. ASSUME Lists(p.box, S), i \in {0} \cup S
        PROVE  q.cur # 0 /\ q.box[q.cur].label = i
    BY <2>1, <2>2, FirstItem, Zenon
  <2>3. Lists(p.box, S) => Follows(q, S)
    BY <1>1, <2>2 DEF Follows
  <2>4. Lists(p.box, S) => Lists(q.box, S)
    BY <2>1, Zenon
  <2>5. q.box \in Seq(Items)
    BY <2>1, Zenon
  <2> QED BY <1>1, <2>3, <2>4, <2>5, Zenon DEF q
<1>3. CASE ItemsOf(p, i) = {}
  <2>1. q.box = Append(p.box, new)
    BY <1>3 DEF ChangeOutputCrosspoint, Disarmed, IsPanel, Fields
  <2>2. new \in Items
    BY <1>0 DEF Items
  <2> HIDE DEF q, new
  <2>3. /\ q.box \in Seq(Items) /\ Len(q.box) = Len(p.box) + 1 /\ Len(p.box) \in Nat
        /\ \A k \in 1 .. Len(p.box) : q.box[k] = p.box[k]
    <3> HIDE DEF Items
    <3> QED BY <2>1, <2>2
  <2>4. ASSUME Lists(p.box, S) PROVE Lists(q.box, S) /\ Follows(q, S)
    <3>1. PICK n \in Nat :
            /\ n <= Len(p.box)
            /\ \A k \in 1 .. n : p.box[k].label = p.box[k].sends
            /\ \A j \in {0} \cup S : \E k \in 1 .. n : p.box[k].sends = j
      BY <2>4 DEF Lists
    <3>2. n <= Len(q.box) /\ \A k \in 1 .. n : q.box[k] = p.box[k]
      <4>1. PICK m \in Nat : m = Len(p.box)
        BY <2>3
      <4>2. Len(q.box) = m + 1 /\ n <= m /\ \A k \in 1 .. m : q.box[k] = p.box[k]
        BY <2>3, <3>1, <4>1, Zenon
      <4> QED BY <4>2
    <3>a. \A k \in 1 .. n : q.box[k].label = q.box[k].sends
      BY <3>1, <3>2, Zenon
    <3>b. \A j \in {0} \cup S : \E k \in 1 .. n : q.box[k].sends = j
      BY <3>1, <3>2, Zenon
    <3>3. Lists(q.box, S)
      BY <3>2, <3>a, <3>b, Zenon DEF Lists
    <3>4. i \notin {0} \cup S
      BY <1>3, <2>4, FirstItem
    <3> QED BY <1>1, <3>3, <3>4 DEF Follows
  <2> QED BY <1>1, <2>3, <2>4 DEF q
<1> QED BY <1>2, <1>3

\* So it is by xypanel.
LEMMA XyFollows ==
  ASSUME NEW p, IsPanel(p), p.box \in Seq(Items), NEW S, S \subseteq Input, NEW i
  PROVE  LET q == ChangeXy(p, i) IN
         /\ q.box = p.box /\ q.out = p.out /\ q.known = i
         /\ Lists(p.box, S) => Follows(q, S)
<1> DEFINE q == ChangeXy(p, i)
<1>1. /\ q.box = p.box /\ q.out = p.out /\ q.known = i
      /\ q.cur = IF ItemsOf(p, i) = {} THEN Len(p.box) ELSE Min(ItemsOf(p, i))
  BY DEF ChangeXy, Disarmed, IsPanel, Fields
<1> HIDE DEF q
<1>2. ASSUME Lists(p.box, S), i \in {0} \cup S
      PROVE  q.cur # 0 /\ q.box[q.cur].label = i
  <2>1. /\ ItemsOf(p, i) # {} /\ Min(ItemsOf(p, i)) # 0
        /\ p.box[Min(ItemsOf(p, i))].label = i
    BY <1>2, FirstItem, Zenon
  <2>2. q.cur = Min(ItemsOf(p, i))
    BY <1>1, <2>1, Zenon
  <2> QED BY <1>1, <2>1, <2>2, Zenon
<1>3. Lists(p.box, S) => Follows(q, S)
  BY <1>1, <1>2, Zenon DEF Follows
<1> QED BY <1>1, <1>3, Zenon DEF q

\* A report changes the marks as it changes what the parser knows.
LEMMA MarkKnown ==
  ASSUME NEW p, IsPanel(p), NEW O, O \subseteq Output, NEW o \in O, NEW i,
         NEW S, S = ToSet(p.rows),
         NEW c, p.marks = KnownMarks(c, S, O),
         NEW d, \A x \in O : d[x] = IF x = o THEN i ELSE c[x]
  PROVE  Mark(p, o, i).marks = KnownMarks(d, S, O)
<1> DEFINE q == Mark(p, o, i)
<1>1. q.rows = p.rows /\ q.marks = Others(p, o) \cup {m \in {<<o, i>>} : i \in S}
  BY DEF Mark, IsPanel, Fields
<1> HIDE DEF q
<1>3. ASSUME NEW m PROVE m \in q.marks <=> m \in KnownMarks(d, S, O)
  <2>1. CASE m \in O \X S
    <3>1. PICK x \in O, y \in S : m = <<x, y>>
      BY <2>1
    <3>2. m[1] = x /\ m[2] = y
      BY <3>1
    <3>3. m \in Others(p, o) <=> c[x] = y /\ x # o
      BY <2>1, <3>2 DEF Others, KnownMarks
    <3>4. m \in {n \in {<<o, i>>} : i \in S} <=> x = o /\ y = i
      BY <3>1
    <3>5. m \in KnownMarks(d, S, O) <=> d[x] = y
      BY <2>1, <3>2 DEF KnownMarks
    <3> QED BY <1>1, <3>3, <3>4, <3>5
  <2>2. CASE m \notin O \X S
    BY <1>1, <2>2 DEF Others, KnownMarks
  <2> QED BY <2>1, <2>2
<1>4. q.marks = KnownMarks(d, S, O)
  BY <1>3
<1> QED BY <1>4 DEF q

\* Rows made anew are marked with what the parser knows.
LEMMA ListedKnown ==
  ASSUME NEW p, IsPanel(p), NEW S, S \subseteq Input, kind = "xpoint" \/ p.out = 1
  PROVE  /\ ToSet(Listed(p, S).rows) = S
         /\ Listed(p, S).marks = KnownMarks(xp, S, Watched)
<1>0. Watched \subseteq Output
  BY PanelAssumption DEF Watched, Output
<1>1. ToSet(Ascending(S)) = S
  <2>1. DOMAIN Ascending(S) = 1 .. Cardinality(S)
    BY DEF Ascending
  <2> QED BY <2>1, AscendingEnumerates DEF ToSet
<1>2. /\ Listed(p, S).rows = Ascending(S)
      /\ Listed(p, S).marks = {m \in Output \X ToSet(Ascending(S)) :
                                 xp[m[1]] = m[2] /\ (kind = "xpoint" \/ m[1] = p.out)}
  BY DEF Listed, IsPanel, Fields
<1>3. CASE kind # "xpoint"
  BY <1>0, <1>1, <1>2, <1>3 DEF KnownMarks, Watched
<1>4. CASE kind = "xpoint"
  BY <1>1, <1>2, <1>4 DEF KnownMarks, Watched
<1> QED BY <1>3, <1>4

-----------------------------------------------------------------------------

\* Nothing is shown before the first connection.
LEMMA InitShow == Init => ShowInv
<1> SUFFICES ASSUME Init PROVE ShowInv
  OBVIOUS
<1>1. panel.box = <<>> /\ (kind \in {"output", "button", "armbutton"} => panel.out = 1)
  BY DEF Init, NewPanelWidget, NewXy, NewXpoint, NewButtonWidget, Blank
<1>2. route \in [Output -> Source] /\ xp \in [Output -> Source]
  BY PanelAssumption DEF Init, Source
<1>a. panel.box \in Seq(Items) /\ reports \in Seq(Output \X Source)
  <2>1. <<>> \in Seq(Items) /\ <<>> \in Seq(Output \X Source)
    OBVIOUS
  <2> QED BY <1>1, <2>1, Zenon DEF Init
<1>b. stage = "down"
  BY DEF Init
<1>3. ShowTyped
  BY <1>1, <1>2, <1>a, <1>b DEF ShowTyped
<1> QED BY <1>3 DEF Init, ShowInv, LastTells, Heard, OutputShows, XyShows, MarksShow, Loading

\* A step of which neither the panel nor the parser notices anything.
LEMMA QuietShow ==
  ASSUME ShowInv, UNCHANGED <<kind, stage, route, reports, reals, xp, panel>>
  PROVE  ShowInv'
BY DEF ShowInv, ShowTyped, LastTells, Heard, Pending, OutputShows, XyShows, MarksShow,
       Watched

\* A person's step that changes no list and no mark.
LEMMA PersonShow ==
  ASSUME ShowInv, UNCHANGED <<kind, stage, route, reports, reals, xp>>,
         panel'.box = panel.box, panel'.rows = panel.rows, panel'.marks = panel.marks,
         panel'.out = panel.out \/ (kind = "xy" /\ panel'.out \in Output),
         kind = "output" \/ (kind = "xy" /\ stage = "up") =>
           /\ panel'.known = IF panel'.out = panel.out THEN panel.known ELSE xp[panel'.out]
           /\ Lists(panel.box, reals) /\ (kind = "xy" \/ Follows(panel, reals))
                => Follows(panel', reals)
  PROVE  ShowInv'
<1>1. ShowTyped'
  BY DEF ShowInv, ShowTyped
<1>2. LastTells' /\ Heard'
  BY DEF ShowInv, LastTells, Heard, Pending
<1>3. OutputShows'
  <2>1. kind = "output" => panel'.out = panel.out
    OBVIOUS
  <2> QED BY <2>1 DEF ShowInv, OutputShows, Pending, Loading
<1>4. XyShows'
  BY DEF ShowInv, XyShows
<1>5. MarksShow'
  BY DEF ShowInv, MarksShow, Watched
<1> QED BY <1>1, <1>2, <1>3, <1>4, <1>5 DEF ShowInv

\* A changed route is reported to a panel that is connected.
LEMMA RoutedShow ==
  ASSUME ShowInv, UNCHANGED <<kind, stage, reals, xp, panel>>,
         NEW o \in Output, NEW i \in Source,
         route' = [route EXCEPT ![o] = i], reports' = Told(o, i)
  PROVE  ShowInv'
<1>1. reports \in Seq(Output \X Source) /\ route \in [Output -> Source]
  BY DEF ShowInv, ShowTyped
<1>2. CASE stage = "down"
  <2>1. reports = <<>> /\ reports' = <<>>
    BY <1>2 DEF ShowInv, LastTells, Told
  <2> QED BY <1>1, <1>2, <2>1 DEF ShowInv, ShowTyped, LastTells, Heard, OutputShows, XyShows,
                               MarksShow, Watched, Loading
<1>3. CASE stage # "down"
  <2>1. PICK e : e = <<o, i>>
    OBVIOUS
  <2>2. e \in Output \X Source /\ e[1] = o /\ e[2] = i
    BY <2>1
  <2>3. PICK n \in Nat : n = Len(reports) /\ DOMAIN reports = 1 .. n
    BY <1>1
  <2>4. reports' = Append(reports, e)
    BY <1>3, <2>1 DEF Told
  <2>5. /\ reports' \in Seq(Output \X Source)
        /\ DOMAIN reports' = 1 .. n + 1
        /\ reports'[n + 1] = e
        /\ \A k \in 1 .. n : reports'[k] = reports[k]
    BY <1>1, <2>2, <2>3, <2>4
  <2>6. Pending(o)' /\ \A x : Pending(x) => Pending(x)'
    <3>1. n + 1 \in 1 .. n + 1 /\ \A k \in 1 .. n : k \in 1 .. n + 1
      OBVIOUS
    <3> QED BY <2>2, <2>3, <2>5, <3>1 DEF Pending
  <2>7. ShowTyped'
    BY <1>1, <2>5 DEF ShowInv, ShowTyped
  <2>8. LastTells'
    <3>1. ASSUME NEW k \in DOMAIN reports'
          PROVE  \/ \E j \in DOMAIN reports' : j > k /\ reports'[j][1] = reports'[k][1]
                 \/ reports'[k][2] = route'[reports'[k][1]]
      <4>1. CASE k = n + 1
        BY <1>1, <2>2, <2>5, <4>1
      <4>2. CASE k # n + 1
        <5>1. k \in 1 .. n /\ reports'[k] = reports[k]
          BY <2>5, <4>2
        <5>2. CASE reports[k][1] = o
          <6>1. n + 1 > k /\ n + 1 \in DOMAIN reports'
            BY <2>5, <5>1
          <6> QED BY <2>2, <2>5, <5>1, <5>2, <6>1
        <5>3. CASE reports[k][1] # o
          <6>1. reports[k][1] \in Output
            BY <1>1, <2>3, <5>1
          <6>2. route'[reports[k][1]] = route[reports[k][1]]
            BY <1>1, <5>3, <6>1
          <6>3. \/ \E j \in DOMAIN reports : j > k /\ reports[j][1] = reports[k][1]
                \/ reports[k][2] = route[reports[k][1]]
            BY <2>3, <5>1 DEF ShowInv, LastTells
          <6>4. \A j \in 1 .. n : j \in DOMAIN reports' /\ reports'[j] = reports[j]
            BY <2>5
          <6> QED BY <2>3, <5>1, <6>2, <6>3, <6>4
        <5> QED BY <5>2, <5>3
      <4> QED BY <4>1, <4>2
    <3> QED BY <1>3, <3>1 DEF LastTells
  <2>9. Heard'
    BY <1>1, <2>6 DEF ShowInv, Heard
  <2>10. OutputShows'
    BY <2>6 DEF ShowInv, OutputShows
  <2> QED BY <2>7, <2>8, <2>9, <2>10 DEF ShowInv, XyShows, MarksShow, Watched
<1> QED BY <1>2, <1>3

\* What two queues are one after the other.
LEMMA Appended ==
  ASSUME NEW T, NEW s \in Seq(T), NEW t \in Seq(T)
  PROVE  /\ s \o t \in Seq(T) /\ DOMAIN (s \o t) = 1 .. Len(s) + Len(t)
         /\ \A k \in 1 .. Len(s) : (s \o t)[k] = s[k]
         /\ \A k \in 1 .. Len(t) : (s \o t)[Len(s) + k] = t[k]
<1>1. s \o t \in Seq(T) /\ Len(s \o t) = Len(s) + Len(t)
  OBVIOUS
<1>2. \A k \in 1 .. Len(s) : (s \o t)[k] = s[k]
  OBVIOUS
<1>3. \A k \in 1 .. Len(t) : (s \o t)[Len(s) + k] = t[k]
  OBVIOUS
<1>4. DOMAIN (s \o t) = 1 .. Len(s) + Len(t)
  BY <1>1
<1> QED BY <1>1, <1>2, <1>3, <1>4

\* The answers to RouteStat come after what is on its way, and tell every route.
LEMMA RouteStatShow == ASSUME ShowInv, RouteStat PROVE ShowInv'
<1> USE DEF server, history
<1>1. /\ reports \in Seq(Output \X Source) /\ route \in [Output -> Source]
      /\ UNCHANGED <<kind, route, reals, xp, panel>> /\ stage = "inputs" /\ stage' = "reports"
  BY DEF ShowInv, ShowTyped, RouteStat
<1>2. PICK s : s = [o \in Output |-> <<o, route[o]>>]
  OBVIOUS
<1>3. /\ s \in Seq(Output \X Source) /\ Len(s) = Outputs
      /\ \A o \in 1 .. Outputs : s[o][1] = o /\ s[o][2] = route[o]
  <2>1. s \in [1 .. Outputs -> Output \X Source]
    BY <1>1, <1>2 DEF Output
  <2>2. Outputs \in Nat
    BY PanelAssumption
  <2>3. \A o \in 1 .. Outputs : s[o][1] = o /\ s[o][2] = route[o]
    BY <1>2 DEF Output
  <2> QED BY <2>1, <2>2, <2>3
<1>4. PICK n \in Nat : n = Len(reports) /\ DOMAIN reports = 1 .. n
  BY <1>1
<1>5. reports' = reports \o s
  BY <1>2 DEF RouteStat
<1>6. /\ reports' \in Seq(Output \X Source)
      /\ DOMAIN reports' = 1 .. n + Outputs
      /\ \A k \in 1 .. n : reports'[k] = reports[k]
      /\ \A o \in 1 .. Outputs : reports'[n + o] = s[o]
  <2>1. PICK T : T = Output \X Source
    OBVIOUS
  <2>2. PICK q : q = reports \o s
    OBVIOUS
  <2>3. PICK m \in Nat : m = Outputs
    BY PanelAssumption
  <2>4. reports \in Seq(T) /\ s \in Seq(T) /\ Len(s) = m /\ Len(reports) = n
    BY <1>1, <1>3, <1>4, <2>1, <2>3, Zenon
  <2>5. /\ q \in Seq(T) /\ DOMAIN q = 1 .. n + m
        /\ \A k \in 1 .. n : q[k] = reports[k]
        /\ \A o \in 1 .. m : q[n + o] = s[o]
    <3>1. reports \in Seq(T) /\ s \in Seq(T)
      BY <2>4
    <3>2. /\ reports \o s \in Seq(T)
          /\ DOMAIN (reports \o s) = 1 .. Len(reports) + Len(s)
          /\ \A k \in 1 .. Len(reports) : (reports \o s)[k] = reports[k]
          /\ \A o \in 1 .. Len(s) : (reports \o s)[Len(reports) + o] = s[o]
      BY <3>1, Appended
    <3> QED BY <2>2, <2>4, <3>2, Zenon
  <2>6. reports' = q
    BY <1>5, <2>2, Zenon
  <2>7. DOMAIN reports' = 1 .. n + Outputs
    BY <2>3, <2>5, <2>6, Zenon
  <2>8. reports' \in Seq(Output \X Source)
    BY <2>1, <2>5, <2>6, Zenon
  <2>9. \A k \in 1 .. n : reports'[k] = reports[k]
    BY <2>5, <2>6, Zenon
  <2>10. \A o \in 1 .. Outputs : reports'[n + o] = s[o]
    BY <2>3, <2>5, <2>6, Zenon
  <2> QED BY <2>7, <2>8, <2>9, <2>10
<1>7. \A o \in 1 .. Outputs :
        n + o \in DOMAIN reports' /\ reports'[n + o][1] = o /\ reports'[n + o][2] = route[o]
  BY <1>3, <1>6, PanelAssumption
<1>8. \A o \in Output : Pending(o)'
  BY <1>7 DEF Pending, Output
<1>9. ShowTyped'
  BY <1>1, <1>6 DEF ShowInv, ShowTyped
<1>10. LastTells'
  <2>1. ASSUME NEW k \in DOMAIN reports'
        PROVE  \/ \E j \in DOMAIN reports' : j > k /\ reports'[j][1] = reports'[k][1]
               \/ reports'[k][2] = route'[reports'[k][1]]
    <3>1. CASE k \in 1 .. n
      <4>1. PICK o \in 1 .. Outputs : reports'[k][1] = o
        BY <1>1, <1>4, <1>6, <3>1 DEF Output
      <4>2. n + o > k
        BY <3>1, PanelAssumption
      <4> QED BY <1>7, <4>1, <4>2
    <3>2. CASE k \notin 1 .. n
      <4>1. PICK o \in 1 .. Outputs : k = n + o
        <5>1. k \in 1 .. n + Outputs
          BY <1>6
        <5>2. k - n \in 1 .. Outputs /\ k = n + (k - n)
          BY <3>2, <5>1, PanelAssumption
        <5> QED BY <5>2
      <4> QED BY <1>1, <1>7, <4>1
    <3> QED BY <3>1, <3>2
  <2> QED BY <1>1, <2>1 DEF LastTells
<1>11. 1 \in Output
  BY PanelAssumption DEF Output
<1>12. OutputShows'
  BY <1>1, <1>8, <1>11 DEF ShowInv, OutputShows
<1> QED BY <1>1, <1>8, <1>9, <1>10, <1>12 DEF ShowInv, Heard, XyShows, MarksShow, Watched

\* A report is taken from the queue, and shown.
LEMMA ReportShow == ASSUME Typed, ShowInv, CrosspointChanged PROVE ShowInv'
<1>1. /\ reports \in Seq(Output \X Source) /\ reports # <<>> /\ reports' = Tail(reports)
      /\ route \in [Output -> Source] /\ xp \in [Output -> Source] /\ reals \subseteq Input
      /\ UNCHANGED <<kind, route, there, reals>>
      /\ stage' = IF stage = "reports" /\ Head(reports)[1] = Outputs THEN "startup" ELSE stage
  BY DEF ShowInv, ShowTyped, CrosspointChanged, server, Typed
<1>2. PICK n \in Nat : n = Len(reports) /\ DOMAIN reports = 1 .. n
  BY <1>1
<1>3. /\ n >= 1 /\ Head(reports) = reports[1]
      /\ reports' \in Seq(Output \X Source) /\ DOMAIN reports' = 1 .. n - 1
      /\ \A k \in 1 .. n - 1 : reports'[k] = reports[k + 1]
  BY <1>1, <1>2
<1>4. PICK o \in Output, i \in Source : o = reports[1][1] /\ i = reports[1][2]
  <2>1. reports[1] \in Output \X Source
    BY <1>1, <1>2, <1>3
  <2> QED BY <2>1
<1>5. /\ panel' = OnReport(panel, o, i) /\ xp' = [xp EXCEPT ![o] = i]
      /\ stage' = IF stage = "reports" /\ o = Outputs THEN "startup" ELSE stage
  BY <1>1, <1>3, <1>4, Zenon DEF CrosspointChanged
<1>6. /\ stage' \in {"down", "names", "inputs", "reports", "startup", "up"}
      /\ stage' \in Loading <=> stage \in Loading
      /\ stage' = "up" <=> stage = "up"
      /\ stage' = "down" <=> stage = "down"
      /\ stage' = "inputs" <=> stage = "inputs"
  BY <1>5 DEF Loading, ShowInv, ShowTyped
<1>7. \A x : Pending(x)' \/ x = o \/ ~Pending(x)
  <2>1. ASSUME NEW x, x # o, Pending(x) PROVE Pending(x)'
    <3>1. PICK k \in 1 .. n : reports[k][1] = x
      BY <1>2, <2>1 DEF Pending
    <3>2. k # 1
      BY <1>4, <2>1, <3>1
    <3>3. k - 1 \in 1 .. n - 1 /\ (k - 1) + 1 = k
      BY <3>2
    <3>4. reports'[k - 1][1] = x
      BY <1>3, <3>1, <3>3
    <3> QED BY <1>3, <3>3, <3>4 DEF Pending
  <2> QED BY <2>1
<1>8. Pending(o)' \/ i = route[o]
  <2>1. CASE \E j \in DOMAIN reports : j > 1 /\ reports[j][1] = o
    <3>1. PICK j \in 1 .. n : j > 1 /\ reports[j][1] = o
      BY <1>2, <2>1
    <3>2. j - 1 \in 1 .. n - 1 /\ (j - 1) + 1 = j
      BY <3>1
    <3>3. reports'[j - 1][1] = o
      BY <1>3, <3>1, <3>2
    <3> QED BY <1>3, <3>2, <3>3 DEF Pending
  <2>2. CASE ~\E j \in DOMAIN reports : j > 1 /\ reports[j][1] = o
    <3>1. 1 \in DOMAIN reports
      BY <1>2, <1>3
    <3> QED BY <1>4, <2>2, <3>1 DEF ShowInv, LastTells
  <2> QED BY <2>1, <2>2
<1>9. LastTells'
  <2>1. ASSUME NEW k \in DOMAIN reports'
        PROVE  \/ \E j \in DOMAIN reports' : j > k /\ reports'[j][1] = reports'[k][1]
               \/ reports'[k][2] = route'[reports'[k][1]]
    <3>1. k \in 1 .. n - 1 /\ k + 1 \in 1 .. n /\ reports'[k] = reports[k + 1]
      BY <1>3
    <3>2. CASE \E j \in DOMAIN reports : j > k + 1 /\ reports[j][1] = reports[k + 1][1]
      <4>1. PICK j \in 1 .. n : j > k + 1 /\ reports[j][1] = reports[k + 1][1]
        BY <1>2, <3>2
      <4>2. j - 1 \in 1 .. n - 1 /\ (j - 1) + 1 = j /\ j - 1 > k
        BY <3>1, <4>1
      <4>3. reports'[j - 1] = reports[j]
        BY <1>3, <4>2
      <4> QED BY <1>3, <3>1, <4>1, <4>2, <4>3
    <3>3. CASE reports[k + 1][2] = route[reports[k + 1][1]]
      BY <1>1, <3>1, <3>3
    <3> QED BY <1>2, <3>1, <3>2, <3>3 DEF ShowInv, LastTells
  <2>2. stage' = "down" => reports' = <<>>
    BY <1>1, <1>6 DEF ShowInv, LastTells
  <2> QED BY <2>1, <2>2 DEF LastTells
<1>10. Heard'
  <2>1. \A x \in Output : xp'[x] = IF x = o THEN i ELSE xp[x]
    BY <1>1, <1>5
  <2>2. ASSUME stage \in Loading, NEW x \in Output PROVE Pending(x)' \/ xp'[x] = route'[x]
    BY <1>1, <1>7, <1>8, <2>1, <2>2 DEF ShowInv, Heard
  <2> QED BY <1>6, <2>2 DEF Heard
<1>11. ShowTyped'
  <2>1. xp' \in [Output -> Source]
    BY <1>1, <1>5
  <2>2. panel'.box \in Seq(Items) /\ panel'.out = panel.out
    <3>1. panel.box \in Seq(Items) /\ IsPanel(panel)
      BY DEF ShowInv, ShowTyped, Typed
    <3>2. CASE kind = "output"
      BY <1>1, <1>5, <3>1, <3>2, OutputFollows DEF OnReport
    <3>3. CASE kind = "xy"
      BY <1>1, <1>5, <3>1, <3>3, XyFollows DEF OnReport
    <3>4. CASE kind \notin {"output", "xy"}
      <4>1. panel' = Mark(panel, o, i) \/ panel' = panel
        BY <1>5, <3>4 DEF OnReport
      <4> QED BY <3>1, <4>1 DEF Mark, IsPanel, Fields
    <3> QED BY <3>2, <3>3, <3>4
  <2> QED BY <1>1, <1>3, <1>6, <2>1, <2>2 DEF ShowInv, ShowTyped
<1>12. OutputShows'
  <2> SUFFICES ASSUME kind = "output" PROVE OutputShows'
    BY <1>1 DEF OutputShows
  <2>1. panel.out = 1 /\ panel.box \in Seq(Items) /\ IsPanel(panel)
    BY DEF ShowInv, ShowTyped, Typed
  <2>2. CASE o = 1
    <3>1. panel' = ChangeOutputCrosspoint(panel, i)
      BY <1>5, <2>1, <2>2 DEF OnReport
    <3>2. /\ panel'.known = i
          /\ Lists(panel.box, reals) => Lists(panel'.box, reals) /\ Follows(panel', reals)
      BY <1>1, <2>1, <3>1, OutputFollows
    <3>3. xp'[1] = i
      BY <1>1, <1>5, <2>2
    <3> QED BY <1>1, <1>6, <3>2, <3>3 DEF ShowInv, OutputShows
  <2>3. CASE o # 1
    <3>1. panel' = panel
      BY <1>5, <2>1, <2>3 DEF OnReport
    <3>2. xp'[1] = xp[1]
      BY <1>1, <1>5, <2>3
    <3>3. Pending(1) => Pending(1)'
      BY <1>7, <2>3
    <3> QED BY <1>1, <1>6, <3>1, <3>2, <3>3 DEF ShowInv, OutputShows
  <2> QED BY <2>2, <2>3
<1>13. XyShows'
  <2> SUFFICES ASSUME kind = "xy", stage = "up" PROVE XyShows'
    BY <1>1, <1>6 DEF XyShows
  <2>1. panel.out \in Output /\ panel.box \in Seq(Items) /\ IsPanel(panel)
    BY DEF ShowInv, ShowTyped, Typed
  <2>2. CASE o = panel.out
    <3>1. panel' = ChangeXy(panel, i)
      BY <1>5, <2>1, <2>2 DEF OnReport
    <3>2. /\ panel'.known = i /\ panel'.out = panel.out /\ panel'.box = panel.box
          /\ Lists(panel.box, reals) => Follows(panel', reals)
      BY <1>1, <2>1, <3>1, XyFollows
    <3>3. xp'[panel.out] = i
      BY <1>1, <1>5, <2>2
    <3> QED BY <1>1, <1>6, <3>2, <3>3 DEF ShowInv, XyShows
  <2>3. CASE o # panel.out
    <3>1. panel' = panel
      BY <1>5, <2>1, <2>3 DEF OnReport
    <3>2. xp'[panel.out] = xp[panel.out]
      BY <1>1, <1>5, <2>1, <2>3
    <3> QED BY <1>1, <1>6, <3>1, <3>2 DEF ShowInv, XyShows
  <2> QED BY <2>2, <2>3
<1>14. MarksShow'
  <2> SUFFICES ASSUME kind \notin {"output", "xy"}, stage = "up" PROVE MarksShow'
    BY <1>1, <1>6 DEF MarksShow
  <2>1. /\ ToSet(panel.rows) = reals /\ panel.marks = KnownMarks(xp, reals, Watched)
        /\ IsPanel(panel) /\ (kind = "xpoint" \/ panel.out = 1)
    BY DEF ShowInv, ShowTyped, Typed, MarksShow
  <2>2. Watched' = Watched /\ Watched \subseteq Output
    BY <1>1, PanelAssumption DEF Watched, Output
  <2>3. CASE o \in Watched
    <3>1. panel' = Mark(panel, o, i)
      BY <1>5, <2>1, <2>3 DEF OnReport, Watched
    <3>2. \A x \in Watched : xp'[x] = IF x = o THEN i ELSE xp[x]
      BY <1>1, <1>5, <2>2
    <3>3. panel'.marks = KnownMarks(xp', reals, Watched)
      <4>1. PICK d : d = xp'
        OBVIOUS
      <4>2. \A x \in Watched : d[x] = IF x = o THEN i ELSE xp[x]
        BY <3>2, <4>1, Zenon
      <4>3. Mark(panel, o, i).marks = KnownMarks(d, reals, Watched)
        BY <2>1, <2>2, <2>3, <4>2, MarkKnown
      <4> QED BY <3>1, <4>1, <4>3, Zenon
    <3>4. panel'.rows = panel.rows
      BY <2>1, <3>1 DEF Mark, IsPanel, Fields
    <3> QED BY <1>1, <2>1, <2>2, <3>3, <3>4, Zenon DEF MarksShow
  <2>4. CASE o \notin Watched
    <3>1. panel' = panel
      BY <1>5, <2>1, <2>4 DEF OnReport, Watched
    <3>2. \A x \in Watched : xp'[x] = xp[x]
      BY <1>1, <1>5, <2>2, <2>4
    <3>3. KnownMarks(xp', reals, Watched) = KnownMarks(xp, reals, Watched)
      BY <3>2 DEF KnownMarks
    <3> QED BY <1>1, <2>1, <2>2, <3>1, <3>3, Zenon DEF MarksShow
  <2> QED BY <2>3, <2>4
<1> QED BY <1>9, <1>10, <1>11, <1>12, <1>13, <1>14 DEF ShowInv

\* The names of the inputs are listed by the output panel.
LEMMA NamesShow == ASSUME Typed, Typed', ShowInv, ReadSources PROVE ShowInv'
<1>1. /\ stage = "names" /\ stage' = "inputs" /\ reals' \subseteq Input
      /\ panel' = OnInputs(panel, reals')
      /\ UNCHANGED <<kind, route, reports, xp>>
  BY DEF ReadSources, Typed, server
<1>2. CASE kind = "output"
  <2>1. PICK b : b = [k \in 1 .. Cardinality(reals') |-> Item(Descending(reals')[k])] \o <<Off>>
    OBVIOUS
  <2>2. panel'.box = b /\ panel'.out = panel.out
    BY <1>1, <1>2, <2>1 DEF OnInputs, UpdateInputNames, Typed, IsPanel, Fields
  <2>3. b \in Seq(Items) /\ Lists(b, reals')
    BY <1>1, <2>1, MadeLists
  <2> QED BY <1>1, <1>2, <2>2, <2>3 DEF ShowInv, ShowTyped, LastTells, Heard, OutputShows,
                                       XyShows, MarksShow, Loading
<1>3. CASE kind # "output"
  <2>1. panel' = panel
    BY <1>1, <1>3 DEF OnInputs
  <2> QED BY <1>1, <1>3, <2>1 DEF ShowInv, ShowTyped, LastTells, Heard, OutputShows,
                                 XyShows, MarksShow, Loading
<1> QED BY <1>2, <1>3

\* Once the routes are known, the other panels make their lists and mark them.
LEMMA UpShow == ASSUME Typed, ShowInv, Startup PROVE ShowInv'
<1>1. /\ stage = "startup" /\ stage' = "up" /\ reals \subseteq Input /\ IsPanel(panel)
      /\ panel' = OnUp(panel, reals) /\ xp \in [Output -> Source] /\ panel.box \in Seq(Items)
      /\ UNCHANGED <<kind, route, reports, reals, xp>>
  BY DEF Startup, Typed, ShowInv, ShowTyped, server
<1>2. 1 \in Output
  BY PanelAssumption DEF Output
<1>3. LastTells' /\ Heard'
  BY <1>1 DEF ShowInv, LastTells, Heard, Loading, Pending
<1>4. CASE kind = "output"
  <2>1. panel' = panel
    BY <1>1, <1>4 DEF OnUp
  <2> QED BY <1>1, <1>3, <1>4, <2>1 DEF ShowInv, ShowTyped, OutputShows, XyShows, MarksShow,
                                       Loading, Pending
<1>5. CASE kind = "xy"
  <2>1. PICK b : b = [k \in 1 .. Cardinality(reals) |-> Item(Ascending(reals)[k])] \o <<Off>>
    OBVIOUS
  <2>2. PICK q : q = [panel EXCEPT !.out = 1, !.box = b]
    OBVIOUS
  <2>3. panel' = ChangeXy(q, xp[1])
    BY <1>1, <1>5, <2>1, <2>2 DEF OnUp, RouterBox
  <2>4. IsPanel(q) /\ q.box = b /\ q.out = 1
    BY <1>1, <2>2 DEF IsPanel, Fields
  <2>5. b \in Seq(Items) /\ Lists(b, reals)
    BY <1>1, <2>1, MadeLists
  <2>6. panel'.box = b /\ panel'.out = 1 /\ panel'.known = xp[1] /\ Follows(panel', reals)
    BY <1>1, <2>3, <2>4, <2>5, XyFollows
  <2> QED BY <1>1, <1>2, <1>3, <1>5, <2>5, <2>6 DEF ShowInv, ShowTyped, OutputShows, XyShows,
                                                   MarksShow
<1>6. CASE kind \notin {"output", "xy"}
  <2>1. panel' = Listed(panel, reals)
    BY <1>1, <1>6 DEF OnUp
  <2>2. kind = "xpoint" \/ panel.out = 1
    BY <1>6 DEF Typed, ShowInv, ShowTyped
  <2>3. panel'.box = panel.box /\ panel'.out = panel.out
    BY <1>1, <2>1 DEF Listed, IsPanel, Fields
  <2>4. /\ ToSet(panel'.rows) = reals
        /\ panel'.marks = KnownMarks(xp, reals, Watched)
    BY <1>1, <2>1, <2>2, ListedKnown
  <2> QED BY <1>1, <1>3, <1>6, <2>3, <2>4 DEF ShowInv, ShowTyped, OutputShows, XyShows,
                                                    MarksShow, Watched
<1> QED BY <1>4, <1>5, <1>6

\* A lost connection takes the reports, and the output panel's list.
LEMMA LostShow == ASSUME Typed, ShowInv, ConnectionClosed PROVE ShowInv'
<1>1. /\ stage' = "down" /\ reports' = <<>> /\ xp' = [o \in Output |-> 0]
      /\ panel' = OnLost(panel) /\ UNCHANGED <<kind, route, reals>>
  BY DEF ConnectionClosed, server
<1>2. xp' \in [Output -> Source]
  BY <1>1 DEF Source
<1>3. panel'.out = panel.out /\ (panel'.box = panel.box \/ panel'.box = <<>>)
  BY <1>1 DEF OnLost, Emptied, Unbuilt, Typed, IsPanel, Fields
<1>4. panel'.box \in Seq(Items) /\ reports' \in Seq(Output \X Source)
  <2>1. <<>> \in Seq(Items) /\ <<>> \in Seq(Output \X Source)
    OBVIOUS
  <2> QED BY <1>1, <1>3, <2>1 DEF ShowInv, ShowTyped
<1>5. ShowTyped'
  BY <1>1, <1>2, <1>3, <1>4 DEF ShowInv, ShowTyped
<1> QED BY <1>1, <1>5 DEF ShowInv, LastTells, Heard, OutputShows, XyShows, MarksShow, Loading

\* The parser connects again: nothing is on its way yet.
LEMMA AgainShow == ASSUME ShowInv, Reconnect PROVE ShowInv'
<1>1. /\ stage = "down" /\ stage' = "names"
      /\ UNCHANGED <<kind, route, reports, reals, xp, panel>>
  BY DEF Reconnect, server
<1>2. ShowTyped'
  BY <1>1 DEF ShowInv, ShowTyped
<1> QED BY <1>1, <1>2 DEF ShowInv, LastTells, Heard, OutputShows, XyShows, MarksShow, Loading

\* Every step keeps what is shown in step with what the panel has been told.
LEMMA NextShow == IInv /\ IInv' /\ ShowInv /\ [Next]_vars => ShowInv'
<1> SUFFICES ASSUME IInv, IInv', ShowInv, [Next]_vars PROVE ShowInv'
  OBVIOUS
<1> USE DEF server, parser, history
<1>0. /\ Typed /\ Typed' /\ IsPanel(panel) /\ reals \subseteq Input /\ there \subseteq Input
      /\ panel.box \in Seq(Items)
  BY DEF IInv, Typed, ShowInv, ShowTyped
<1>1. ASSUME NEW o \in Output, NEW i \in {0} \cup Input, OtherRoutes(o, i) PROVE ShowInv'
  BY <1>1, RoutedShow DEF OtherRoutes, Source
<1>2. ASSUME NEW i \in Input, InputAppears(i) PROVE ShowInv'
  BY <1>2, QuietShow DEF InputAppears
<1>3. CASE ActivateRoute
  <2>1. PICK o, i : o = Head(commands)[1] /\ i = Head(commands)[2]
    OBVIOUS
  <2>2. /\ UNCHANGED <<kind, stage, reals, xp, panel>>
        /\ IF o \in Output /\ i \in {0} \cup there /\ route[o] # i
           THEN route' = [route EXCEPT ![o] = i] /\ reports' = Told(o, i)
           ELSE UNCHANGED <<route, reports>>
    BY <1>3, <2>1 DEF ActivateRoute
  <2>3. CASE o \in Output /\ i \in {0} \cup there /\ route[o] # i
    BY <1>0, <2>2, <2>3, RoutedShow DEF Source
  <2>4. CASE ~(o \in Output /\ i \in {0} \cup there /\ route[o] # i)
    BY <2>2, <2>4, QuietShow
  <2> QED BY <2>3, <2>4
<1>4. CASE ConnectionClosed
  BY <1>0, <1>4, LostShow
<1>5. CASE Reconnect
  BY <1>5, AgainShow
<1>6. CASE ReadSources
  BY <1>0, <1>6, NamesShow
<1>7. CASE RouteStat
  BY <1>7, RouteStatShow
<1>8. CASE CrosspointChanged
  BY <1>0, <1>8, ReportShow
<1>9. CASE Startup
  BY <1>0, <1>9, UpShow
<1>10. ASSUME NEW k \in 1 .. Inputs + 3, InputBoxActivated(k) PROVE ShowInv'
  <2>1. /\ UNCHANGED <<kind, stage, route, reports, reals, xp>>
        /\ panel'.out = panel.out /\ panel'.box = panel.box
        /\ panel'.rows = panel.rows /\ panel'.marks = panel.marks
        /\ panel'.known = panel.known /\ panel'.cur = k
        /\ panel'.armed = (panel.known # panel.box[k].sends)
    BY <1>0, <1>10 DEF InputBoxActivated, Unsent, IsPanel, Fields
  <2>2. Follows(panel', reals)
    <3> SUFFICES ASSUME ~panel'.armed, ~Unlisted(panel')
                 PROVE  k # 0 /\ panel.box[k].label = panel.known
      BY <2>1 DEF Follows
    <3>1. k # 0
      BY PanelAssumption
    <3>2. panel.box[k].label = panel.box[k].sends
      BY <2>1, <3>1 DEF Unlisted
    <3> QED BY <2>1, <3>1, <3>2
  <2> QED BY <2>1, <2>2, PersonShow
<1>11. ASSUME NEW o \in Output, OutputBoxActivated(o) PROVE ShowInv'
  <2>1. PICK q : q = [panel EXCEPT !.out = o]
    OBVIOUS
  <2>2. /\ IsPanel(q) /\ q.box = panel.box /\ q.out = o
        /\ q.rows = panel.rows /\ q.marks = panel.marks
    BY <1>0, <2>1 DEF IsPanel, Fields
  <2>3. panel' = ChangeXy(q, xp[o]) /\ kind = "xy"
        /\ UNCHANGED <<kind, stage, route, reports, reals, xp>>
    BY <1>11, <2>1 DEF OutputBoxActivated, Unsent
  <2>4. /\ panel'.box = panel.box /\ panel'.out = o /\ panel'.known = xp[o]
        /\ Lists(panel.box, reals) => Follows(panel', reals)
    BY <1>0, <2>2, <2>3, XyFollows
  <2>5. panel'.rows = panel.rows /\ panel'.marks = panel.marks
    BY <2>2, <2>3 DEF ChangeXy, Disarmed, IsPanel, Fields
  <2>6. stage = "up" /\ o = panel.out => panel.known = xp[o]
    BY <2>3 DEF ShowInv, XyShows
  <2> QED BY <2>3, <2>4, <2>5, <2>6, PersonShow
<1>12. CASE Take
  BY <1>12, QuietShow DEF Take
<1>13. CASE Cancel
  <2>1. /\ UNCHANGED <<kind, stage, route, reports, reals, xp>>
        /\ panel'.out = panel.out /\ panel'.box = panel.box
        /\ panel'.rows = panel.rows /\ panel'.marks = panel.marks
        /\ panel'.known = panel.known
        /\ panel'.cur = IF ItemsOf(panel, panel.known) = {} THEN panel.cur
                        ELSE Min(ItemsOf(panel, panel.known))
    BY <1>0, <1>13 DEF Cancel, Unsent, IsPanel, Fields
  <2>2. ASSUME Lists(panel.box, reals), panel.known \in {0} \cup reals
        PROVE  panel'.cur # 0 /\ panel'.box[panel'.cur].label = panel.known
    <3>1. PICK i \in {0} \cup reals : i = panel.known
      BY <2>2
    <3>2. /\ ItemsOf(panel, i) # {} /\ Min(ItemsOf(panel, i)) # 0
          /\ panel.box[Min(ItemsOf(panel, i))].label = i
      BY <1>0, <2>2, FirstItem
    <3> QED BY <2>1, <3>1, <3>2, Zenon
  <2>3. Lists(panel.box, reals) => Follows(panel', reals)
    BY <2>1, <2>2 DEF Follows
  <2> QED BY <2>1, <2>3, PersonShow
<1>14. ASSUME NEW x \in Output, NEW y \in Input, XpointDoubleClicked(x, y) PROVE ShowInv'
  BY <1>14, QuietShow DEF XpointDoubleClicked
<1>15. ASSUME NEW i \in Input, ButtonClicked(i) PROVE ShowInv'
  <2>1. /\ UNCHANGED <<kind, stage, route, reports, reals, xp>>
        /\ kind \notin {"output", "xy"}
        /\ panel'.out = panel.out /\ panel'.box = panel.box
        /\ panel'.rows = panel.rows /\ panel'.marks = panel.marks
    BY <1>0, <1>15 DEF ButtonClicked, IsPanel, Fields
  <2> QED BY <2>1, PersonShow
<1>16. CASE ArmButtonClicked
  <2>1. /\ UNCHANGED <<kind, stage, route, reports, reals, xp>>
        /\ kind \notin {"output", "xy"}
        /\ panel'.out = panel.out /\ panel'.box = panel.box
        /\ panel'.rows = panel.rows /\ panel'.marks = panel.marks
    BY <1>0, <1>16 DEF ArmButtonClicked, Unsent, IsPanel, Fields
  <2> QED BY <2>1, PersonShow
<1>17. CASE UNCHANGED vars
  BY <1>17, QuietShow DEF vars
<1> QED
  BY <1>1, <1>2, <1>3, <1>4, <1>5, <1>6, <1>7, <1>8, <1>9, <1>10, <1>11, <1>12, <1>13,
     <1>14, <1>15, <1>16, <1>17 DEF Next

\* What is shown is what is routed, when nothing is on its way and nothing is pending.
LEMMA ShownRoute == IInv /\ ShowInv => ShowsRoute
<1> SUFFICES ASSUME IInv, ShowInv, stage = "up", reports = <<>>,
                    NEW o \in IF kind = "xpoint" THEN Output ELSE {panel.out},
                    route[o] \in {0} \cup reals, Settled
             PROVE  Shows(o)
  BY DEF ShowsRoute
<1>1. \A x \in Output : xp[x] = route[x] /\ ~Pending(x)
  BY DEF ShowInv, Heard, Pending, Loading
<1>2. 1 \in Output /\ 0 \notin reals
  BY PanelAssumption DEF Output, Input, IInv, Typed
<1>3. CASE kind = "output"
  <2>1. o = 1
    BY <1>3 DEF ShowInv, ShowTyped
  <2> QED BY <1>1, <1>2, <1>3, <2>1 DEF ShowInv, OutputShows, Loading, Follows, Settled, Shows
<1>4. CASE kind = "xy"
  <2>1. o = panel.out /\ o \in Output
    BY <1>4 DEF ShowInv, ShowTyped
  <2> QED BY <1>1, <1>4, <2>1 DEF ShowInv, XyShows, Follows, Settled, Shows
<1>5. CASE kind = "xpoint"
  <2>1. panel.marks = KnownMarks(xp, reals, Output) /\ o \in Output
    BY <1>5 DEF ShowInv, MarksShow, Watched
  <2>2. {m \in panel.marks : m[1] = o} = {<<o, route[o]>>} \ {<<o, 0>>}
    BY <1>1, <1>2, <2>1 DEF KnownMarks
  <2> QED BY <1>5, <2>2 DEF Shows
<1>6. CASE kind \notin {"output", "xy", "xpoint"}
  <2>1. /\ panel.marks = KnownMarks(xp, reals, {1}) /\ o = 1
    BY <1>6 DEF ShowInv, MarksShow, Watched, ShowTyped, IInv, Typed
  <2>2. panel.marks = {<<o, route[o]>>} \ {<<o, 0>>}
    BY <1>1, <1>2, <2>1 DEF KnownMarks
  <2> QED BY <1>6, <2>2 DEF Shows
<1> QED BY <1>3, <1>4, <1>5, <1>6

\* When everything has arrived and no choice is pending, a panel shows the input that is
\* routed, if it was listed (changeOutputCrosspoint, outputCrosspointChangedData).
THEOREM RouteShown == Spec => []ShowsRoute
BY InitIInv, NextIInv, InitShow, NextShow, ShownRoute, PTL DEF Spec

-----------------------------------------------------------------------------
(* Endpoint maps: what a file holds and what is read of it.                *)

\* A function on the numbers from 0, of a list of n.
IsNumbering(f, n) == n \in Nat /\ DOMAIN f = 0 .. n - 1

\* There is a first number that a file has no section for.
LEMMA FirstMissing ==
  ASSUME NEW S, IsFiniteSet(S)
  PROVE  \E n \in 0 .. Cardinality(S) : 1 .. n \subseteq S /\ n + 1 \notin S
<1>1. PICK c \in Nat : c = Cardinality(S)
  BY FS_CardinalityType
<1> DEFINE missing == {n \in Nat : n + 1 \notin S}
<1>2. ASSUME NEW n \in Nat, 1 .. n \subseteq S PROVE n <= c
  <2>1. IsFiniteSet(1 .. n) /\ Cardinality(1 .. n) = n
    BY FS_Interval, 1 \in Int, n \in Int
  <2> QED BY <1>1, <1>2, <2>1, FS_Subset
<1>3. missing # {}
  <2> SUFFICES ASSUME \A n \in Nat : n + 1 \in S PROVE FALSE
    OBVIOUS
  <2>1. \A i \in 1 .. c + 1 : i - 1 \in Nat /\ i = (i - 1) + 1
    BY <1>1
  <2>2. 1 .. c + 1 \subseteq S
    BY <2>1
  <2> QED BY <1>1, <1>2, <2>2
<1>4. PICK n \in missing : \A y \in missing : <<y, n>> \notin OpToRel(<, Nat)
  <2>1. missing \subseteq Nat
    OBVIOUS
  <2> HIDE DEF missing
  <2> QED BY <1>3, <2>1, NatLessThanWellFounded, WFMin
<1>5. 1 .. n \subseteq S
  <2> SUFFICES ASSUME NEW i \in 1 .. n, i \notin S PROVE FALSE
    OBVIOUS
  <2>1. i - 1 \in Nat /\ (i - 1) + 1 = i /\ i - 1 < n /\ n \in Nat
    OBVIOUS
  <2>2. i - 1 \in missing
    BY <2>1
  <2> HIDE DEF missing
  <2> QED BY <1>4, <2>1, <2>2 DEF OpToRel
<1>6. n \in Nat /\ n + 1 \notin S /\ n <= c
  BY <1>2, <1>4, <1>5
<1> QED BY <1>1, <1>5, <1>6

\* load reads the sections before the first that is missing.
LEMMA RunFacts ==
  ASSUME NEW f, IsFiniteSet(DOMAIN f)
  PROVE  \E n \in Nat : /\ 1 .. n \subseteq DOMAIN f /\ n + 1 \notin DOMAIN f
                        /\ Run(f) = [i \in 0 .. n - 1 |-> f[i + 1]]
<1> DEFINE n == CHOOSE n \in 0 .. Cardinality(DOMAIN f) :
                  1 .. n \subseteq DOMAIN f /\ n + 1 \notin DOMAIN f
<1>1. /\ n \in 0 .. Cardinality(DOMAIN f)
      /\ 1 .. n \subseteq DOMAIN f /\ n + 1 \notin DOMAIN f
  BY FirstMissing
<1>2. Run(f) = [i \in 0 .. n - 1 |-> f[i + 1]]
  BY DEF Run
<1> HIDE DEF n
<1> QED BY <1>1, <1>2

\* All that was written in a row is read.
LEMMA RunWhole ==
  ASSUME NEW f, NEW n \in Nat, DOMAIN f = 1 .. n
  PROVE  /\ Run(f) = [i \in 0 .. n - 1 |-> f[i + 1]]
         /\ Quantity(Run(f)) = n /\ Quantity(f) = n
<1>1. IsFiniteSet(DOMAIN f) /\ Quantity(f) = n
  BY FS_Interval, 1 \in Int, n \in Int DEF Quantity
<1>2. PICK m \in Nat : /\ 1 .. m \subseteq DOMAIN f /\ m + 1 \notin DOMAIN f
                       /\ Run(f) = [i \in 0 .. m - 1 |-> f[i + 1]]
  BY <1>1, RunFacts
<1>3. m = n
  <2>1. m <= n
    <3> SUFFICES ASSUME m > n PROVE FALSE
      OBVIOUS
    <3>1. m \in 1 .. m
      OBVIOUS
    <3> QED BY <1>2, <3>1
  <2>2. ~ (m + 1 \in 1 .. n)
    BY <1>2
  <2> QED BY <2>1, <2>2
<1>4. Cardinality(0 .. n - 1) = n
  BY FS_Interval, 0 \in Int, n - 1 \in Int
<1> QED BY <1>1, <1>2, <1>3, <1>4 DEF Quantity

\* save numbers from 1 what a program numbers from 0.
LEMMA NumberedFacts ==
  ASSUME NEW f, NEW n, IsNumbering(f, n)
  PROVE  /\ DOMAIN Numbered(f) = 1 .. n
         /\ \A i \in 0 .. n - 1 : Numbered(f)[i + 1] = f[i]
         /\ Run(Numbered(f)) = [i \in 0 .. n - 1 |-> f[i]]
         /\ Quantity(Run(Numbered(f))) = Quantity(Numbered(f))
<1> n \in Nat /\ DOMAIN f = 0 .. n - 1
  BY DEF IsNumbering
<1>1. {j + 1 : j \in 0 .. n - 1} = 1 .. n
  <2>1. ASSUME NEW i \in 1 .. n PROVE \E j \in 0 .. n - 1 : i = j + 1
    <3>1. i - 1 \in 0 .. n - 1 /\ i = (i - 1) + 1
      OBVIOUS
    <3> QED BY <3>1
  <2>2. \A j \in 0 .. n - 1 : j + 1 \in 1 .. n
    OBVIOUS
  <2> QED BY <2>1, <2>2
<1>2. Numbered(f) = [i \in 1 .. n |-> f[i - 1]]
  BY <1>1 DEF Numbered, IsNumbering
<1>3. \A i \in 0 .. n - 1 : i + 1 \in 1 .. n /\ (i + 1) - 1 = i
  BY DEF IsNumbering
<1>4. \A i \in 0 .. n - 1 : Numbered(f)[i + 1] = f[i]
  BY <1>2, <1>3
<1>5. /\ Run(Numbered(f)) = [i \in 0 .. n - 1 |-> Numbered(f)[i + 1]]
      /\ Quantity(Run(Numbered(f))) = Quantity(Numbered(f))
  BY <1>2, RunWhole DEF IsNumbering
<1> QED BY <1>2, <1>4, <1>5

\* The values of a function of finitely many things are finitely many.
LEMMA FiniteImage ==
  ASSUME NEW S, IsFiniteSet(S), NEW f, DOMAIN f = S
  PROVE  IsFiniteSet({f[x] : x \in S})
<1> DEFINE T == {f[x] : x \in S}
           g == [x \in S |-> f[x]]
<1>1. g \in [S -> T] /\ \A y \in T : \E x \in S : g[x] = y
  OBVIOUS
<1>2. g \in Surjection(S, T)
  BY <1>1 DEF Surjection
<1> QED BY <1>2, FS_Surjection

\* dmap lists finitely many slots, of nodes it was not told to skip.
LEMMA SlotsFinite ==
  ASSUME NEW a, a \in Args, known \subseteq Host
  PROVE  /\ IsFiniteSet(SlotsOf(a))
         /\ \A x \in SlotsOf(a) : /\ x \in [host : Host, place : Nat, slot : Nat]
                                  /\ x.host \notin a.skip
<1>1. /\ a.use \in Seq(Host) /\ IsFiniteSet(Host) /\ Slots \in [Host -> Nat]
  BY EndPointMapAssumption
<1> DEFINE listed == IF a.use = <<>> THEN {[host |-> h, place |-> 0] : h \in known}
                                     ELSE {[host |-> a.use[i], place |-> i] : i \in DOMAIN a.use}
<1>2. IsFiniteSet(listed) /\ \A x \in listed : x \in [host : Host, place : Nat]
  <2>1. CASE a.use = <<>>
    <3> DEFINE f == [h \in known |-> [host |-> h, place |-> 0]]
    <3>1. IsFiniteSet(known)
      BY <1>1, FS_Subset
    <3>2. DOMAIN f = known /\ listed = {f[h] : h \in known}
      BY <2>1
    <3>3. \A x \in listed : x \in [host : Host, place : Nat]
      BY <2>1
    <3> HIDE DEF f, listed
    <3> QED BY <3>1, <3>2, <3>3, FiniteImage
  <2>2. CASE a.use # <<>>
    <3> DEFINE f == [i \in DOMAIN a.use |-> [host |-> a.use[i], place |-> i]]
    <3>1. PICK n \in Nat : DOMAIN a.use = 1 .. n
      BY <1>1
    <3>2. IsFiniteSet(DOMAIN a.use)
      BY <3>1, FS_Interval
    <3>3. DOMAIN f = DOMAIN a.use /\ listed = {f[i] : i \in DOMAIN a.use}
      BY <2>2
    <3>4. \A i \in DOMAIN a.use : a.use[i] \in Host /\ i \in Nat
      BY <1>1
    <3>5. \A x \in listed : x \in [host : Host, place : Nat]
      BY <2>2, <3>4
    <3> HIDE DEF f, listed
    <3> QED BY <3>2, <3>3, <3>5, FiniteImage
  <2> QED BY <2>1, <2>2
<1>3. Places(a) = {x \in listed : x.host \notin a.skip}
  BY DEF Places
<1> HIDE DEF listed
<1>4. /\ IsFiniteSet(Places(a))
      /\ \A x \in Places(a) : x \in [host : Host, place : Nat] /\ x.host \notin a.skip
  BY <1>2, <1>3, FS_Subset
<1> DEFINE slots == [x \in Places(a) |-> {[host |-> x.host, place |-> x.place, slot |-> s] :
                                           s \in 0 .. Slots[x.host] - 1}]
<1>5. ASSUME NEW x \in Places(a) PROVE IsFiniteSet(slots[x])
  <2> DEFINE f == [s \in 0 .. Slots[x.host] - 1 |->
                    [host |-> x.host, place |-> x.place, slot |-> s]]
  <2>1. x.host \in Host
    BY <1>4
  <2>2. IsFiniteSet(0 .. Slots[x.host] - 1)
    BY <1>1, <2>1, FS_Interval
  <2>3. DOMAIN f = 0 .. Slots[x.host] - 1
    OBVIOUS
  <2>4. slots[x] = {f[s] : s \in 0 .. Slots[x.host] - 1}
    OBVIOUS
  <2> HIDE DEF f
  <2>5. IsFiniteSet({f[s] : s \in 0 .. Slots[x.host] - 1})
    BY <2>2, <2>3, FiniteImage
  <2> QED BY <2>4, <2>5
<1>6. DOMAIN slots = Places(a) /\ SlotsOf(a) = UNION {slots[x] : x \in Places(a)}
  BY DEF SlotsOf
<1>7. \A x \in Places(a) : \A y \in slots[x] :
        y \in [host : Host, place : Nat, slot : Nat] /\ y.host \notin a.skip
  BY <1>1, <1>4
<1> HIDE DEF slots
<1>8. IsFiniteSet({slots[x] : x \in Places(a)})
  BY <1>4, <1>6, FiniteImage
<1>9. IsFiniteSet(SlotsOf(a))
  BY <1>5, <1>6, <1>8, FS_UNION
<1> QED BY <1>6, <1>7, <1>9

\* Slots come in one order.
LEMMA BeforeOrders ==
  ASSUME NEW S, S \subseteq [host : Nat, place : Nat, slot : Nat]
  PROVE  /\ \A x \in S : ~Before(x, x)
         /\ \A x, y \in S : x = y \/ Before(x, y) \/ Before(y, x)
         /\ \A x, y, z \in S : Before(x, y) /\ Before(y, z) => Before(x, z)
<1>1. \A x \in S : /\ x.host \in Nat /\ x.place \in Nat /\ x.slot \in Nat
                   /\ x = [host |-> x.host, place |-> x.place, slot |-> x.slot]
  OBVIOUS
<1>2. \A x \in S : ~Before(x, x)
  BY <1>1 DEF Before
<1>3. ASSUME NEW x \in S, NEW y \in S, ~Before(x, y), ~Before(y, x) PROVE x = y
  <2>1. x.host = y.host /\ x.place = y.place /\ x.slot = y.slot
    BY <1>1, <1>3 DEF Before
  <2> QED BY <1>1, <2>1
<1>4. \A x, y, z \in S : Before(x, y) /\ Before(y, z) => Before(x, z)
  BY <1>1 DEF Before
<1> QED BY <1>2, <1>3, <1>4

\* The list in order has all the slots, each once, and no others: as many come before
\* one as its number says.
LEMMA InOrderFacts ==
  ASSUME NEW S, IsFiniteSet(S), S \subseteq [host : Nat, place : Nat, slot : Nat]
  PROVE  /\ IsNumbering(InOrder(S), Cardinality(S))
         /\ \A i \in DOMAIN InOrder(S) : InOrder(S)[i] \in S
         /\ \A x \in S : \E i \in DOMAIN InOrder(S) : InOrder(S)[i] = x
<1> DEFINE below(x) == {y \in S : Before(y, x)}
           rank == [x \in S |-> Cardinality(below(x)) + 1]
           n == Cardinality(S)
<1>1. n \in Nat
  BY FS_CardinalityType
<1>2. ASSUME NEW x \in S
      PROVE  IsFiniteSet(below(x)) /\ Cardinality(below(x)) \in Nat /\ Cardinality(below(x)) < n
  <2>1. below(x) \in SUBSET S /\ below(x) # S
    BY BeforeOrders
  <2> HIDE DEF below
  <2>2. IsFiniteSet(below(x)) /\ Cardinality(below(x)) \in Nat
        /\ Cardinality(below(x)) <= n /\ Cardinality(below(x)) # n
    BY <1>1, <2>1, FS_Subset, FS_CardinalityType
  <2> QED BY <1>1, <2>2
<1>3. ASSUME NEW x \in S, NEW y \in S, Before(x, y)
      PROVE  rank[x] < rank[y]
  <2>a. \A z \in S : Before(z, x) => Before(z, y)
    BY <1>3, BeforeOrders
  <2>b. x \in below(y) /\ x \notin below(x)
    BY <1>3, BeforeOrders
  <2>1. below(x) \in SUBSET below(y) /\ below(x) # below(y)
    BY <2>a, <2>b
  <2> HIDE DEF below
  <2>2. /\ Cardinality(below(x)) <= Cardinality(below(y))
        /\ Cardinality(below(x)) # Cardinality(below(y))
    BY <1>2, <2>1, FS_Subset
  <2> QED BY <1>2, <2>2
<1>4. rank \in [S -> 1 .. n]
  <2> HIDE DEF below, n
  <2> QED BY <1>1, <1>2
<1>5. \A x, y \in S : rank[x] = rank[y] => x = y
  <2> SUFFICES ASSUME NEW x \in S, NEW y \in S, rank[x] = rank[y] PROVE x = y
    OBVIOUS
  <2>1. rank[x] \in 1 .. n /\ rank[y] \in 1 .. n
    BY <1>4
  <2> HIDE DEF rank
  <2>2. ~Before(x, y) /\ ~Before(y, x)
    BY <1>3, <2>1
  <2> QED BY <2>2, BeforeOrders
<1>6. \A k \in 1 .. n : \E x \in S : rank[x] = k
  <2> HIDE DEF rank, n
  <2>1. rank \in Injection(S, 1 .. n)
    BY <1>4, <1>5, Fun_IsInj
  <2>2. IsFiniteSet(1 .. n) /\ Cardinality(1 .. n) = n
    BY <1>1, FS_Interval
  <2>3. rank \in Surjection(S, 1 .. n)
    BY <2>1, <2>2, FS_Injection DEF n
  <2> QED BY <2>3 DEF Surjection
<1>7. DOMAIN InOrder(S) = 0 .. n - 1
  BY DEF InOrder
<1>8. ASSUME NEW i \in 0 .. n - 1
      PROVE  InOrder(S)[i] \in S /\ rank[InOrder(S)[i]] = i + 1
  <2>1. InOrder(S)[i] = CHOOSE x \in S : Cardinality(below(x)) = i
    BY DEF InOrder
  <2>2. \E x \in S : Cardinality(below(x)) = i
    <3>1. PICK x \in S : rank[x] = i + 1
      BY <1>1, <1>6
    <3>2. Cardinality(below(x)) = i
      <4> HIDE DEF below
      <4> QED BY <1>2, <3>1
    <3> QED BY <3>2
  <2> HIDE DEF below
  <2>3. InOrder(S)[i] \in S /\ Cardinality(below(InOrder(S)[i])) = i
    BY <2>1, <2>2
  <2> QED BY <2>3
<1>9. ASSUME NEW x \in S PROVE \E i \in 0 .. n - 1 : InOrder(S)[i] = x
  <2>1. rank[x] \in 1 .. n
    BY <1>4
  <2> HIDE DEF rank
  <2>2. rank[x] - 1 \in 0 .. n - 1 /\ (rank[x] - 1) + 1 = rank[x]
    BY <1>1, <2>1
  <2>3. InOrder(S)[rank[x] - 1] = x
    BY <1>5, <1>8, <2>2
  <2> QED BY <2>2, <2>3
<1> HIDE DEF rank, n
<1>10. IsNumbering(InOrder(S), n)
  BY <1>1, <1>7 DEF IsNumbering
<1> QED BY <1>7, <1>8, <1>9, <1>10 DEF n

\* What the program holds of a map: a name for every endpoint.
IsMap(m) ==
  /\ DOMAIN m = {"type", "name", "number", "ends", "names", "snaps"}
  /\ DOMAIN m.ends = Kind /\ DOMAIN m.names = Kind
  /\ \A k \in Kind : \E n \in Nat : IsNumbering(m.ends[k], n) /\ IsNumbering(m.names[k], n)
  /\ \A k \in Kind : \A i \in DOMAIN m.names[k] : DOMAIN m.names[k][i] = {"name", "custom"}

\* What is read of any file is a map.
LEMMA LoadIsMap ==
  ASSUME NEW t, IsText(t)
  PROVE  /\ IsMap(Load(t))
         /\ \A k \in Kind : \A i \in DOMAIN Load(t).ends[k] :
              /\ i + 1 \in DOMAIN t.entries[k]
              /\ Load(t).ends[k][i].slot = t.entries[k][i + 1].slot - 1
         /\ \A s \in DOMAIN Load(t).snaps :
              /\ s + 1 \in DOMAIN t.snaps
              /\ \A r \in Range(Load(t).snaps[s].routes) : r.output \in Nat /\ r.input \in Nat
<1> DEFINE m == Load(t)
<1>1. ASSUME NEW k \in Kind
      PROVE  \E n \in Nat :
               /\ 1 .. n \subseteq DOMAIN t.entries[k]
               /\ m.ends[k] = [i \in 0 .. n - 1 |->
                    [host |-> t.entries[k][i + 1].host, slot |-> t.entries[k][i + 1].slot - 1]]
               /\ m.names[k] = [i \in 0 .. n - 1 |->
                    [name |-> t.entries[k][i + 1].name, custom |-> t.entries[k][i + 1].named]]
  <2>1. IsFiniteSet(DOMAIN t.entries[k])
    BY DEF IsText
  <2>2. PICK n \in Nat : /\ 1 .. n \subseteq DOMAIN t.entries[k]
                         /\ Run(t.entries[k]) = [i \in 0 .. n - 1 |-> t.entries[k][i + 1]]
    BY <2>1, RunFacts
  <2>3. PICK r : r = Run(t.entries[k])
    OBVIOUS
  <2>4. /\ m.ends[k] = [i \in DOMAIN r |-> [host |-> r[i].host, slot |-> r[i].slot - 1]]
        /\ m.names[k] = [i \in DOMAIN r |-> [name |-> r[i].name, custom |-> r[i].named]]
    BY <2>3 DEF Load
  <2>5. DOMAIN r = 0 .. n - 1 /\ \A i \in 0 .. n - 1 : r[i] = t.entries[k][i + 1]
    BY <2>2, <2>3
  <2> HIDE DEF m
  <2>6. m.ends[k] = [i \in 0 .. n - 1 |->
          [host |-> t.entries[k][i + 1].host, slot |-> t.entries[k][i + 1].slot - 1]]
    BY <2>4, <2>5
  <2>7. m.names[k] = [i \in 0 .. n - 1 |->
          [name |-> t.entries[k][i + 1].name, custom |-> t.entries[k][i + 1].named]]
    BY <2>4, <2>5
  <2> QED BY <2>2, <2>6, <2>7
<1>2. /\ DOMAIN m = {"type", "name", "number", "ends", "names", "snaps"}
      /\ DOMAIN m.ends = Kind /\ DOMAIN m.names = Kind
  BY DEF Load
<1>3. IsFiniteSet(DOMAIN t.snaps)
  BY DEF IsText
<1>4. PICK p \in Nat : /\ 1 .. p \subseteq DOMAIN t.snaps
                       /\ Run(t.snaps) = [i \in 0 .. p - 1 |-> t.snaps[i + 1]]
  BY <1>3, RunFacts
<1>5. PICK q : q = Run(t.snaps)
  OBVIOUS
<1>6. m.snaps = [i \in DOMAIN q |-> [name |-> q[i].name, routes |-> Run(q[i].routes)]]
  BY <1>5 DEF Load
<1>7. DOMAIN q = 0 .. p - 1 /\ \A i \in 0 .. p - 1 : q[i] = t.snaps[i + 1]
  BY <1>4, <1>5
<1>8. ASSUME NEW s \in DOMAIN m.snaps
      PROVE  /\ s + 1 \in DOMAIN t.snaps
             /\ m.snaps[s].routes = Run(t.snaps[s + 1].routes)
  <2> HIDE DEF m
  <2>1. s \in 0 .. p - 1
    BY <1>6, <1>7
  <2>2. s + 1 \in 1 .. p
    BY <2>1
  <2>3. m.snaps[s].routes = Run(q[s].routes)
    BY <1>6
  <2> QED BY <1>4, <1>7, <2>1, <2>2, <2>3
<1> HIDE DEF m
<1>9. ASSUME NEW s \in DOMAIN m.snaps, NEW r \in Range(m.snaps[s].routes)
      PROVE  r.output \in Nat /\ r.input \in Nat
  <2>1. PICK f : f = t.snaps[s + 1].routes
    OBVIOUS
  <2>2. IsFiniteSet(DOMAIN f) /\ \A x \in DOMAIN f : f[x].output \in Nat /\ f[x].input \in Nat
    BY <1>8, <2>1 DEF IsText
  <2>3. PICK n \in Nat : /\ 1 .. n \subseteq DOMAIN f
                         /\ Run(f) = [i \in 0 .. n - 1 |-> f[i + 1]]
    BY <2>2, RunFacts
  <2>4. PICK i \in 0 .. n - 1 : r = f[i + 1]
    BY <1>8, <1>9, <2>1, <2>3 DEF Range
  <2>5. i + 1 \in 1 .. n
    OBVIOUS
  <2> QED BY <2>2, <2>3, <2>4, <2>5
<1>10. IsMap(m)
  <2>1. ASSUME NEW k \in Kind
        PROVE  /\ \E n \in Nat : IsNumbering(m.ends[k], n) /\ IsNumbering(m.names[k], n)
               /\ \A i \in DOMAIN m.names[k] : DOMAIN m.names[k][i] = {"name", "custom"}
    <3>1. PICK n \in Nat :
            /\ m.ends[k] = [i \in 0 .. n - 1 |->
                 [host |-> t.entries[k][i + 1].host, slot |-> t.entries[k][i + 1].slot - 1]]
            /\ m.names[k] = [i \in 0 .. n - 1 |->
                 [name |-> t.entries[k][i + 1].name, custom |-> t.entries[k][i + 1].named]]
      BY <1>1
    <3>2. DOMAIN m.ends[k] = 0 .. n - 1 /\ DOMAIN m.names[k] = 0 .. n - 1
      BY <3>1
    <3>3. \A i \in 0 .. n - 1 :
            m.names[k][i] = [name |-> t.entries[k][i + 1].name,
                             custom |-> t.entries[k][i + 1].named]
      BY <3>1
    <3>4. ASSUME NEW i \in 0 .. n - 1 PROVE DOMAIN m.names[k][i] = {"name", "custom"}
      <4>1. PICK e : e = t.entries[k][i + 1]
        OBVIOUS
      <4>2. m.names[k][i] = [name |-> e.name, custom |-> e.named]
        BY <3>3, <4>1
      <4>3. DOMAIN [name |-> e.name, custom |-> e.named] = {"name", "custom"}
        OBVIOUS
      <4> QED BY <4>2, <4>3
    <3>5. IsNumbering(m.ends[k], n) /\ IsNumbering(m.names[k], n)
      BY <3>2 DEF IsNumbering
    <3> QED BY <3>2, <3>4, <3>5
  <2> QED BY <1>2, <2>1 DEF IsMap
<1>11. ASSUME NEW k \in Kind, NEW i \in DOMAIN m.ends[k]
       PROVE  /\ i + 1 \in DOMAIN t.entries[k]
              /\ m.ends[k][i].slot = t.entries[k][i + 1].slot - 1
  <2>1. PICK n \in Nat :
          /\ 1 .. n \subseteq DOMAIN t.entries[k]
          /\ m.ends[k] = [j \in 0 .. n - 1 |->
               [host |-> t.entries[k][j + 1].host, slot |-> t.entries[k][j + 1].slot - 1]]
    BY <1>1
  <2>2. i \in 0 .. n - 1 /\ i + 1 \in 1 .. n
    BY <2>1
  <2> QED BY <2>1, <2>2
<1> QED BY <1>8, <1>9, <1>10, <1>11 DEF m

\* A map as dmap makes it: inputs and outputs alike, none of a node that was to be skipped.
IsMade(m, a) ==
  \E n \in Nat : \E e \in [0 .. n - 1 -> [host : Host, slot : Nat]] : \E c :
    /\ m = [type  |-> a.type, name |-> a.name, number |-> a.number - 1,
            ends  |-> [k \in Kind |-> e], names |-> [k \in Kind |-> c], snaps |-> Empty]
    /\ \A i \in 0 .. n - 1 : e[i].host \notin a.skip
    /\ DOMAIN c = 0 .. n - 1
    /\ \A i \in 0 .. n - 1 : c[i] = [name |-> c[i].name, custom |-> TRUE]

LEMMA MadeIsMade ==
  ASSUME NEW a \in Args, known \subseteq Host
  PROVE  IsMade(Made(a), a)
<1> DEFINE e == EndPoints(SlotsOf(a))
           c == [i \in DOMAIN e |-> [name |-> MadeName(a.type, e[i]), custom |-> TRUE]]
<1>1. /\ IsFiniteSet(SlotsOf(a))
      /\ \A x \in SlotsOf(a) : /\ x \in [host : Host, place : Nat, slot : Nat]
                               /\ x.host \notin a.skip
  BY SlotsFinite
<1>2. SlotsOf(a) \subseteq [host : Nat, place : Nat, slot : Nat]
  <2>1. Host \subseteq Nat
    BY EndPointMapAssumption
  <2> QED BY <1>1, <2>1
<1>3. PICK n \in Nat : DOMAIN InOrder(SlotsOf(a)) = 0 .. n - 1
  BY <1>1, <1>2, InOrderFacts DEF IsNumbering
<1>4. \A i \in 0 .. n - 1 : InOrder(SlotsOf(a))[i] \in SlotsOf(a)
  BY <1>1, <1>2, <1>3, InOrderFacts
<1>5. e = [i \in 0 .. n - 1 |-> [host |-> InOrder(SlotsOf(a))[i].host,
                                 slot |-> InOrder(SlotsOf(a))[i].slot]]
  BY <1>3 DEF EndPoints
<1>6. /\ e \in [0 .. n - 1 -> [host : Host, slot : Nat]]
      /\ \A i \in 0 .. n - 1 : e[i].host \notin a.skip
  <2> HIDE DEF e
  <2>1. ASSUME NEW i \in 0 .. n - 1
        PROVE  e[i] \in [host : Host, slot : Nat] /\ e[i].host \notin a.skip
    BY <1>1, <1>4, <1>5
  <2>2. e = [i \in 0 .. n - 1 |-> e[i]]
    BY <1>5
  <2> QED BY <2>1, <2>2
<1>7. Made(a) = [type  |-> a.type, name |-> a.name, number |-> a.number - 1,
                 ends  |-> [k \in Kind |-> e], names |-> [k \in Kind |-> c], snaps |-> Empty]
  BY DEF Made
<1>8. DOMAIN e = 0 .. n - 1
  BY <1>6
<1> HIDE DEF e
<1>9. DOMAIN c = 0 .. n - 1 /\ \A i \in 0 .. n - 1 : c[i] = [name |-> c[i].name, custom |-> TRUE]
  BY <1>8
<1> HIDE DEF c
<1> QED BY <1>6, <1>7, <1>9 DEF IsMade

\* What load has to read of a file that dmap wrote.
Reads(t, m, a) ==
  /\ ~Unused(t)
  /\ Load(t).type = m.type /\ Load(t).name = m.name /\ Load(t).number = m.number
  /\ Load(t).ends = m.ends
  /\ \A k \in Kind : \A i \in DOMAIN Load(t).names[k] :
       IF a.names THEN Load(t).names[k][i] = m.names[k][i] ELSE ~Load(t).names[k][i].custom
  /\ \A k \in Kind : \A i \in DOMAIN m.ends[k] : m.ends[k][i].host \notin a.skip

\* A file without snapshots, as all that dmap writes are.
IsPlain(t) == IsText(t) /\ DOMAIN t.snaps = {}

\* load reads what save wrote: the numbers from 1 become numbers from 0 again, and
\* nothing is left over.
LEMMA SavedReads ==
  ASSUME NEW a \in Args, NEW m, IsMade(m, a)
  PROVE  /\ Reads(Save(m, a.names), m, a)
         /\ IsPlain(Save(m, a.names)) /\ IsPlain(Torn(Save(m, a.names)))
<1> DEFINE t == Save(m, a.names)
<1>1. PICK n \in Nat : \E e \in [0 .. n - 1 -> [host : Host, slot : Nat]] : \E c :
        /\ m = [type  |-> a.type, name |-> a.name, number |-> a.number - 1,
                ends  |-> [k \in Kind |-> e], names |-> [k \in Kind |-> c], snaps |-> Empty]
        /\ \A i \in 0 .. n - 1 : e[i].host \notin a.skip
        /\ DOMAIN c = 0 .. n - 1
        /\ \A i \in 0 .. n - 1 : c[i] = [name |-> c[i].name, custom |-> TRUE]
  BY DEF IsMade
<1>2. PICK e \in [0 .. n - 1 -> [host : Host, slot : Nat]] : \E c :
        /\ m = [type  |-> a.type, name |-> a.name, number |-> a.number - 1,
                ends  |-> [k \in Kind |-> e], names |-> [k \in Kind |-> c], snaps |-> Empty]
        /\ \A i \in 0 .. n - 1 : e[i].host \notin a.skip
        /\ DOMAIN c = 0 .. n - 1
        /\ \A i \in 0 .. n - 1 : c[i] = [name |-> c[i].name, custom |-> TRUE]
  BY <1>1
<1>3. PICK c :
        /\ m = [type  |-> a.type, name |-> a.name, number |-> a.number - 1,
                ends  |-> [k \in Kind |-> e], names |-> [k \in Kind |-> c], snaps |-> Empty]
        /\ \A i \in 0 .. n - 1 : e[i].host \notin a.skip
        /\ DOMAIN c = 0 .. n - 1
        /\ \A i \in 0 .. n - 1 : c[i] = [name |-> c[i].name, custom |-> TRUE]
  BY <1>2
<1>4. a.names \in BOOLEAN /\ a.number \in Int
  BY EndPointMapAssumption
<1>5. /\ m.type = a.type /\ m.name = a.name /\ m.number = a.number - 1
      /\ m.ends = [k \in Kind |-> e] /\ m.names = [k \in Kind |-> c] /\ m.snaps = Empty
  BY <1>3
<1> DEFINE g == [i \in 0 .. n - 1 |->
                  [host |-> e[i].host, slot |-> e[i].slot + 1, named |-> a.names,
                   name |-> IF a.names THEN c[i].name ELSE <<>>]]
<1>6. ASSUME NEW k \in Kind PROVE t.entries[k] = Numbered(g)
  <2>1. DOMAIN m.ends[k] = 0 .. n - 1 /\ m.ends[k] = e /\ m.names[k] = c
    BY <1>5
  <2>2. t.entries[k] = Numbered(
          [i \in DOMAIN m.ends[k] |->
            [host  |-> m.ends[k][i].host, slot |-> m.ends[k][i].slot + 1,
             named |-> a.names,
             name  |-> IF a.names THEN m.names[k][i].name ELSE <<>>]])
    BY DEF Save
  <2> QED BY <2>1, <2>2
<1>7. IsNumbering(g, n)
  BY DEF IsNumbering
<1>8. PICK u : u = Numbered(g)
  OBVIOUS
<1>9. /\ DOMAIN u = 1 .. n
      /\ \A i \in 0 .. n - 1 : u[i + 1] = g[i]
      /\ Run(u) = [i \in 0 .. n - 1 |-> g[i]]
      /\ Quantity(Run(u)) = Quantity(u)
  <2> HIDE DEF g
  <2> QED BY <1>7, <1>8, NumberedFacts
<1>10. t.snaps = Empty /\ DOMAIN t.entries = Kind
  <2>1. t.snaps = Numbered([s \in {} |-> [m.snaps[s] EXCEPT !.routes = Numbered(@)]])
    <3>1. DOMAIN m.snaps = {}
      BY <1>5 DEF Empty
    <3> QED BY <3>1 DEF Save
  <2>2. ASSUME NEW f, DOMAIN f = {} PROVE Numbered(f) = Empty
    BY <2>2 DEF Numbered, Empty
  <2> QED BY <2>1, <2>2 DEF Save
<1>11. /\ t.type = m.type /\ t.name = m.name /\ t.number = m.number + 1
       /\ DOMAIN t = {"type", "name", "number", "entries", "snaps"}
  BY DEF Save
<1> HIDE DEF t
<1>12. \A k \in Kind : t.entries[k] = u
  BY <1>6, <1>8
<1>13. \A i \in 0 .. n - 1 :
         /\ g[i].host = e[i].host /\ g[i].slot = e[i].slot + 1 /\ g[i].named = a.names
         /\ g[i].name = IF a.names THEN c[i].name ELSE <<>>
  OBVIOUS
<1> HIDE DEF g
<1>14. DOMAIN Run(u) = 0 .. n - 1 /\ \A i \in 0 .. n - 1 : Run(u)[i] = g[i]
  BY <1>9
<1>15. PICK w : w = Run(u)
  OBVIOUS
<1>16. Load(t).ends = m.ends
  <2>1. \A i \in 0 .. n - 1 : e[i] \in [host : Host, slot : Nat]
    OBVIOUS
  <2>2. ASSUME NEW i \in 0 .. n - 1
        PROVE  [host |-> w[i].host, slot |-> w[i].slot - 1] = e[i]
    <3>1. e[i].slot \in Nat /\ e[i] = [host |-> e[i].host, slot |-> e[i].slot]
      BY <2>1
    <3>2. w[i].host = e[i].host /\ w[i].slot = e[i].slot + 1
      BY <1>13, <1>14, <1>15
    <3>3. (e[i].slot + 1) - 1 = e[i].slot
      BY <3>1
    <3> QED BY <3>1, <3>2, <3>3
  <2>3. [i \in DOMAIN w |-> [host |-> w[i].host, slot |-> w[i].slot - 1]] = e
    <3>1. e = [i \in 0 .. n - 1 |-> e[i]]
      OBVIOUS
    <3> QED BY <1>14, <1>15, <2>2, <3>1
  <2>4. Load(t).ends = [k \in Kind |->
          [i \in DOMAIN Run(t.entries[k]) |->
            [host |-> Run(t.entries[k])[i].host, slot |-> Run(t.entries[k])[i].slot - 1]]]
    BY DEF Load
  <2>5. Load(t).ends = [k \in Kind |-> e]
    BY <1>12, <1>15, <2>3, <2>4
  <2> QED BY <1>5, <2>5
<1>17. ASSUME NEW k \in Kind, NEW i \in DOMAIN Load(t).names[k]
       PROVE  IF a.names THEN Load(t).names[k][i] = m.names[k][i]
                         ELSE ~Load(t).names[k][i].custom
  <2>1. Load(t).names[k] = [j \in DOMAIN w |-> [name |-> w[j].name, custom |-> w[j].named]]
    BY <1>12, <1>15 DEF Load
  <2>2. i \in 0 .. n - 1
    BY <1>14, <1>15, <2>1
  <2>3. Load(t).names[k][i] = [name |-> w[i].name, custom |-> w[i].named]
    BY <1>14, <1>15, <2>1, <2>2
  <2>4. w[i].name = (IF a.names THEN c[i].name ELSE <<>>) /\ w[i].named = a.names
    BY <1>13, <1>14, <1>15, <2>2
  <2>5. m.names[k] = c /\ c[i] = [name |-> c[i].name, custom |-> TRUE]
    BY <1>3, <1>5, <2>2
  <2>6. CASE a.names = TRUE
    <3>1. w[i].name = c[i].name /\ w[i].named = TRUE
      BY <2>4, <2>6
    <3> QED BY <2>3, <2>5, <2>6, <3>1
  <2>7. CASE a.names = FALSE
    <3>1. w[i].named = FALSE
      BY <2>4, <2>7
    <3>2. Load(t).names[k][i].custom = FALSE
      BY <2>3, <3>1
    <3> QED BY <2>7, <3>2
  <2> QED BY <1>4, <2>6, <2>7
<1>18. Load(t).type = m.type /\ Load(t).name = m.name /\ Load(t).number = m.number
  <2>1. Load(t).type = t.type /\ Load(t).name = t.name /\ Load(t).number = t.number - 1
    BY DEF Load
  <2> QED BY <1>4, <1>5, <1>11, <2>1
<1>19. ~Unused(t)
  <2>1. Quantity(Run(t.snaps)) = Quantity(t.snaps) /\ DOMAIN t.snaps = {}
    <3>1. DOMAIN Empty = 1 .. 0
      BY DEF Empty
    <3>2. Quantity(Run(Empty)) = 0 /\ Quantity(Empty) = 0
      BY <3>1, RunWhole, 0 \in Nat
    <3> QED BY <1>10, <3>1, <3>2
  <2> QED BY <1>9, <1>12, <2>1 DEF Unused
<1>20. \A k \in Kind : \A i \in DOMAIN m.ends[k] : m.ends[k][i].host \notin a.skip
  BY <1>3, <1>5
<1>21. Reads(t, m, a)
  BY <1>16, <1>17, <1>18, <1>19, <1>20 DEF Reads
<1>22. DOMAIN t.snaps = {}
  BY <1>10 DEF Empty
<1>23. IsFiniteSet(DOMAIN u) /\ \A i \in DOMAIN u : u[i].slot \in Int
  <2>1. \A i \in 1 .. n : i - 1 \in 0 .. n - 1 /\ (i - 1) + 1 = i
    OBVIOUS
  <2>2. \A i \in 1 .. n : u[i] = g[i - 1]
    BY <1>9, <2>1
  <2>3. \A i \in 1 .. n : u[i].slot = e[i - 1].slot + 1
    BY <1>13, <2>1, <2>2
  <2>4. \A i \in 1 .. n : e[i - 1] \in [host : Host, slot : Nat]
    BY <2>1
  <2>5. \A i \in 1 .. n : u[i].slot \in Int
    BY <2>3, <2>4
  <2> QED BY <1>9, <2>5, FS_Interval, 1 \in Int, n \in Int
<1>24. IsPlain(t)
  BY <1>12, <1>22, <1>23, FS_EmptySet DEF IsPlain, IsText
<1>25. IsPlain(Torn(t))
  <2>1. /\ Torn(t).snaps = Empty
        /\ Torn(t).entries = [t.entries EXCEPT !["Output"] = Empty]
    BY <1>11 DEF Torn
  <2>2. DOMAIN Empty = {}
    BY DEF Empty
  <2>3. \A k \in Kind : Torn(t).entries[k] = u \/ Torn(t).entries[k] = Empty
    BY <1>10, <1>12, <2>1
  <2> QED BY <1>23, <2>1, <2>2, <2>3, FS_EmptySet DEF IsPlain, IsText
<1> QED BY <1>21, <1>24, <1>25 DEF t

-----------------------------------------------------------------------------
(* Endpoint maps: what dmap has finished.                                  *)

\* A file is one that someone wrote by hand, or one of dmap's.
IsFile(t) == t = NoFile \/ IsPlain(t) \/ t \in Hand

\* A running dmap: what it writes is the map it made, and a temporary file that had
\* room holds all of it.
IsJob(j, d) ==
  \/ j = Idle
  \/ \E a \in Args : j = [stage |-> "connecting", args |-> a]
  \/ \E a \in Args : \E m :
       /\ IsMade(m, a)
       /\ \/ j = [stage |-> "made", args |-> a, map |-> m]
          \/ j = [stage |-> "open", args |-> a, map |-> m]
          \/ j = [stage |-> "written", args |-> a, map |-> m, torn |-> TRUE]
          \/ /\ j = [stage |-> "written", args |-> a, map |-> m, torn |-> FALSE]
             /\ d[TempName(a.file)] = Save(m, a.names)

\* A file of which it is known that dmap finished it holds what dmap made.
IsOrigin(o, t) ==
  \/ o = NoFile
  \/ \E a \in Args : \E m : /\ IsMade(m, a)
                            /\ o = [type |-> "made", map |-> m, args |-> a]
                            /\ t = Save(m, a.names)

FilesInv ==
  /\ known \subseteq Host
  /\ DOMAIN dir = File \X {"map", "temp"}
  /\ \A x \in File \X {"map", "temp"} : IsFile(dir[x])
  /\ IsJob(job, dir)
  /\ DOMAIN origin = File
  /\ \A f \in File : IsOrigin(origin[f], dir[<<f, "map">>])

\* The files say what ReadsBack promises.
LEMMA FilesReadBack ==
  ASSUME FilesInv PROVE ReadsBack
<1> SUFFICES ASSUME NEW f \in File, origin[f].type = "made"
             PROVE  LET o == origin[f]
                        t == dir[<<f, "map">>]
                        m == Load(t)
                    IN /\ ~Unused(t)
                       /\ m.type = o.map.type /\ m.name = o.map.name
                       /\ m.number = o.map.number /\ m.ends = o.map.ends
                       /\ \A k \in Kind : \A i \in DOMAIN m.names[k] :
                            IF o.args.names THEN m.names[k][i] = o.map.names[k][i]
                                            ELSE ~m.names[k][i].custom
                       /\ \A k \in Kind : \A i \in DOMAIN m.ends[k] :
                            m.ends[k][i].host \notin o.args.skip
  BY DEF ReadsBack
<1>1. origin[f] # NoFile
  BY DEF NoFile
<1>2. PICK a \in Args : \E m : /\ IsMade(m, a)
                               /\ origin[f] = [type |-> "made", map |-> m, args |-> a]
                               /\ dir[<<f, "map">>] = Save(m, a.names)
  BY <1>1 DEF FilesInv, IsOrigin
<1>3. PICK m : /\ IsMade(m, a)
               /\ origin[f] = [type |-> "made", map |-> m, args |-> a]
               /\ dir[<<f, "map">>] = Save(m, a.names)
  BY <1>2
<1>4. Reads(dir[<<f, "map">>], m, a)
  BY <1>3, SavedReads
<1>5. origin[f].map = m /\ origin[f].args = a
  BY <1>3
<1>6. Load(dir[<<f, "map">>]).ends = m.ends
  BY <1>4 DEF Reads
<1> QED BY <1>4, <1>5, <1>6 DEF Reads

LEMMA FilesSame ==
  ASSUME FilesInv, UNCHANGED files, known' \subseteq Host PROVE FilesInv'
BY DEF FilesInv, files, IsJob, IsOrigin, IsFile

\* The job ends or goes on, and no file changes.
LEMMA JobStep ==
  ASSUME FilesInv, UNCHANGED <<dir, origin>>, known' \subseteq Host, IsJob(job', dir)
  PROVE  FilesInv'
BY DEF FilesInv, IsJob, IsOrigin, IsFile

\* The temporary file of the running job is written.
LEMMA TempStep ==
  ASSUME FilesInv, UNCHANGED <<origin, known>>, IsJob(job', dir'),
         NEW f \in File, NEW t, IsFile(t), dir' = [dir EXCEPT ![<<f, "temp">>] = t]
  PROVE  FilesInv'
<1>1. DOMAIN dir' = File \X {"map", "temp"}
  BY DEF FilesInv
<1>2. \A x \in File \X {"map", "temp"} : dir'[x] = t \/ dir'[x] = dir[x]
  BY DEF FilesInv
<1>3. \A g \in File : dir'[<<g, "map">>] = dir[<<g, "map">>]
  BY DEF FilesInv
<1>4. \A x \in File \X {"map", "temp"} : IsFile(dir'[x])
  BY <1>2 DEF FilesInv
<1>5. \A g \in File : IsOrigin(origin'[g], dir'[<<g, "map">>])
  BY <1>3 DEF FilesInv
<1> QED BY <1>1, <1>4, <1>5 DEF FilesInv, IsFile, IsJob, IsOrigin

\* The temporary file becomes the map file, or someone writes the map file; a job that
\* runs and its temporary file are not touched by that.
LEMMA MapStep ==
  ASSUME FilesInv, UNCHANGED known, NEW f \in File, NEW t, IsFile(t), NEW o, IsOrigin(o, t),
         origin' = [origin EXCEPT ![f] = o],
         \/ job' = Idle /\ dir' = [dir EXCEPT ![<<f, "map">>] = t, ![<<f, "temp">>] = NoFile]
         \/ job' = job /\ dir' = [dir EXCEPT ![<<f, "map">>] = t]
  PROVE  FilesInv'
<1>1. DOMAIN dir' = File \X {"map", "temp"} /\ DOMAIN origin' = File
  BY DEF FilesInv
<1>2. \A x \in File \X {"map", "temp"} : dir'[x] = t \/ dir'[x] = dir[x] \/ dir'[x] = NoFile
  BY DEF FilesInv
<1>3. \A g \in File : \/ g = f /\ dir'[<<g, "map">>] = t /\ origin'[g] = o
                      \/ dir'[<<g, "map">>] = dir[<<g, "map">>] /\ origin'[g] = origin[g]
  BY DEF FilesInv
<1>4. \A x \in File \X {"map", "temp"} : IsFile(dir'[x])
  BY <1>2 DEF FilesInv, IsFile
<1>5. \A g \in File : IsOrigin(origin'[g], dir'[<<g, "map">>])
  BY <1>3 DEF FilesInv
<1>6. IsJob(job', dir')
  <2>1. CASE job' = Idle
    BY <2>1 DEF IsJob
  <2>2. CASE job' = job /\ dir' = [dir EXCEPT ![<<f, "map">>] = t]
    <3>1. \A a \in Args : dir'[TempName(a.file)] = dir[TempName(a.file)]
      <4>1. \A a \in Args : a.file \in File
        BY EndPointMapAssumption
      <4> QED BY <2>2, <4>1 DEF FilesInv, TempName
    <3> QED BY <2>2, <3>1 DEF FilesInv, IsJob
  <2> QED BY <2>1, <2>2
<1> QED BY <1>1, <1>4, <1>5, <1>6 DEF FilesInv, IsFile, IsJob, IsOrigin

LEMMA FilesInit ==
  MapsInit => FilesInv
BY DEF MapsInit, FilesInv, IsFile, IsJob, IsOrigin

LEMMA FilesStep ==
  ASSUME FilesInv, [MapsNext]_mapsVars PROVE FilesInv'
<1> USE DEF mapsVars, files, coreVs, saVs
<1>1. ASSUME NEW f \in File, NEW t \in Hand, Edit(f, t) PROVE FilesInv'
  <2>1. IsFile(t) /\ IsOrigin(NoFile, t)
    BY DEF IsFile, IsOrigin
  <2> QED BY <1>1, <2>1, MapStep DEF Edit
<1>2. ASSUME NEW a \in Args, Generate(a) PROVE FilesInv'
  <2>1. IsJob(job', dir)
    BY <1>2 DEF Generate, IsJob
  <2> QED BY <1>2, <2>1, JobStep DEF Generate, FilesInv
<1>3. ASSUME Connected PROVE FilesInv'
  <2>1. IsJob(job', dir)
    <3>1. PICK a \in Args : job = [stage |-> "connecting", args |-> a]
      BY <1>3 DEF Connected, FilesInv, IsJob, Idle
    <3>2. job.args = a
      BY <3>1
    <3>3. IsMade(Made(a), a)
      BY MadeIsMade DEF FilesInv
    <3>4. job' = Idle \/ job' = [stage |-> "made", args |-> a, map |-> Made(a)]
      BY <1>3, <3>2 DEF Connected
    <3> QED BY <3>3, <3>4 DEF IsJob
  <2> QED BY <1>3, <2>1, JobStep DEF Connected, FilesInv
<1>4. ASSUME SaveOpen PROVE FilesInv'
  <2>1. PICK a \in Args : \E m : IsMade(m, a) /\ job = [stage |-> "made", args |-> a, map |-> m]
    BY <1>4 DEF SaveOpen, FilesInv, IsJob, Idle
  <2>2. PICK m : IsMade(m, a) /\ job = [stage |-> "made", args |-> a, map |-> m]
    BY <2>1
  <2>3. job' = [stage |-> "open", args |-> a, map |-> m]
    BY <1>4, <2>2 DEF SaveOpen
  <2>4. IsJob(job', dir')
    BY <2>2, <2>3 DEF IsJob
  <2>5. IsFile(Torn(Save(m, a.names)))
    BY <2>2, SavedReads DEF IsFile
  <2>6. a.file \in File
    BY EndPointMapAssumption
  <2>7. dir' = [dir EXCEPT ![<<a.file, "temp">>] = Torn(Save(m, a.names))]
    <3>1. job.args = a /\ job.map = m
      BY <2>2
    <3> QED BY <1>4, <3>1 DEF SaveOpen, TempName
  <2> QED BY <1>4, <2>4, <2>5, <2>6, <2>7, TempStep DEF SaveOpen
<1>5. ASSUME NEW room \in BOOLEAN, SaveWrite(room) PROVE FilesInv'
  <2>1. PICK a \in Args : \E m : IsMade(m, a) /\ job = [stage |-> "open", args |-> a, map |-> m]
    BY <1>5 DEF SaveWrite, FilesInv, IsJob, Idle
  <2>2. PICK m : IsMade(m, a) /\ job = [stage |-> "open", args |-> a, map |-> m]
    BY <2>1
  <2>3. job.args = a /\ job.map = m
    BY <2>2
  <2>4. a.file \in File
    BY EndPointMapAssumption
  <2>5. IsFile(Save(m, a.names)) /\ IsFile(Torn(Save(m, a.names)))
    BY <2>2, SavedReads DEF IsFile
  <2>6. CASE room = TRUE
    <3>1. /\ job' = [stage |-> "written", args |-> a, map |-> m, torn |-> FALSE]
          /\ dir' = [dir EXCEPT ![<<a.file, "temp">>] = Save(m, a.names)]
      BY <1>5, <2>3, <2>6 DEF SaveWrite, TempName
    <3>2. dir'[TempName(a.file)] = Save(m, a.names)
      BY <2>4, <3>1 DEF FilesInv, TempName
    <3>3. IsJob(job', dir')
      BY <2>2, <3>1, <3>2 DEF IsJob
    <3> QED BY <1>5, <2>4, <2>5, <3>1, <3>3, TempStep DEF SaveWrite
  <2>7. CASE room = FALSE
    <3>1. /\ job' = [stage |-> "written", args |-> a, map |-> m, torn |-> TRUE]
          /\ dir' = [dir EXCEPT ![<<a.file, "temp">>] = Torn(Save(m, a.names))]
      BY <1>5, <2>3, <2>7 DEF SaveWrite, TempName
    <3>3. IsJob(job', dir')
      BY <2>2, <3>1 DEF IsJob
    <3> QED BY <1>5, <2>4, <2>5, <3>1, <3>3, TempStep DEF SaveWrite
  <2> QED BY <2>6, <2>7
<1>6. ASSUME SaveRename PROVE FilesInv'
  <2>1. PICK a \in Args : \E m :
          /\ IsMade(m, a)
          /\ \/ job = [stage |-> "written", args |-> a, map |-> m, torn |-> TRUE]
             \/ /\ job = [stage |-> "written", args |-> a, map |-> m, torn |-> FALSE]
                /\ dir[TempName(a.file)] = Save(m, a.names)
    BY <1>6 DEF SaveRename, FilesInv, IsJob, Idle
  <2>2. PICK m :
          /\ IsMade(m, a)
          /\ \/ job = [stage |-> "written", args |-> a, map |-> m, torn |-> TRUE]
             \/ /\ job = [stage |-> "written", args |-> a, map |-> m, torn |-> FALSE]
                /\ dir[TempName(a.file)] = Save(m, a.names)
    BY <2>1
  <2>3. job.args = a /\ job.map = m
    BY <2>2
  <2>4. a.file \in File
    BY EndPointMapAssumption
  <2>5. PICK t : t = dir[TempName(a.file)]
    OBVIOUS
  <2>6. IsFile(t)
    BY <2>4, <2>5 DEF FilesInv, TempName
  <2>7. PICK o : o = IF job.torn THEN NoFile ELSE [type |-> "made", map |-> m, args |-> a]
    OBVIOUS
  <2>8. IsOrigin(o, t)
    BY <2>2, <2>5, <2>7 DEF IsOrigin
  <2>9. /\ origin' = [origin EXCEPT ![a.file] = o]
        /\ dir' = [dir EXCEPT ![<<a.file, "map">>] = t, ![<<a.file, "temp">>] = NoFile]
        /\ job' = Idle
    BY <1>6, <2>3, <2>5, <2>7 DEF SaveRename
  <2> QED BY <1>6, <2>4, <2>6, <2>8, <2>9, MapStep DEF SaveRename
<1>7. ASSUME Interrupted PROVE FilesInv'
  BY <1>7, JobStep DEF Interrupted, FilesInv, IsJob
<1>8. ASSUME Ends PROVE FilesInv'
  <2>1. IsJob(job', dir)
    BY <1>8 DEF Ends, FilesInv, IsJob
  <2> QED BY <1>8, <2>1, JobStep DEF Ends
<1>9. ASSUME NEW h \in Host, NodeConnected(h) PROVE FilesInv'
  BY <1>9, FilesSame DEF NodeConnected, FilesInv
<1>10. ASSUME NEW h \in Host, NodeDisconnected(h) PROVE FilesInv'
  BY <1>10, FilesSame DEF NodeDisconnected, FilesInv
<1>11. ASSUME UNCHANGED <<files, known>> PROVE FilesInv'
  BY <1>11, FilesSame DEF FilesInv
<1>12. ASSUME Start PROVE FilesInv'
  BY <1>11, <1>12 DEF Start
<1>13. ASSUME NEW h \in Host, SourceChanged(h) PROVE FilesInv'
  BY <1>11, <1>13 DEF SourceChanged
<1>14. ASSUME LoadMaps PROVE FilesInv'
  BY <1>11, <1>14 DEF LoadMaps
<1>15. ASSUME NEW n, NEW s, ActivateSnapshot(n, s) PROVE FilesInv'
  BY <1>11, <1>15 DEF ActivateSnapshot
<1>16. ASSUME UNCHANGED mapsVars PROVE FilesInv'
  BY <1>11, <1>16
<1> QED
  BY <1>1, <1>2, <1>3, <1>4, <1>5, <1>6, <1>7, <1>8, <1>9, <1>10, <1>12, <1>13, <1>14, <1>15,
     <1>16 DEF MapsNext

\* ReadsBack: for any hand-written files, arguments, nodes and numbers of their slots, a file that dmap
\* has finished reads as the map dmap made.
THEOREM MapsReadBack ==
  MapsSpec => []ReadsBack
<1>1. FilesInv => ReadsBack
  BY FilesReadBack
<1> QED BY <1>1, FilesInit, FilesStep, PTL DEF MapsSpec

-----------------------------------------------------------------------------
(* Endpoint maps: the core's rows.                                         *)

\* What is loaded is what one of the files says, under its own number.
LEMMA LoadSetFacts ==
  ASSUME FilesInv, NEW n \in DOMAIN LoadSet(dir)
  PROVE  \E f \in Readable(dir) :
           /\ LoadSet(dir)[n] = Load(dir[<<f, "map">>])
           /\ LoadSet(dir)[n].number = n
           /\ IsText(dir[<<f, "map">>])
<1> DEFINE loaded == {Load(dir[<<f, "map">>]) : f \in Readable(dir)}
<1>1. /\ DOMAIN LoadSet(dir) = {m.number : m \in loaded}
      /\ LoadSet(dir) = [i \in {m.number : m \in loaded} |-> CHOOSE m \in loaded : m.number = i]
  BY DEF LoadSet
<1>2. LoadSet(dir)[n] \in loaded /\ LoadSet(dir)[n].number = n
  <2>1. \E m \in loaded : m.number = n
    BY <1>1
  <2>2. LoadSet(dir)[n] = CHOOSE m \in loaded : m.number = n
    BY <1>1
  <2> HIDE DEF loaded
  <2> QED BY <2>1, <2>2
<1>3. PICK f \in Readable(dir) : LoadSet(dir)[n] = Load(dir[<<f, "map">>])
  BY <1>2
<1>4. IsFile(dir[<<f, "map">>]) /\ dir[<<f, "map">>] # NoFile
  BY DEF FilesInv, Readable
<1>5. IsPlain(dir[<<f, "map">>]) \/ dir[<<f, "map">>] \in Hand
  BY <1>4 DEF IsFile
<1>6. IsText(dir[<<f, "map">>])
  BY <1>5, EndPointMapAssumption DEF IsPlain
<1> QED BY <1>2, <1>3, <1>6

\* A node that connects changes the names of its own endpoints that have none, and
\* nothing else of a map.
LEMMA RenamedFacts ==
  ASSUME NEW m, IsMap(m), NEW h
  PROVE  /\ IsMap(Renamed(m, h))
         /\ Renamed(m, h).ends = m.ends /\ Renamed(m, h).number = m.number
         /\ Renamed(m, h).type = m.type
         /\ \A k \in Kind : \A i \in DOMAIN m.ends[k] :
              /\ Renamed(m, h).names[k][i].custom = m.names[k][i].custom
              /\ m.names[k][i].custom => Renamed(m, h).names[k][i].name = m.names[k][i].name
              /\ \A s \in 0 .. Slots[h] - 1 :
                   i \in EndPoint(m, k, h, s) /\ ~m.names[k][i].custom =>
                     Renamed(m, h).names[k][i].name = NodeName(m.type, k, m.ends[k][i])
<1> DEFINE own(k, i) == \E s \in 0 .. Slots[h] - 1 : i \in EndPoint(m, k, h, s)
           named(k, i) == IF ~m.names[k][i].custom /\ own(k, i)
                          THEN [m.names[k][i] EXCEPT !.name = NodeName(m.type, k, m.ends[k][i])]
                          ELSE m.names[k][i]
           names == [k \in Kind |-> [i \in DOMAIN m.names[k] |-> named(k, i)]]
<1>1. Renamed(m, h) = [m EXCEPT !.names = names]
  BY DEF Renamed
<1> HIDE DEF own
<1>2. PICK p : p = names
  OBVIOUS
<1>3. ASSUME NEW k \in Kind, NEW i \in DOMAIN m.names[k]
      PROVE  /\ p[k][i] = named(k, i)
             /\ p[k][i].custom = m.names[k][i].custom
             /\ DOMAIN p[k][i] = {"name", "custom"}
             /\ m.names[k][i].custom => p[k][i].name = m.names[k][i].name
             /\ ~m.names[k][i].custom /\ own(k, i) =>
                  p[k][i].name = NodeName(m.type, k, m.ends[k][i])
  <2>1. p[k][i] = named(k, i)
    BY <1>2
  <2>2. PICK e : e = m.names[k][i]
    OBVIOUS
  <2>3. DOMAIN e = {"name", "custom"}
    BY <2>2 DEF IsMap
  <2>4. CASE ~m.names[k][i].custom /\ own(k, i)
    <3>1. p[k][i] = [e EXCEPT !.name = NodeName(m.type, k, m.ends[k][i])]
      BY <2>1, <2>2, <2>4
    <3>2. /\ p[k][i].custom = e.custom /\ DOMAIN p[k][i] = {"name", "custom"}
          /\ p[k][i].name = NodeName(m.type, k, m.ends[k][i])
      BY <2>3, <3>1
    <3> QED BY <2>1, <2>2, <2>4, <3>2
  <2>5. CASE ~(~m.names[k][i].custom /\ own(k, i))
    <3>1. p[k][i] = e
      BY <2>1, <2>2, <2>5
    <3> QED BY <2>1, <2>2, <2>3, <2>5, <3>1
  <2> QED BY <2>4, <2>5
<1>4. DOMAIN p = Kind /\ \A k \in Kind : DOMAIN p[k] = DOMAIN m.names[k]
  BY <1>2
<1> HIDE DEF names, named
<1>5. PICK r : r = Renamed(m, h)
  OBVIOUS
<1>6. /\ r.names = p /\ r.ends = m.ends /\ r.number = m.number /\ r.type = m.type
      /\ DOMAIN r = DOMAIN m
  BY <1>1, <1>2, <1>5 DEF IsMap
<1>7. IsMap(r)
  <2>1. ASSUME NEW k \in Kind
        PROVE  \E n \in Nat : IsNumbering(r.ends[k], n) /\ IsNumbering(r.names[k], n)
    <3>1. PICK n \in Nat : IsNumbering(m.ends[k], n) /\ IsNumbering(m.names[k], n)
      BY DEF IsMap
    <3>2. IsNumbering(r.ends[k], n) /\ IsNumbering(r.names[k], n)
      BY <1>4, <1>6, <3>1 DEF IsNumbering
    <3> QED BY <3>2
  <2>2. \A k \in Kind : \A i \in DOMAIN r.names[k] : DOMAIN r.names[k][i] = {"name", "custom"}
    BY <1>3, <1>4, <1>6
  <2> QED BY <1>4, <1>6, <2>1, <2>2 DEF IsMap
<1>8. ASSUME NEW k \in Kind, NEW i \in DOMAIN m.ends[k]
      PROVE  /\ r.names[k][i].custom = m.names[k][i].custom
             /\ m.names[k][i].custom => r.names[k][i].name = m.names[k][i].name
             /\ \A s \in 0 .. Slots[h] - 1 :
                  i \in EndPoint(m, k, h, s) /\ ~m.names[k][i].custom =>
                    r.names[k][i].name = NodeName(m.type, k, m.ends[k][i])
  <2>1. i \in DOMAIN m.names[k]
    BY DEF IsMap, IsNumbering
  <2>2. \A s \in 0 .. Slots[h] - 1 : i \in EndPoint(m, k, h, s) => own(k, i)
    BY DEF own
  <2> QED BY <1>3, <1>6, <2>1, <2>2
<1> QED BY <1>5, <1>6, <1>7, <1>8

\* The rows of a node are those of its endpoints in a map.
LEMMA RowsOfFacts ==
  ASSUME NEW m, NEW h, NEW r
  PROVE  r \in RowsOf(m, h) <=>
           \E k \in Kind, s \in 0 .. Slots[h] - 1 : \E i \in EndPoint(m, k, h, s) :
             r = [router |-> m.number, kind |-> k, number |-> i, host |-> h, slot |-> s,
                  name |-> m.names[k][i].name]
<1> DEFINE at(k, s) == {[router |-> m.number, kind |-> k, number |-> i, host |-> h,
                         slot |-> s, name |-> m.names[k][i].name] : i \in EndPoint(m, k, h, s)}
<1>1. RowsOf(m, h) = UNION {at(x[1], x[2]) : x \in Kind \X (0 .. Slots[h] - 1)}
  BY DEF RowsOf
<1>2. \A k \in Kind, s \in 0 .. Slots[h] - 1 :
        r \in at(k, s) <=>
          \E i \in EndPoint(m, k, h, s) :
            r = [router |-> m.number, kind |-> k, number |-> i, host |-> h, slot |-> s,
                 name |-> m.names[k][i].name]
  OBVIOUS
<1> HIDE DEF at
<1>3. \A k \in Kind, s \in 0 .. Slots[h] - 1 :
        /\ <<k, s>> \in Kind \X (0 .. Slots[h] - 1)
        /\ <<k, s>>[1] = k /\ <<k, s>>[2] = s
  OBVIOUS
<1>4. r \in RowsOf(m, h) <=> \E x \in Kind \X (0 .. Slots[h] - 1) : r \in at(x[1], x[2])
  BY <1>1
<1>5. r \in RowsOf(m, h) <=> \E k \in Kind, s \in 0 .. Slots[h] - 1 : r \in at(k, s)
  <2>1. \A x \in Kind \X (0 .. Slots[h] - 1) : x[1] \in Kind /\ x[2] \in 0 .. Slots[h] - 1
    OBVIOUS
  <2>2. ASSUME r \in RowsOf(m, h) PROVE \E k \in Kind, s \in 0 .. Slots[h] - 1 : r \in at(k, s)
    BY <1>4, <2>1, <2>2
  <2>3. ASSUME NEW k \in Kind, NEW s \in 0 .. Slots[h] - 1, r \in at(k, s)
        PROVE  r \in RowsOf(m, h)
    <3>1. PICK x : x = <<k, s>>
      OBVIOUS
    <3>2. x \in Kind \X (0 .. Slots[h] - 1) /\ x[1] = k /\ x[2] = s
      BY <1>3, <3>1
    <3> QED BY <1>4, <2>3, <3>2
  <2> QED BY <2>2, <2>3
<1> QED BY <1>2, <1>5

\* The first number with the endpoint, said in two ways.
LEMMA EndPointFirst ==
  ASSUME NEW m, IsMap(m), NEW k \in Kind, NEW h, NEW s
  PROVE  LET listed == {i \in DOMAIN m.ends[k] : m.ends[k][i] = [host |-> h, slot |-> s]}
         IN EndPoint(m, k, h, s) = {i \in listed : \A j \in listed : i <= j}
<1>1. PICK n \in Nat : DOMAIN m.ends[k] = 0 .. n - 1
  BY DEF IsMap, IsNumbering
<1>2. PICK at : at = [host |-> h, slot |-> s]
  OBVIOUS
<1>3. EndPoint(m, k, h, s) = {i \in 0 .. n - 1 : /\ m.ends[k][i] = at
                                                 /\ \A j \in 0 .. i - 1 : m.ends[k][j] # at}
  BY <1>1, <1>2 DEF EndPoint
<1>4. PICK e : e = m.ends[k]
  OBVIOUS
<1>5. ASSUME NEW i \in 0 .. n - 1
      PROVE  (\A j \in 0 .. i - 1 : e[j] # at) <=> \A j \in 0 .. n - 1 : e[j] = at => i <= j
  OBVIOUS
<1> QED BY <1>1, <1>2, <1>3, <1>4, <1>5

\* What a node that called its endpoints met calls this one.
Called(type, k, met, h, s) ==
  IF type = "GPIO" /\ k = "Input" THEN <<"GPI", s + 1>> ELSE <<met, h, s>>

\* A row is of an endpoint of a connected node, at the first number the map gives it,
\* and has its name.
IsRow(r) ==
  /\ r.host \in known /\ r.kind \in Kind /\ r.router \in DOMAIN maps
  /\ r.slot \in 0 .. Slots[r.host] - 1
  /\ r.number \in EndPoint(maps[r.router], r.kind, r.host, r.slot)
  /\ maps[r.router].names[r.kind][r.number].custom =>
       r.name = maps[r.router].names[r.kind][r.number].name
  /\ ~maps[r.router].names[r.kind][r.number].custom =>
       r.name = Called(maps[r.router].type, r.kind, metAs[r.host], r.host, r.slot)

\* The endpoint has its row.
HasRow(n, k, h, s) ==
  \A i \in EndPoint(maps[n], k, h, s) :
    \E r \in rows : r.router = n /\ r.kind = k /\ r.host = h /\ r.slot = s /\ r.number = i

MapsFit == \A n \in DOMAIN maps : IsMap(maps[n]) /\ maps[n].number = n

RowsInv ==
  /\ known \subseteq Host
  /\ core = "dead" => rows = {} /\ known = {}
  /\ DOMAIN metAs = Host
  /\ MapsFit
  /\ \A r \in rows : IsRow(r)
  /\ \A n \in DOMAIN maps, k \in Kind, h \in known :
       \A s \in 0 .. Slots[h] - 1 : HasRow(n, k, h, s)

LEMMA RowsInvMatch ==
  ASSUME RowsInv PROVE RowsMatch
<1>1. ASSUME NEW r \in rows
      PROVE  /\ r.host \in known
             /\ r.router \in DOMAIN maps
             /\ maps[r.router].ends[r.kind][r.number] = [host |-> r.host, slot |-> r.slot]
             /\ LET own == maps[r.router].names[r.kind][r.number] IN
                r.name = IF own.custom THEN own.name
                         ELSE IF maps[r.router].type = "GPIO" /\ r.kind = "Input"
                           THEN <<"GPI", r.slot + 1>>
                         ELSE <<metAs[r.host], r.host, r.slot>>
  <2>1. /\ r.host \in known /\ r.router \in DOMAIN maps
        /\ r.number \in EndPoint(maps[r.router], r.kind, r.host, r.slot)
    BY DEF RowsInv, IsRow
  <2>2. PICK own : own = maps[r.router].names[r.kind][r.number]
    OBVIOUS
  <2>3. r.name = IF own.custom THEN own.name
                 ELSE Called(maps[r.router].type, r.kind, metAs[r.host], r.host, r.slot)
    BY <2>2 DEF RowsInv, IsRow
  <2> QED BY <2>1, <2>2, <2>3 DEF EndPoint, Called
<1>2. ASSUME NEW n \in DOMAIN maps, NEW k \in Kind, NEW h \in known,
             NEW s \in 0 .. Slots[h] - 1
      PROVE  {r.number : r \in {q \in rows : q.router = n /\ q.kind = k
                                             /\ q.host = h /\ q.slot = s}}
             = EndPoint(maps[n], k, h, s)
  <2>1. \A r \in rows : r.router = n /\ r.kind = k /\ r.host = h /\ r.slot = s =>
                          r.number \in EndPoint(maps[n], k, h, s)
    BY DEF RowsInv, IsRow
  <2>2. HasRow(n, k, h, s)
    BY DEF RowsInv
  <2> QED BY <2>1, <2>2 DEF HasRow
<1>3. \A n \in DOMAIN maps : IsMap(maps[n])
  BY DEF RowsInv, MapsFit
<1>4. ASSUME NEW n \in DOMAIN maps, NEW k \in Kind, NEW h \in known,
             NEW s \in 0 .. Slots[h] - 1
      PROVE  LET listed == {i \in DOMAIN maps[n].ends[k] :
                              maps[n].ends[k][i] = [host |-> h, slot |-> s]}
             IN {r.number : r \in {q \in rows : q.router = n /\ q.kind = k
                                                /\ q.host = h /\ q.slot = s}}
                = {i \in listed : \A j \in listed : i <= j}
  <2>1. PICK m : m = maps[n]
    OBVIOUS
  <2>2. LET listed == {i \in DOMAIN m.ends[k] : m.ends[k][i] = [host |-> h, slot |-> s]}
        IN EndPoint(m, k, h, s) = {i \in listed : \A j \in listed : i <= j}
    BY <1>3, <2>1, EndPointFirst
  <2> QED BY <1>2, <2>1, <2>2
<1> QED BY <1>1, <1>4 DEF RowsMatch

\* The core loads its maps when it has no rows.
LEMMA RowsLoaded ==
  ASSUME RowsInv, FilesInv, Start PROVE RowsInv'
<1>1. rows' = {} /\ known' = {} /\ UNCHANGED metAs /\ maps' = LoadSet(dir)
  BY DEF Start, RowsInv
<1>2. ASSUME NEW n \in DOMAIN LoadSet(dir)
      PROVE  IsMap(LoadSet(dir)[n]) /\ LoadSet(dir)[n].number = n
  BY LoadSetFacts, LoadIsMap
<1>3. MapsFit'
  BY <1>1, <1>2 DEF MapsFit
<1> QED BY <1>1, <1>3 DEF RowsInv

LEMMA RowsConnected ==
  ASSUME RowsInv, NEW h \in Host, NodeConnected(h) PROVE RowsInv'
<1> DEFINE named == [n \in DOMAIN maps |-> Renamed(maps[n], h)]
<1>1. /\ core = "up" /\ h \notin known /\ known' = known \cup {h} /\ UNCHANGED core
      /\ maps' = named
      /\ rows' = rows \cup UNION {RowsOf(named[n], h) : n \in DOMAIN maps}
      /\ metAs' = [metAs EXCEPT ![h] = label[h]]
  BY DEF NodeConnected
<1>2. known' \subseteq Host /\ DOMAIN metAs' = Host /\ core' # "dead"
  BY <1>1 DEF RowsInv
<1>3. DOMAIN maps' = DOMAIN maps /\ \A n \in DOMAIN maps : maps'[n] = Renamed(maps[n], h)
  BY <1>1
<1>4. ASSUME NEW n \in DOMAIN maps
      PROVE  /\ IsMap(maps[n]) /\ maps[n].number = n
             /\ IsMap(maps'[n]) /\ maps'[n].ends = maps[n].ends
             /\ maps'[n].number = n /\ maps'[n].type = maps[n].type
             /\ \A k \in Kind : \A i \in DOMAIN maps[n].ends[k] :
                  /\ maps'[n].names[k][i].custom = maps[n].names[k][i].custom
                  /\ maps[n].names[k][i].custom =>
                       maps'[n].names[k][i].name = maps[n].names[k][i].name
                  /\ \A s \in 0 .. Slots[h] - 1 :
                       i \in EndPoint(maps[n], k, h, s) /\ ~maps[n].names[k][i].custom =>
                         maps'[n].names[k][i].name = NodeName(maps[n].type, k, maps[n].ends[k][i])
  <2>1. PICK m : m = maps[n] /\ maps'[n] = Renamed(m, h)
    BY <1>3
  <2>2. IsMap(m) /\ m.number = n
    BY <2>1 DEF RowsInv, MapsFit
  <2>3. PICK q : q = Renamed(m, h)
    OBVIOUS
  <2>4. /\ IsMap(q) /\ q.ends = m.ends /\ q.number = m.number /\ q.type = m.type
        /\ \A k \in Kind : \A i \in DOMAIN m.ends[k] :
             /\ q.names[k][i].custom = m.names[k][i].custom
             /\ m.names[k][i].custom => q.names[k][i].name = m.names[k][i].name
             /\ \A s \in 0 .. Slots[h] - 1 :
                  i \in EndPoint(m, k, h, s) /\ ~m.names[k][i].custom =>
                    q.names[k][i].name = NodeName(m.type, k, m.ends[k][i])
    BY <2>2, <2>3, RenamedFacts
  <2> QED BY <2>1, <2>2, <2>3, <2>4
<1>5. \A n \in DOMAIN maps, k \in Kind : \A g, s :
        EndPoint(maps'[n], k, g, s) = EndPoint(maps[n], k, g, s)
  BY <1>4 DEF EndPoint
<1>6. \A r : r \in rows' <=> \/ r \in rows
                             \/ \E n \in DOMAIN maps : r \in RowsOf(maps'[n], h)
  BY <1>1, <1>3
<1> HIDE DEF named
<1>7. ASSUME NEW r \in rows PROVE IsRow(r)'
  <2>1. /\ r.host \in known /\ r.kind \in Kind /\ r.router \in DOMAIN maps
        /\ r.slot \in 0 .. Slots[r.host] - 1
        /\ r.number \in EndPoint(maps[r.router], r.kind, r.host, r.slot)
        /\ maps[r.router].names[r.kind][r.number].custom =>
             r.name = maps[r.router].names[r.kind][r.number].name
        /\ ~maps[r.router].names[r.kind][r.number].custom =>
             r.name = Called(maps[r.router].type, r.kind, metAs[r.host], r.host, r.slot)
    BY DEF RowsInv, IsRow
  <2>2. r.host # h /\ metAs'[r.host] = metAs[r.host]
    BY <1>1, <2>1 DEF RowsInv
  <2>3. r.number \in DOMAIN maps[r.router].ends[r.kind]
    BY <2>1 DEF EndPoint
  <2>4. /\ maps'[r.router].names[r.kind][r.number].custom
             = maps[r.router].names[r.kind][r.number].custom
        /\ maps[r.router].names[r.kind][r.number].custom =>
             maps'[r.router].names[r.kind][r.number].name
               = maps[r.router].names[r.kind][r.number].name
        /\ maps'[r.router].type = maps[r.router].type
    BY <1>4, <2>1, <2>3
  <2>5. r.number \in EndPoint(maps'[r.router], r.kind, r.host, r.slot)
    BY <1>5, <2>1
  <2>6. r.host \in known' /\ r.router \in DOMAIN maps'
    BY <1>1, <1>3, <2>1
  <2>7. /\ maps'[r.router].names[r.kind][r.number].custom =>
             r.name = maps'[r.router].names[r.kind][r.number].name
        /\ ~maps'[r.router].names[r.kind][r.number].custom =>
             r.name = Called(maps'[r.router].type, r.kind, metAs'[r.host], r.host, r.slot)
    BY <2>1, <2>2, <2>4
  <2> QED BY <2>1, <2>5, <2>6, <2>7 DEF IsRow
<1>8. ASSUME NEW n \in DOMAIN maps, NEW r \in RowsOf(maps'[n], h) PROVE IsRow(r)'
  <2>1. PICK k \in Kind, s \in 0 .. Slots[h] - 1 : \E i \in EndPoint(maps'[n], k, h, s) :
          r = [router |-> maps'[n].number, kind |-> k, number |-> i, host |-> h, slot |-> s,
               name |-> maps'[n].names[k][i].name]
    BY <1>8, RowsOfFacts
  <2>2. PICK i \in EndPoint(maps'[n], k, h, s) :
          r = [router |-> maps'[n].number, kind |-> k, number |-> i, host |-> h, slot |-> s,
               name |-> maps'[n].names[k][i].name]
    BY <2>1
  <2>3. /\ r.router = n /\ r.kind = k /\ r.number = i /\ r.host = h /\ r.slot = s
        /\ r.name = maps'[n].names[k][i].name
    BY <1>4, <2>2
  <2>4. i \in EndPoint(maps[n], k, h, s)
    BY <1>5
  <2>5. i \in DOMAIN maps[n].ends[k] /\ maps[n].ends[k][i] = [host |-> h, slot |-> s]
    BY <2>4 DEF EndPoint
  <2>6. /\ maps'[n].names[k][i].custom = maps[n].names[k][i].custom
        /\ maps'[n].type = maps[n].type
        /\ ~maps[n].names[k][i].custom =>
             maps'[n].names[k][i].name = NodeName(maps[n].type, k, maps[n].ends[k][i])
    BY <1>4, <2>4, <2>5
  <2>7. NodeName(maps[n].type, k, maps[n].ends[k][i])
          = Called(maps[n].type, k, metAs'[h], h, s)
    <3>1. metAs'[h] = label[h]
      BY <1>1 DEF RowsInv
    <3>2. maps[n].ends[k][i].host = h /\ maps[n].ends[k][i].slot = s
      BY <2>5
    <3> QED BY <3>1, <3>2 DEF NodeName, Called
  <2>8. ~maps'[n].names[k][i].custom =>
          r.name = Called(maps'[n].type, k, metAs'[h], h, s)
    BY <2>3, <2>6, <2>7
  <2>9. h \in known' /\ n \in DOMAIN maps'
    BY <1>1, <1>3
  <2> QED BY <2>3, <2>8, <2>9 DEF IsRow
<1>9. ASSUME NEW n \in DOMAIN maps, NEW k \in Kind, NEW g \in known',
             NEW s \in 0 .. Slots[g] - 1
      PROVE  HasRow(n, k, g, s)'
  <2>1. CASE g \in known
    <3>1. HasRow(n, k, g, s)
      BY <2>1 DEF RowsInv
    <3> QED BY <1>5, <1>6, <3>1 DEF HasRow
  <2>2. CASE g = h
    <3>1. ASSUME NEW i \in EndPoint(maps'[n], k, h, s)
          PROVE  \E r \in rows' : /\ r.router = n /\ r.kind = k /\ r.host = h
                                  /\ r.slot = s /\ r.number = i
      <4>1. PICK r : r = [router |-> maps'[n].number, kind |-> k, number |-> i, host |-> h,
                          slot |-> s, name |-> maps'[n].names[k][i].name]
        OBVIOUS
      <4>2. r \in RowsOf(maps'[n], h)
        BY <2>2, <4>1, RowsOfFacts
      <4>3. r \in rows'
        BY <1>6, <4>2
      <4>4. r.router = n /\ r.kind = k /\ r.host = h /\ r.slot = s /\ r.number = i
        BY <1>4, <4>1
      <4> QED BY <4>3, <4>4
    <3> QED BY <2>2, <3>1 DEF HasRow
  <2> QED BY <1>1, <2>1, <2>2
<1>10. MapsFit'
  BY <1>3, <1>4 DEF MapsFit
<1>11. \A r \in rows' : IsRow(r)'
  BY <1>6, <1>7, <1>8
<1> QED BY <1>2, <1>3, <1>9, <1>10, <1>11 DEF RowsInv

LEMMA RowsDisconnected ==
  ASSUME RowsInv, NEW h \in Host, NodeDisconnected(h) PROVE RowsInv'
<1>1. /\ known' = known \ {h} /\ rows' = {r \in rows : r.host # h}
      /\ UNCHANGED <<core, maps, metAs>>
  BY DEF NodeDisconnected, RemainingRows
<1>2. \A r \in rows' : IsRow(r)'
  BY <1>1 DEF RowsInv, IsRow
<1>3. \A n \in DOMAIN maps', k \in Kind, g \in known' :
        \A s \in 0 .. Slots[g] - 1 : HasRow(n, k, g, s)'
  BY <1>1 DEF RowsInv, HasRow
<1>4. MapsFit'
  BY <1>1 DEF RowsInv, MapsFit
<1>5. core' = "dead" => rows' = {} /\ known' = {}
  BY <1>1 DEF RowsInv
<1> QED BY <1>1, <1>2, <1>3, <1>4, <1>5 DEF RowsInv

LEMMA RowsInit ==
  MapsInit => RowsInv
BY DEF MapsInit, RowsInv, MapsFit, Empty

LEMMA RowsStep ==
  ASSUME RowsInv, FilesInv, [MapsNext]_mapsVars PROVE RowsInv'
<1> USE DEF mapsVars, files, coreVs, saVs
<1>1. ASSUME UNCHANGED coreVs PROVE RowsInv'
  BY <1>1 DEF RowsInv, MapsFit, IsRow, HasRow
<1>2. ASSUME Ends PROVE RowsInv'
  <2>1. maps' = Empty /\ rows' = {} /\ known' = {} /\ UNCHANGED metAs
    BY <1>2 DEF Ends
  <2>2. MapsFit'
    BY <2>1 DEF MapsFit, Empty
  <2> QED BY <2>1, <2>2 DEF RowsInv
<1>3. ASSUME NEW f \in File, NEW t \in Hand, Edit(f, t) PROVE RowsInv'
  BY <1>1, <1>3 DEF Edit
<1>4. ASSUME NEW a \in Args, Generate(a) PROVE RowsInv'
  BY <1>1, <1>4 DEF Generate
<1>5. ASSUME Connected \/ SaveOpen \/ SaveRename \/ Interrupted PROVE RowsInv'
  BY <1>1, <1>5 DEF Connected, SaveOpen, SaveRename, Interrupted
<1>6. ASSUME NEW room \in BOOLEAN, SaveWrite(room) PROVE RowsInv'
  BY <1>1, <1>6 DEF SaveWrite
<1>7. ASSUME NEW h \in Host, SourceChanged(h) PROVE RowsInv'
  BY <1>1, <1>7 DEF SourceChanged
<1>8. ASSUME LoadMaps PROVE RowsInv'
  BY <1>1, <1>8 DEF LoadMaps
<1>9. ASSUME NEW n, NEW s, ActivateSnapshot(n, s) PROVE RowsInv'
  BY <1>1, <1>9 DEF ActivateSnapshot
<1>10. ASSUME UNCHANGED mapsVars PROVE RowsInv'
  BY <1>1, <1>10
<1> QED
  BY <1>2, <1>3, <1>4, <1>5, <1>6, <1>7, <1>8, <1>9, <1>10, RowsLoaded, RowsConnected,
     RowsDisconnected DEF MapsNext

\* RowsMatch: the core's tables have, for every map, one row of each endpoint of a
\* connected node at its first number, and no other, whatever the maps and the nodes;
\* it has the name the map gives it, or else the one its node had when it connected.
THEOREM MapsRowsMatch ==
  MapsSpec => []RowsMatch
<1>1. RowsInv => RowsMatch
  BY RowsInvMatch
<1>2. MapsInit => FilesInv /\ RowsInv
  BY FilesInit, RowsInit
<1>3. FilesInv /\ RowsInv /\ [MapsNext]_mapsVars => (FilesInv /\ RowsInv)'
  BY FilesStep, RowsStep
<1> QED BY <1>1, <1>2, <1>3, PTL DEF MapsSpec

-----------------------------------------------------------------------------
(* Endpoint maps: snapshots.                                               *)

\* The routes of a map's snapshots stay within its lists.
Lands(m) ==
  /\ \A k \in Kind : \E n \in Nat : DOMAIN m.ends[k] = 0 .. n - 1 /\ Quantity(m.ends[k]) = n
  /\ \A k \in Kind : \A i \in DOMAIN m.ends[k] : m.ends[k][i].slot \in Int
  /\ \A s \in DOMAIN m.snaps : \A r \in Range(m.snaps[s].routes) :
       /\ r.output \in Nat /\ r.output < Quantity(m.ends["Output"])
       /\ r.input \in Nat /\ r.input < Quantity(m.ends["Input"])

SnapsInv ==
  /\ \A n \in DOMAIN saMaps : Lands(saMaps[n])
  /\ sa = "none" => activated = <<>>
  /\ activated # <<>> =>
       \E n \in DOMAIN saMaps : \E s \in DOMAIN saMaps[n].snaps :
         activated = <<n, s, Commands(saMaps[n], s)>>

\* The number before a route's is within the list, as the number is below its end.
LEMMA WithinList ==
  ASSUME NEW m, Lands(m), NEW k \in Kind, NEW i \in Nat, i < Quantity(m.ends[k]), i # 0
  PROVE  i - 1 \in DOMAIN m.ends[k] /\ At(m, k, i - 1).slot \in Int
<1>1. PICK n \in Nat : DOMAIN m.ends[k] = 0 .. n - 1 /\ Quantity(m.ends[k]) = n
  BY DEF Lands
<1>2. i - 1 \in DOMAIN m.ends[k]
  BY <1>1
<1>3. m.ends[k][i - 1].slot \in Int
  BY <1>2 DEF Lands
<1> QED BY <1>2, <1>3 DEF At

\* What a snapshot's commands are, for its routes.
LEMMA CommandsLand ==
  ASSUME NEW m, Lands(m), NEW s \in DOMAIN m.snaps
  PROVE  /\ \A r \in Range(m.snaps[s].routes) : r.output >= 1 =>
              /\ r.output - 1 \in DOMAIN m.ends["Output"]
              /\ r.input = 0 \/ r.input - 1 \in DOMAIN m.ends["Input"]
              /\ /\ At(m, "Output", r.output - 1).slot >= 0
                 /\ r.input = 0 \/ At(m, "Input", r.input - 1).slot >= 0
                 => \E c \in Commands(m, s) :
                      /\ c.dst = At(m, "Output", r.output - 1)
                      /\ c.src = IF r.input = 0 THEN Null ELSE At(m, "Input", r.input - 1)
         /\ \A c \in Commands(m, s) : \E r \in Range(m.snaps[s].routes) :
              r.output >= 1 /\ c.dst = At(m, "Output", r.output - 1)
<1>1. "Output" \in Kind /\ "Input" \in Kind
  BY DEF Kind
<1>2. ASSUME NEW r \in Range(m.snaps[s].routes)
      PROVE  /\ r.output \in Nat /\ r.output < Quantity(m.ends["Output"])
             /\ r.input \in Nat /\ r.input < Quantity(m.ends["Input"])
  BY DEF Lands
<1>3. \A r : /\ Command(m, r).dst = At(m, "Output", r.output - 1)
             /\ Command(m, r).src = IF r.input = 0 THEN Null ELSE At(m, "Input", r.input - 1)
  BY DEF Command
<1>4. ASSUME NEW r \in Range(m.snaps[s].routes), r.output >= 1
      PROVE  /\ r.output - 1 \in DOMAIN m.ends["Output"]
             /\ r.input = 0 \/ r.input - 1 \in DOMAIN m.ends["Input"]
  <2>1. r.output - 1 \in DOMAIN m.ends["Output"]
    BY <1>1, <1>2, <1>4, WithinList
  <2>2. r.input = 0 \/ r.input - 1 \in DOMAIN m.ends["Input"]
    BY <1>1, <1>2, WithinList
  <2> QED BY <2>1, <2>2
<1>5. ASSUME NEW r \in Range(m.snaps[s].routes), At(m, "Output", r.output - 1).slot >= 0,
             r.input = 0 \/ At(m, "Input", r.input - 1).slot >= 0
      PROVE  \E c \in Commands(m, s) :
               /\ c.dst = At(m, "Output", r.output - 1)
               /\ c.src = IF r.input = 0 THEN Null ELSE At(m, "Input", r.input - 1)
  <2>1. /\ Command(m, r).dst.slot >= 0
        /\ r.input # 0 => Command(m, r).src.slot >= 0
    BY <1>3, <1>5
  <2>2. Command(m, r) \in Commands(m, s)
    BY <2>1 DEF Commands
  <2> QED BY <1>3, <2>2
<1>6. ASSUME NEW c \in Commands(m, s)
      PROVE  \E r \in Range(m.snaps[s].routes) :
               r.output >= 1 /\ c.dst = At(m, "Output", r.output - 1)
  <2>1. PICK r \in Range(m.snaps[s].routes) : c = Command(m, r) /\ Command(m, r).dst.slot >= 0
    BY DEF Commands
  <2>2. r.output >= 1
    <3> SUFFICES ASSUME r.output = 0 PROVE FALSE
      BY <1>2
    <3>1. PICK n \in Nat : DOMAIN m.ends["Output"] = 0 .. n - 1
      BY <1>1 DEF Lands
    <3>2. r.output - 1 \notin DOMAIN m.ends["Output"]
      BY <3>1
    <3>3. Command(m, r).dst = Null
      BY <1>3, <3>2 DEF At
    <3> QED BY <2>1, <3>3 DEF Null
  <2> QED BY <1>3, <2>1, <2>2
<1> QED BY <1>4, <1>5, <1>6

LEMMA SnapsInvLand ==
  ASSUME SnapsInv PROVE SnapshotsLand
<1> SUFFICES ASSUME activated # <<>> PROVE SnapshotsLand
  BY DEF SnapshotsLand
<1>1. PICK n \in DOMAIN saMaps : \E s \in DOMAIN saMaps[n].snaps :
        activated = <<n, s, Commands(saMaps[n], s)>>
  BY DEF SnapsInv
<1>2. PICK s \in DOMAIN saMaps[n].snaps : activated = <<n, s, Commands(saMaps[n], s)>>
  BY <1>1
<1>3. activated[1] = n /\ activated[2] = s /\ activated[3] = Commands(saMaps[n], s)
  BY <1>2
<1>4. Lands(saMaps[n])
  BY DEF SnapsInv
<1>5. PICK m : m = saMaps[activated[1]]
  OBVIOUS
<1>6. PICK z : z = activated[2]
  OBVIOUS
<1>7. PICK cs : cs = activated[3]
  OBVIOUS
<1>8. Lands(m) /\ z \in DOMAIN m.snaps /\ cs = Commands(m, z)
  BY <1>3, <1>4, <1>5, <1>6, <1>7
<1>9. ASSUME NEW r \in Range(m.snaps[z].routes), r.output >= 1
      PROVE  /\ r.output - 1 \in DOMAIN m.ends["Output"]
             /\ r.input = 0 \/ r.input - 1 \in DOMAIN m.ends["Input"]
             /\ /\ At(m, "Output", r.output - 1).slot >= 0
                /\ r.input = 0 \/ At(m, "Input", r.input - 1).slot >= 0
                => \E c \in cs :
                     /\ c.dst = At(m, "Output", r.output - 1)
                     /\ c.src = IF r.input = 0 THEN Null ELSE At(m, "Input", r.input - 1)
  BY <1>8, <1>9, CommandsLand
<1>10. ASSUME NEW c \in cs
       PROVE  \E r \in Range(m.snaps[z].routes) :
                r.output >= 1 /\ c.dst = At(m, "Output", r.output - 1)
  BY <1>8, CommandsLand
<1> QED BY <1>5, <1>6, <1>7, <1>9, <1>10 DEF SnapshotsLand

\* A set that load has taken has routes within its lists.
LEMMA LoadedLands ==
  ASSUME FilesInv, ValidSet(dir), NEW n \in DOMAIN LoadSet(dir)
  PROVE  Lands(LoadSet(dir)[n])
<1>1. PICK f \in Readable(dir) : /\ LoadSet(dir)[n] = Load(dir[<<f, "map">>])
                                 /\ IsText(dir[<<f, "map">>])
  BY LoadSetFacts
<1>2. PICK t : t = dir[<<f, "map">>]
  OBVIOUS
<1>3. PICK m : m = Load(t)
  OBVIOUS
<1>4. /\ IsMap(m)
      /\ \A k \in Kind : \A i \in DOMAIN m.ends[k] :
           /\ i + 1 \in DOMAIN t.entries[k]
           /\ m.ends[k][i].slot = t.entries[k][i + 1].slot - 1
      /\ \A s \in DOMAIN m.snaps :
           \A r \in Range(m.snaps[s].routes) : r.output \in Nat /\ r.input \in Nat
  BY <1>1, <1>2, <1>3, LoadIsMap
<1>5. RoutesValid(m)
  BY <1>2, <1>3 DEF ValidSet
<1>6. ASSUME NEW k \in Kind
      PROVE  \E p \in Nat : DOMAIN m.ends[k] = 0 .. p - 1 /\ Quantity(m.ends[k]) = p
  <2>1. PICK p \in Nat : DOMAIN m.ends[k] = 0 .. p - 1
    BY <1>4 DEF IsMap, IsNumbering
  <2>2. Cardinality(0 .. p - 1) = p
    BY FS_Interval, 0 \in Int, p - 1 \in Int
  <2> QED BY <2>1, <2>2 DEF Quantity
<1>7. ASSUME NEW k \in Kind, NEW i \in DOMAIN m.ends[k] PROVE m.ends[k][i].slot \in Int
  <2>1. t.entries[k][i + 1].slot \in Int
    BY <1>1, <1>2, <1>4 DEF IsText
  <2> QED BY <1>4, <2>1
<1>8. ASSUME NEW s \in DOMAIN m.snaps, NEW r \in Range(m.snaps[s].routes)
      PROVE  /\ r.output < Quantity(m.ends["Output"])
             /\ r.input < Quantity(m.ends["Input"])
  BY <1>5 DEF RoutesValid, Range
<1> QED BY <1>1, <1>2, <1>3, <1>4, <1>6, <1>7, <1>8 DEF Lands

LEMMA SnapsInit ==
  MapsInit => SnapsInv
BY DEF MapsInit, SnapsInv, Empty

LEMMA SnapsStep ==
  ASSUME SnapsInv, FilesInv, [MapsNext]_mapsVars PROVE SnapsInv'
<1> USE DEF mapsVars, files, coreVs, saVs
<1>1. ASSUME UNCHANGED saVs PROVE SnapsInv'
  BY <1>1 DEF SnapsInv
<1>2. ASSUME LoadMaps PROVE SnapsInv'
  <2>1. activated = <<>> /\ UNCHANGED activated /\ sa' # "none"
    BY <1>2 DEF LoadMaps, SnapsInv
  <2>2. \A n \in DOMAIN saMaps' : Lands(saMaps'[n])
    <3>1. CASE ValidSet(dir)
      <4>1. saMaps' = LoadSet(dir)
        BY <1>2, <3>1 DEF LoadMaps
      <4>2. \A n \in DOMAIN LoadSet(dir) : Lands(LoadSet(dir)[n])
        BY <3>1, LoadedLands
      <4> QED BY <4>1, <4>2
    <3>2. CASE ~ValidSet(dir)
      BY <1>2, <3>2 DEF LoadMaps, SnapsInv
    <3> QED BY <3>1, <3>2
  <2> QED BY <2>1, <2>2 DEF SnapsInv
<1>3. ASSUME NEW n \in DOMAIN saMaps, NEW s \in DOMAIN saMaps[n].snaps, ActivateSnapshot(n, s)
      PROVE  SnapsInv'
  <2>1. CASE activated' = <<n, s, Commands(saMaps[n], s)>> /\ UNCHANGED <<sa, saMaps>>
    <3>1. sa' # "none"
      BY <1>3, <2>1 DEF ActivateSnapshot
    <3>2. \E q \in DOMAIN saMaps' : \E z \in DOMAIN saMaps'[q].snaps :
            activated' = <<q, z, Commands(saMaps'[q], z)>>
      BY <2>1
    <3> QED BY <2>1, <3>1, <3>2 DEF SnapsInv
  <2>2. CASE sa' = "ended" /\ saMaps' = Empty /\ activated' = <<>>
    BY <2>2 DEF SnapsInv, Empty
  <2> QED BY <1>3, <2>1, <2>2 DEF ActivateSnapshot
<1>4. ASSUME Ends PROVE SnapsInv'
  BY <1>4 DEF Ends, SnapsInv, Empty
<1>5. ASSUME NEW f \in File, NEW t \in Hand, Edit(f, t) PROVE SnapsInv'
  BY <1>1, <1>5 DEF Edit
<1>6. ASSUME NEW a \in Args, Generate(a) PROVE SnapsInv'
  BY <1>1, <1>6 DEF Generate
<1>7. ASSUME Connected \/ SaveOpen \/ SaveRename \/ Interrupted \/ Start PROVE SnapsInv'
  BY <1>1, <1>7 DEF Connected, SaveOpen, SaveRename, Interrupted, Start
<1>8. ASSUME NEW room \in BOOLEAN, SaveWrite(room) PROVE SnapsInv'
  BY <1>1, <1>8 DEF SaveWrite
<1>9. ASSUME NEW h \in Host, NodeConnected(h) \/ NodeDisconnected(h) \/ SourceChanged(h)
      PROVE  SnapsInv'
  BY <1>1, <1>9 DEF NodeConnected, NodeDisconnected, SourceChanged
<1>10. ASSUME UNCHANGED mapsVars PROVE SnapsInv'
  BY <1>1, <1>10
<1> QED
  BY <1>2, <1>3, <1>4, <1>5, <1>6, <1>7, <1>8, <1>9, <1>10 DEF MapsNext

\* SnapshotsLand: whatever the files hold, a snapshot that is activated reaches the
\* endpoints with its numbers, and none besides.
THEOREM MapsSnapshotsLand ==
  MapsSpec => []SnapshotsLand
<1>1. SnapsInv => SnapshotsLand
  BY SnapsInvLand
<1>2. MapsInit => FilesInv /\ SnapsInv
  BY FilesInit, SnapsInit
<1>3. FilesInv /\ SnapsInv /\ [MapsNext]_mapsVars => (FilesInv /\ SnapsInv)'
  BY FilesStep, SnapsStep
<1> QED BY <1>1, <1>2, <1>3, PTL DEF MapsSpec

=============================================================================
