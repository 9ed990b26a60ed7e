-------------------------------- MODULE Panel --------------------------------
(***************************************************************************)
(* The graphical panels, from which people change routes, over SaParser,   *)
(* their Software Authority client (saparser.cpp): outputpanel's widget    *)
(* for one output, xypanel, xpointpanel and buttonpanel's widget for one   *)
(* output.  A panel shows the crosspoints the parser has been told of, and *)
(* keeps what a person has chosen and not sent yet.  The connection may be *)
(* lost, others change routes, and inputs appear at the server of which no *)
(* panel is told.                                                          *)
(*                                                                         *)
(* There is one router.  Numbers start from 1, as in the commands, and     *)
(* input 0 is OFF.  An item of a list of inputs has the input its label    *)
(* stands for and the input a Take sends for it.                           *)
(***************************************************************************)
EXTENDS Integers, Sequences, FiniteSets, SequencesExt, FiniteSetsExt

CONSTANTS
  Kinds,          \* the kinds of panels
  Outputs,        \* the outputs are 1 .. Outputs
  Inputs,         \* the inputs are 1 .. Inputs
  AtFirst,        \* the inputs the server has at first
  MaxRoutes,      \* bound: routes changed by others
  MaxSends,       \* bound: routes sent by the panel
  MaxLosses       \* bound: lost connections

Output == 1 .. Outputs
Input  == 1 .. Inputs

ASSUME PanelAssumption ==
  /\ Kinds \subseteq {"output", "xy", "xpoint", "button", "armbutton"}
  /\ Outputs \in Nat \ {0} /\ Inputs \in Nat
  /\ AtFirst \subseteq Input
  /\ MaxRoutes \in Nat /\ MaxSends \in Nat /\ MaxLosses \in Nat

VARIABLES
  kind,           \* of the panel
  route,          \* route[o]: the input the server has for output o
  there,          \* the inputs the server has
  commands,       \* ActivateRoute commands on their way
  stage,          \* of the parser: down, names, inputs, reports, startup or up
  reports,        \* RouteStat reports on their way
  reals,          \* sa_input_is_reals
  xp,             \* sa_output_xpoints
  panel,          \* the widgets
  wanted,         \* history: the output and the label a person chose last
  lapsed,         \* history: the list was emptied or made anew around an armed choice
  sent,           \* history: the last route sent, and what the person meant
  routes, sends, losses  \* bounded by the constants

server  == <<route, there, routes>>
parser  == <<stage, reports, reals, xp>>
vars    == <<kind, server, commands, parser, panel, wanted, lapsed, sent, sends, losses>>

-----------------------------------------------------------------------------
(* The widgets: an output, a list of inputs with the current item (0 for   *)
(* none), the input the output is known to have, whether a choice is armed *)
(* and whether the list is enabled; the inputs that have rows or buttons,  *)
(* and the marked crosspoints.                                             *)

Blank ==
  [out |-> 0, box |-> <<>>, cur |-> 0, known |-> 0, armed |-> FALSE,
   usable |-> FALSE, rows |-> <<>>, marks |-> {}]

\* The panels as they are made: a panel for one output has output 1, and is always
\* armed if it has no ARM button.
NewPanelWidget == [Blank EXCEPT !.out = 1]
NewXy     == Blank
NewXpoint == Blank
NewButtonWidget == [Blank EXCEPT !.out = 1, !.armed = kind = "button"]

Item(i) == [label |-> i, sends |-> i]

Off == Item(0)

\* The members of a set of numbers in order, and from the highest down.
Ascending(S)  == [k \in 1 .. Cardinality(S) |->
                   CHOOSE i \in S : Cardinality({j \in S : j < i}) = k - 1]
Descending(S) == Reverse(Ascending(S))

\* The current item is one of an input the panel did not know: it sends another.
Unlisted(p) == p.cur # 0 /\ p.box[p.cur].label # p.box[p.cur].sends

\* The items that send input i.
ItemsOf(p, i) == {k \in DOMAIN p.box : p.box[k].sends = i}

\* PanelWidget::updateInputNames: sorted by name, here by falling number; OFF, first
\* inserted, stays the current item and ends up last.
UpdateInputNames(p, S) ==
  [p EXCEPT !.box = [k \in 1 .. Cardinality(S) |-> Item(Descending(S)[k])] \o <<Off>>,
            !.cur = Cardinality(S) + 1]

\* Mutant: a report leaves a choice armed.
DisarmedNever(p) == p

Disarmed(p) == [p EXCEPT !.armed = FALSE]

\* PanelWidget::changeOutputCrosspoint: an input that is not listed gets an item with
\* the next input's value, which is not found and so not made the current one.
ChangeOutputCrosspoint(p, i) ==
  LET q == IF ItemsOf(p, i) # {}
           THEN [p EXCEPT !.cur = Min(ItemsOf(p, i))]
           ELSE [p EXCEPT !.box = Append(@, [label |-> i, sends |-> i + 1]),
                          !.cur = IF p.box = <<>> THEN 1 ELSE @]
  IN Disarmed([q EXCEPT !.known = i, !.usable = TRUE])

\* MainWidget::outputCrosspointChangedData of xypanel: the item for an unknown input
\* is removed at once, which leaves the last one.
ChangeXy(p, i) ==
  Disarmed([p EXCEPT !.cur = IF ItemsOf(p, i) = {} THEN Len(p.box) ELSE Min(ItemsOf(p, i)),
                     !.known = i, !.usable = TRUE])

\* Mutant: the old crosspoint of the output stays marked.
OthersAndOld(p, o) == p.marks

Others(p, o) == {m \in p.marks : m[1] # o}

Mark(p, o, i) == [p EXCEPT !.marks = Others(p, o) \cup {m \in {<<o, i>>} : i \in ToSet(p.rows)}]

\* outputCrosspointChanged.
OnReport(p, o, i) ==
  CASE kind = "output" -> IF o = p.out THEN ChangeOutputCrosspoint(p, i) ELSE p
    [] kind = "xy"     -> IF o = p.out THEN ChangeXy(p, i) ELSE p
    [] kind = "xpoint" -> Mark(p, o, i)
    [] OTHER           -> IF o = p.out THEN Mark(p, o, i) ELSE p

\* PanelWidget::changeConnectionState.
Emptied(p) == [p EXCEPT !.box = <<>>, !.cur = 0]

\* ButtonWidget::changeConnectionState.
Unbuilt(p) == [p EXCEPT !.rows = <<>>, !.marks = {}]

\* connected(false): xpointpanel goes on as it is.
OnLost(p) ==
  CASE kind = "output" -> Emptied(p)
    [] kind = "xy"     -> [p EXCEPT !.usable = FALSE]
    [] kind = "xpoint" -> p
    [] OTHER           -> Unbuilt(p)

\* inputListChanged.
OnInputs(p, S) == IF kind = "output" THEN UpdateInputNames(p, S) ELSE p

\* The rows, or buttons, are made anew, and marked.
Listed(p, S) ==
  [p EXCEPT !.rows = Ascending(S),
            !.marks = {m \in Output \X ToSet(Ascending(S)) :
                         xp[m[1]] = m[2] /\ (kind = "xpoint" \/ m[1] = p.out)}]

\* routerBoxActivatedData of xypanel: the first output is selected.
RouterBox(p, S) ==
  ChangeXy([p EXCEPT !.out = 1,
                     !.box = [k \in 1 .. Cardinality(S) |-> Item(Ascending(S)[k])] \o <<Off>>],
           xp[1])

\* connected(true).
OnUp(p, S) ==
  CASE kind = "output" -> p
    [] kind = "xy"     -> RouterBox(p, S)
    [] OTHER           -> Listed(p, S)

-----------------------------------------------------------------------------
Init ==
  /\ kind \in Kinds
  /\ route \in [Output -> {0} \cup AtFirst]
  /\ there = AtFirst
  /\ commands = <<>>
  /\ stage = "down" /\ reports = <<>> /\ reals = {}
  /\ xp = [o \in Output |-> 0]
  /\ panel = CASE kind = "output" -> NewPanelWidget
               [] kind = "xy"     -> NewXy
               [] kind = "xpoint" -> NewXpoint
               [] OTHER           -> NewButtonWidget
  /\ wanted = <<>> /\ lapsed = FALSE /\ sent = <<>>
  /\ routes = 0 /\ sends = 0 /\ losses = 0

history == <<wanted, lapsed, sent, sends>>

-----------------------------------------------------------------------------
(* The server.                                                             *)

Told(o, i) == IF stage = "down" THEN reports ELSE Append(reports, <<o, i>>)

\* Another client changes a route.
OtherRoutes(o, i) ==
  /\ routes < MaxRoutes
  /\ routes' = routes + 1
  /\ route[o] # i /\ i \in {0} \cup there
  /\ route' = [route EXCEPT ![o] = i]
  /\ reports' = Told(o, i)
  /\ UNCHANGED <<kind, there, commands, stage, reals, xp, panel, history, losses>>

\* A node with an input connects.
InputAppears(i) ==
  /\ i \notin there
  /\ there' = there \cup {i}
  /\ UNCHANGED <<kind, route, routes, commands, parser, panel, history, losses>>

\* A route between an output and an input that are not both there changes nothing.
ActivateRoute ==
  /\ commands # <<>>
  /\ commands' = Tail(commands)
  /\ LET o == Head(commands)[1]
         i == Head(commands)[2]
     IN IF o \in Output /\ i \in {0} \cup there /\ route[o] # i
        THEN /\ route' = [route EXCEPT ![o] = i]
             /\ reports' = Told(o, i)
        ELSE UNCHANGED <<route, reports>>
  /\ UNCHANGED <<kind, there, routes, stage, reals, xp, panel, history, losses>>

-----------------------------------------------------------------------------
(* The parser.                                                             *)

ConnectionClosed ==
  /\ stage # "down" /\ losses < MaxLosses
  /\ losses' = losses + 1
  /\ stage' = "down" /\ reports' = <<>> /\ commands' = <<>>
  /\ xp' = [o \in Output |-> 0]
  /\ panel' = OnLost(panel)
  /\ lapsed' = (lapsed \/ (kind = "output" /\ panel.armed))
  /\ UNCHANGED <<kind, server, reals, wanted, sent, sends>>

\* The holdoff timer reconnects, and the login succeeds.
Reconnect ==
  /\ stage = "down"
  /\ stage' = "names"
  /\ UNCHANGED <<kind, server, commands, reports, reals, xp, panel, history, losses>>

\* The list of inputs has come.  One below another that is missing is not real any
\* more; one above all others stays what it was.
ReadSources ==
  /\ stage = "names"
  /\ stage' = "inputs"
  /\ reals' = there \cup {i \in reals : \A j \in there : j < i}
  /\ panel' = OnInputs(panel, reals')
  /\ lapsed' = (lapsed \/ (kind = "output" /\ panel.armed))
  /\ UNCHANGED <<kind, server, commands, reports, xp, wanted, sent, sends, losses>>

\* The lists of outputs and snapshots have come, and the server answers RouteStat.
RouteStat ==
  /\ stage = "inputs"
  /\ stage' = "reports"
  /\ reports' = reports \o [o \in Output |-> <<o, route[o]>>]
  /\ UNCHANGED <<kind, server, commands, reals, xp, panel, history, losses>>

\* The report of the last output ends the loading.
CrosspointChanged ==
  /\ reports # <<>>
  /\ reports' = Tail(reports)
  /\ LET o == Head(reports)[1]
         i == Head(reports)[2]
     IN /\ xp' = [xp EXCEPT ![o] = i]
        /\ panel' = OnReport(panel, o, i)
        /\ lapsed' = (lapsed /\ panel'.armed)
        /\ stage' = IF stage = "reports" /\ o = Outputs THEN "startup" ELSE stage
  /\ UNCHANGED <<kind, server, commands, reals, wanted, sent, sends, losses>>

\* startupData.
Startup ==
  /\ stage = "startup"
  /\ stage' = "up"
  /\ panel' = OnUp(panel, reals)
  /\ UNCHANGED <<kind, server, commands, reports, reals, xp, history, losses>>

-----------------------------------------------------------------------------
(* The person.                                                             *)

\* setOutputCrosspoint; without a connection nothing is sent.
Send(did, meant, excused) ==
  /\ stage # "down" /\ sends < MaxSends
  /\ sends' = sends + 1
  /\ commands' = Append(commands, did)
  /\ sent' = [did |-> did, meant |-> meant, excused |-> excused]

Unsent == UNCHANGED <<commands, sent, sends>>

\* inputBoxActivatedData.
InputBoxActivated(k) ==
  /\ kind \in {"output", "xy"} /\ panel.usable /\ k \in DOMAIN panel.box
  /\ panel' = [panel EXCEPT !.cur = k, !.armed = panel.known # panel.box[k].sends]
  /\ wanted' = <<panel.out, panel.box[k].label>>
  /\ lapsed' = (lapsed /\ panel'.armed)
  /\ Unsent
  /\ UNCHANGED <<kind, server, parser, losses>>

\* outputBoxActivatedData of xypanel.
OutputBoxActivated(o) ==
  /\ kind = "xy" /\ panel.usable
  /\ panel' = ChangeXy([panel EXCEPT !.out = o], xp[o])
  /\ Unsent
  /\ UNCHANGED <<kind, server, parser, wanted, lapsed, losses>>

\* takeButtonClickedData and takeData.  An empty list counts as the first input for
\* the output panel, as OFF for xypanel.
Take ==
  LET sends1 == IF panel.cur # 0 THEN panel.box[panel.cur].sends
                ELSE IF kind = "output" THEN 1 ELSE 0
  IN
  /\ kind \in {"output", "xy"} /\ panel.armed
  /\ Send(<<panel.out, sends1>>, wanted, lapsed \/ Unlisted(panel))
  /\ UNCHANGED <<kind, server, parser, panel, wanted, lapsed, losses>>

\* cancelButtonClickedData and cancelData.
Cancel ==
  /\ kind \in {"output", "xy"} /\ panel.armed
  /\ panel' = [panel EXCEPT !.armed = FALSE,
                            !.cur = IF ItemsOf(panel, panel.known) = {} THEN @
                                    ELSE Min(ItemsOf(panel, panel.known))]
  /\ lapsed' = FALSE
  /\ Unsent
  /\ UNCHANGED <<kind, server, parser, wanted, losses>>

\* EndpointList::endpoint, for slots that start from 1: none in the last.
Endpoint(list, slot) == IF slot >= Len(list) THEN 0 ELSE list[slot]

\* xpointDoubleClickedData: the crosspoint that is on is turned off.  A person means
\* the one that is marked.
XpointDoubleClicked(x, y) ==
  LET o == Endpoint([k \in Output |-> k], x)
      i == Endpoint(panel.rows, y)
      on == (IF o = 0 THEN 0 ELSE xp[o]) = i
  IN
  /\ kind = "xpoint" /\ y \in DOMAIN panel.rows
  /\ Send(<<o, IF on THEN 0 ELSE i>>,
          <<x, IF <<x, panel.rows[y]>> \in panel.marks THEN 0 ELSE panel.rows[y]>>,
          x = Outputs \/ y = Len(panel.rows) \/ stage # "up")
  /\ UNCHANGED <<kind, server, parser, panel, wanted, lapsed, losses>>

\* ButtonWidget::buttonClickedData.
ButtonClicked(i) ==
  /\ kind \in {"button", "armbutton"} /\ i \in ToSet(panel.rows)
  /\ panel.armed
  /\ Send(<<panel.out, i>>, <<panel.out, i>>, FALSE)
  /\ panel' = [panel EXCEPT !.armed = kind = "button"]
  /\ UNCHANGED <<kind, server, parser, wanted, lapsed, losses>>

\* armButtonClickedData.
ArmButtonClicked ==
  /\ kind = "armbutton" /\ panel.rows # <<>>
  /\ panel' = [panel EXCEPT !.armed = ~@]
  /\ Unsent
  /\ UNCHANGED <<kind, server, parser, wanted, lapsed, losses>>

Next ==
  \/ \E o \in Output, i \in {0} \cup Input : OtherRoutes(o, i)
  \/ \E i \in Input : InputAppears(i)
  \/ ActivateRoute
  \/ ConnectionClosed
  \/ Reconnect
  \/ ReadSources
  \/ RouteStat
  \/ CrosspointChanged
  \/ Startup
  \/ \E k \in 1 .. Inputs + 3 : InputBoxActivated(k)
  \/ \E o \in Output : OutputBoxActivated(o)
  \/ Take
  \/ Cancel
  \/ \E x \in Output, y \in Input : XpointDoubleClicked(x, y)
  \/ \E i \in Input : ButtonClicked(i)
  \/ ArmButtonClicked

Spec == Init /\ [][Next]_vars

-----------------------------------------------------------------------------
(* Properties.                                                             *)

\* A panel sends the route a person meant: the chosen item's, though routes were
\* reported or the connection came and went in between, the clicked button's, the
\* reverse of what the clicked crosspoint shows.  Excused are an output panel's choice
\* that was armed when its list was emptied or made anew, its items for inputs it did
\* not know, and xpointpanel's last row and last column and its clicks while it reloads.
SendsWhatWasMeant ==
  sent # <<>> => sent.excused \/ sent.did = sent.meant

Shows(o) ==
  CASE kind \in {"output", "xy"} -> panel.cur # 0 /\ panel.box[panel.cur].label = route[o]
    [] kind = "xpoint" -> {m \in panel.marks : m[1] = o} = {<<o, route[o]>>} \ {<<o, 0>>}
    [] OTHER -> panel.marks = {<<o, route[o]>>} \ {<<o, 0>>}

\* No choice is pending.
Settled == kind \in {"output", "xy"} => ~panel.armed /\ ~Unlisted(panel)

\* When everything has arrived and no choice is pending, a panel shows for its output,
\* or for each, the input that is routed there, if it was listed when it connected.
\* Excused is an output panel on which a person picked an item for an input it did not
\* know: nothing is armed if the item would send the input that is routed.
ShowsRoute ==
  (stage = "up" /\ reports = <<>>) =>
    \A o \in IF kind = "xpoint" THEN Output ELSE {panel.out} :
      (route[o] \in {0} \cup reals /\ Settled) => Shows(o)

=============================================================================
