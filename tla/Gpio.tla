--------------------------------- MODULE Gpio ---------------------------------
(***************************************************************************)
(* One bundle of GPIO lines, from the device to the people who watch and   *)
(* drive it.  The device reports to its driver in drouterd (matrix_lwrp),  *)
(* which keeps a row of GPIS or GPOS and notifies dprotod; the Software    *)
(* Authority server of dprotod reads the row anew for each report to a     *)
(* client.  Commands take the way back.  The client is the widgets of      *)
(* buttonpanel (a lamp and a momentary button), the state dialog of        *)
(* xpointpanel, or a program of somebody else that uses the reports' masks. *)
(*                                                                         *)
(* A code gives the level of each line of the bundle, h or l; a command's  *)
(* mask may leave a line alone with x.  A GPO also follows a source.       *)
(***************************************************************************)
EXTENDS Integers, Sequences, FiniteSets

CONSTANTS
  Lines,          \* the lines of the bundle (five in the program)
  Masks,          \* the masks widgets are made with
  Typed,          \* the texts people type, short ones too
  AtFirst,        \* the codes a device starts with
  MaxChanges,     \* bound: changes the device makes by itself
  MaxSends,       \* bound: commands of the client
  MaxFaults       \* bound: lost connections and changes of the active instance

Levels == {"h", "l"}
Codes  == [Lines -> Levels]
Texts  == [Lines -> Levels \cup {"x"}]
Kinds  == {"gpiowidget", "dialog", "client"}
Sources == {"off", "gpi"}

\* StateLight and StateButton: a widget's mask names one line, or the panel ends.
WidgetMask(m) == Cardinality({l \in Lines : m[l] # "x"}) = 1

ASSUME GpioAssumption ==
  /\ IsFiniteSet(Lines)
  /\ Masks \subseteq {m \in Texts : WidgetMask(m)}
  /\ AtFirst \subseteq Codes
  /\ Typed \subseteq [Lines -> Levels \cup {"x", ""}]
  /\ MaxChanges \in Nat /\ MaxSends \in Nat /\ MaxFaults \in Nat

VARIABLES
  kind,           \* the client's
  line,           \* "i" for a GPI, "o" for a GPO
  mask,           \* of the button and the lamp
  device,         \* the code and the source of the device's lines
  wire, orders,   \* from and to the device
  writeable,      \* drouter_writeable
  row,            \* the row of GPIS or GPOS: a set with none or one
  notes, ipc,     \* from drouterd to dprotod and back
  masked,         \* proto_gpistat_masked or proto_gpostat_masked, and proto_routestat_masked
  linked,         \* the client is connected
  up,             \* the client was told connected(true)
  requests, replies,  \* from and to the client
  known,          \* sa_gpi_states or sa_gpo_states, and sa_output_xpoints
  shown,          \* the code the widgets were told last
  held,           \* the button is held down
  edit, settable, \* the dialog's text, and whether its Set button is enabled
  meant,          \* history: the levels commanded that nothing else has touched since
  unsure,         \* history: what the client was not told since the row was made or masked
  unreported,     \* history: the GPO was not reported since its node connected
  changes, sends, faults  \* bounded by the constants

still   == <<kind, line, mask>>
node    == <<device, wire, orders>>
core    == <<writeable, row, notes>>
server  == <<masked, linked>>
panel   == <<up, known, shown, held, edit, settable>>
history == <<meant, unsure, unreported>>
bounded == <<changes, sends, faults>>
vars    == <<still, node, core, ipc, server, requests, replies, panel, history, bounded>>

-----------------------------------------------------------------------------
(* Codes.                                                                   *)

\* No code: of a client that was told none.
NoCode  == [l \in Lines |-> ""]
Nothing == [l \in Lines |-> "x"]
Nowhere == [code |-> NoCode, src |-> ""]

\* The lines a mask leaves alone keep their level.
Merged(code, m) == [l \in Lines |-> IF m[l] = "x" THEN code[l] ELSE m[l]]

Opposite(level) == IF level = "l" THEN "h" ELSE "l"

\* Mutant: the button releases with the mask it was pressed with.
InvertedNever(m) == m

\* c_inverted_mask.
Inverted(m) == [l \in Lines |-> IF m[l] = "x" THEN "x" ELSE Opposite(m[l])]

\* StateLight::setState: whether the lamp is lit.
Lit == \E l \in Lines : mask[l] # "x" /\ shown[l] = mask[l]

\* SaParser::setGpiState and setGpoState: without a connection the command is lost.
SendCommand(c) ==
  /\ sends < MaxSends /\ sends' = sends + 1
  /\ requests' = IF linked THEN Append(requests, c) ELSE requests

Trigger(m) == [op |-> "trigger", arg |-> m]

-----------------------------------------------------------------------------
(* A widget as it is made: GpioParser::fromString takes a direction in     *)
(* either case, and the widgets take all but a lower-case i for an output. *)

Direction(text) == IF text = "i" THEN "i" ELSE "o"

FromString == [line : {Direction(text) : text \in {"i", "I", "o", "O"}}, mask : Masks]

Init ==
  /\ kind \in Kinds
  /\ \E w \in FromString : line = w.line /\ mask = w.mask
  /\ device \in [code : AtFirst, src : {"off"}]
  /\ wire = <<>> /\ orders = <<>>
  /\ writeable = TRUE /\ row = {} /\ notes = <<>> /\ ipc = <<>>
  /\ masked = {} /\ linked = FALSE /\ up = FALSE
  /\ requests = <<>> /\ replies = <<>>
  /\ known = Nowhere /\ shown = NoCode
  /\ held = FALSE /\ edit = NoCode /\ settable = FALSE
  /\ meant = Nothing /\ unsure = {} /\ unreported = FALSE
  /\ changes = 0 /\ sends = 0 /\ faults = 0

-----------------------------------------------------------------------------
(* The device, and the driver that passes its reports on.                  *)

\* The device reports each change, if its driver is connected.
Becomes(d) ==
  /\ device' = d
  /\ wire' = IF d # device /\ row # {} THEN Append(wire, d) ELSE wire

\* The lines, or the source of a GPO, are changed at the device.
DeviceChanges(d) ==
  /\ changes < MaxChanges /\ changes' = changes + 1
  /\ d # device /\ (line = "i" => d.src = "off")
  /\ Becomes(d)
  /\ meant' = IF d.code = device.code THEN meant ELSE Nothing
  /\ UNCHANGED <<still, orders, core, ipc, server, requests, replies, panel, unsure,
                 unreported, sends, faults>>

DeviceObeys ==
  /\ orders # <<>> /\ orders' = Tail(orders)
  /\ LET c == Head(orders)
     IN IF c.op = "trigger"
        THEN Becomes([device EXCEPT !.code = Merged(@, c.arg)])
        ELSE Becomes([device EXCEPT !.src = c.arg])
  /\ UNCHANGED <<still, core, ipc, server, requests, replies, panel, history, bounded>>

\* Mutant: the row is compared with itself, once it is updated.
ChangesUnseen(new) == <<>>

\* The notifications gpiChangedData and gpoChangedData owe for a report: the row is
\* compared with it before the update.
Changes(new) ==
  IF row = {} THEN <<>>
  ELSE (IF \E r \in row : r.src # new.src THEN <<"route">> ELSE <<>>)
       \o (IF \E r \in row : r.code # new.code THEN <<"code">> ELSE <<>>)

\* DRouter::gpiChangedData, gpoChangedData.
StateChanged ==
  /\ wire # <<>> /\ wire' = Tail(wire)
  /\ row' = {Head(wire) : r \in row}
  /\ notes' = notes \o Changes(Head(wire))
  /\ unreported' = FALSE
  /\ UNCHANGED <<still, device, orders, writeable, ipc, server, requests, replies, panel,
                 meant, unsure, bounded>>

\* DRouter::nodeConnectedData with state: the row of a GPO is made with the code of the
\* GPI in the same place, whatever that is.
NodeConnected(gpi) ==
  /\ row = {}
  /\ line = "i" => gpi = device.code
  /\ row' = {[device EXCEPT !.code = gpi]}
  /\ unreported' = (line = "o")
  /\ unsure' = {"code", "route"}
  /\ UNCHANGED <<still, node, writeable, notes, ipc, server, requests, replies, panel, meant,
                 bounded>>

\* DRouter::nodeConnectedData without: what is on its way either side is lost.
NodeDisconnected ==
  /\ row # {} /\ faults < MaxFaults /\ faults' = faults + 1
  /\ row' = {} /\ wire' = <<>> /\ orders' = <<>>
  /\ meant' = Nothing
  /\ UNCHANGED <<still, device, writeable, notes, ipc, server, requests, replies, panel,
                 unsure, unreported, changes, sends>>

\* DRouter::setWriteable.
SetWriteable(state) ==
  /\ faults < MaxFaults /\ faults' = faults + 1
  /\ writeable # state /\ writeable' = state
  /\ UNCHANGED <<still, node, row, notes, ipc, server, requests, replies, panel, history,
                 changes, sends>>

\* DRouter::ProcessIpcCommand: SetGpiState, SetGpoState, SetGpioCrosspoint and
\* ClearGpioCrosspoint; nothing comes back.
ProcessIpcCommand ==
  /\ ipc # <<>> /\ ipc' = Tail(ipc)
  /\ IF writeable /\ row # {}
     THEN orders' = Append(orders, Head(ipc)) /\ UNCHANGED meant
     ELSE meant' = Nothing /\ UNCHANGED orders
  /\ UNCHANGED <<still, device, wire, core, server, requests, replies, panel, unsure,
                 unreported, bounded>>

-----------------------------------------------------------------------------
(* dprotod: the client's session.                                          *)

\* GPIStatMessage, GPOStatMessage and RouteStatMessage of the rows there are.
Stat(what) == IF row = {} THEN <<>>
              ELSE <<[op |-> what, arg |-> CHOOSE r \in row : TRUE]>>

Told(what) == IF row = {} THEN unsure ELSE unsure \ what

\* ProtocolSa::gpiCodeChanged, gpoCodeChanged, gpoCrosspointChanged: the row is read now,
\* which may have been changed since.
Notified ==
  /\ notes # <<>> /\ notes' = Tail(notes)
  /\ IF linked /\ Head(notes) \notin masked
     THEN replies' = replies \o Stat(Head(notes)) /\ unsure' = Told({Head(notes)})
     ELSE unsure' = unsure \cup {Head(notes)} /\ UNCHANGED replies
  /\ UNCHANGED <<still, node, writeable, row, ipc, server, requests, panel, meant,
                 unreported, bounded>>

\* SendRouteInfo, SendGpiInfo and SendGpoInfo.
SendInfo(c) ==
  /\ c.op = "list"
  /\ replies' = replies \o Stat("route") \o Stat("code")
  /\ unsure' = Told({"code", "route"})
  /\ UNCHANGED <<ipc, masked>>

\* TriggerGpi, TriggerGpo, ActivateRoute: the duration a command gives is not used.
TriggerGpio(c) ==
  /\ c.op \in {"trigger", "activate"}
  /\ ipc' = Append(ipc, c)
  /\ UNCHANGED <<replies, unsure, masked>>

\* DrouterMaskGpiStat, DrouterMaskGpoStat, DrouterMaskRouteStat and DrouterMaskStat.
DrouterMaskStat(c) ==
  /\ c.op \in {"mask", "unmask"}
  /\ masked' = IF c.op = "mask" THEN masked \cup c.arg ELSE masked \ c.arg
  /\ UNCHANGED <<replies, unsure, ipc>>

ProcessCommand ==
  /\ requests # <<>> /\ requests' = Tail(requests)
  /\ SendInfo(Head(requests)) \/ TriggerGpio(Head(requests)) \/ DrouterMaskStat(Head(requests))
  /\ UNCHANGED <<still, node, core, linked, panel, meant, unreported, bounded>>

-----------------------------------------------------------------------------
(* The client.                                                              *)

\* SaParser asks for the states after the last route of its start.
Connect ==
  /\ ~linked /\ linked' = TRUE
  /\ masked' = {}
  /\ requests' = <<[op |-> "list", arg |-> ""]>>
  /\ UNCHANGED <<still, node, core, ipc, replies, panel, history, bounded>>

\* StateButton::changeConnectionState, GpioWidget::changeConnectionState: shown, enabled.
Started ==
  /\ linked /\ ~up /\ up' = TRUE
  /\ \A i \in DOMAIN requests : requests[i].op # "list"
  /\ UNCHANGED <<still, node, core, ipc, server, requests, replies, known, shown, held,
                 edit, settable, history, bounded>>

\* SaParser::Clear and connected(false): the button is disabled and comes up without a
\* command that could be sent; lamps and dialogs stay as they are.
Lost ==
  /\ linked /\ faults < MaxFaults /\ faults' = faults + 1
  /\ linked' = FALSE /\ up' = FALSE /\ held' = FALSE
  /\ requests' = <<>> /\ replies' = <<>>
  /\ known' = Nowhere
  /\ meant' = IF held \/ requests # <<>> THEN Nothing ELSE meant
  /\ UNCHANGED <<still, node, core, ipc, masked, shown, edit, settable, unsure, unreported,
                 changes, sends>>

\* SaParser::DispatchCommand for GPIStat and GPOStat, and what its signal calls:
\* StateLight, MultiStateWidget and StateDialog.
GpioStat(r) ==
  /\ r.op = "code"
  /\ known' = [known EXCEPT !.code = r.arg.code]
  /\ shown' = r.arg.code
  /\ IF kind = "dialog" THEN edit' = r.arg.code /\ settable' = FALSE
                        ELSE UNCHANGED <<edit, settable>>

\* SaParser::DispatchCommand for RouteStat.
RouteStat(r) ==
  /\ r.op = "route"
  /\ known' = [known EXCEPT !.src = r.arg.src]
  /\ UNCHANGED <<shown, edit, settable>>

DispatchCommand ==
  /\ replies # <<>> /\ replies' = Tail(replies)
  /\ GpioStat(Head(replies)) \/ RouteStat(Head(replies))
  /\ UNCHANGED <<still, node, core, ipc, server, requests, up, held, history, bounded>>

\* StateButton::pressedData.
Pressed ==
  /\ kind = "gpiowidget" /\ up /\ ~held
  /\ held' = TRUE
  /\ SendCommand(Trigger(mask))
  /\ meant' = Merged(meant, mask)
  /\ UNCHANGED <<still, node, core, ipc, server, replies, up, known, shown, edit, settable,
                 unsure, unreported, changes, faults>>

\* StateButton::releasedData: the line is meant to be as it was.
Released ==
  /\ held /\ held' = FALSE
  /\ SendCommand(Trigger(Inverted(mask)))
  /\ meant' = [l \in Lines |-> IF mask[l] = "x" THEN meant[l] ELSE Opposite(mask[l])]
  /\ UNCHANGED <<still, node, core, ipc, server, replies, up, known, shown, edit, settable,
                 unsure, unreported, changes, faults>>

\* StateDialog::stateTextChangedData.
TextChanged(text) ==
  /\ kind = "dialog"
  /\ edit' = text
  /\ settable' = (text \in Texts /\ text # known.code)
  /\ UNCHANGED <<still, node, core, ipc, server, requests, replies, up, known, shown, held,
                 history, bounded>>

\* StateDialog::setData, which leaves the button enabled.
SetData ==
  /\ settable
  /\ SendCommand(Trigger(edit))
  /\ meant' = IF linked THEN Merged(meant, edit) ELSE meant
  /\ UNCHANGED <<still, node, core, ipc, server, replies, panel, unsure, unreported, changes,
                 faults>>

\* StateDialog::resetData.
ResetData ==
  /\ settable /\ settable' = FALSE
  /\ edit' = known.code
  /\ UNCHANGED <<still, node, core, ipc, server, requests, replies, up, known, shown, held,
                 history, bounded>>

\* Somebody else's client sends a mask, or a route of a GPO.
ClientSends(c) ==
  /\ kind = "client" /\ linked
  /\ c.op = "activate" => line = "o"
  /\ SendCommand(c)
  /\ UNCHANGED <<still, node, core, ipc, server, replies, panel, history, changes, faults>>

ClientCommands ==
  [op : {"mask", "unmask"}, arg : {{"code"}, {"route"}, {"code", "route"}}]
  \cup [op : {"activate"}, arg : Sources]

Next ==
  \/ \E d \in [code : Codes, src : Sources] : DeviceChanges(d)
  \/ DeviceObeys
  \/ StateChanged
  \/ \E gpi \in AtFirst \cup {device.code} : NodeConnected(gpi)
  \/ NodeDisconnected
  \/ \E state \in BOOLEAN : SetWriteable(state)
  \/ ProcessIpcCommand
  \/ Notified
  \/ ProcessCommand
  \/ Connect
  \/ Started
  \/ Lost
  \/ DispatchCommand
  \/ Pressed
  \/ Released
  \/ \E text \in Typed : TextChanged(text)
  \/ SetData
  \/ ResetData
  \/ \E c \in ClientCommands : ClientSends(c)

Spec == Init /\ [][Next]_vars

-----------------------------------------------------------------------------
(* Properties.                                                              *)

Settled ==
  wire = <<>> /\ orders = <<>> /\ notes = <<>> /\ ipc = <<>> /\ requests = <<>> /\ replies = <<>>

\* When nothing is on its way, a connected client shows the device's levels and source,
\* however changes, lists, reports and commands overtook each other: unless the row was
\* made anew or its report masked after the client was told (nodeConnectedData notifies
\* no code), or it is a GPO's row with the code of the GPI.
ShowsDevice ==
  Settled /\ linked /\ row # {} =>
    /\ "code" \notin unsure /\ ~unreported
         => /\ known.code = device.code /\ shown = device.code
            /\ Lit <=> \E l \in Lines : mask[l] # "x" /\ device.code[l] = mask[l]
    /\ "route" \notin unsure => known.src = device.src

\* When nothing is on its way, each line has the level the last command gave it: a
\* button released leaves its line released, whatever was pressed, typed or masked in
\* between, unless the device, a refusal or a lost connection came in between.
LinesFollow ==
  Settled => \A l \in Lines : meant[l] # "x" => device.code[l] = meant[l]

=============================================================================
