------------------------------- MODULE Tether -------------------------------
(***************************************************************************)
(* The tether of drouterd (src/drouterd/tether.cpp): two instances of the  *)
(* router decide by polling each other, over UDP and over a serial line,   *)
(* which of them is active.                                                *)
(*                                                                         *)
(* Every instance waits a random interval, sends '?' on both links and     *)
(* opens a window.  An instance polled outside a window answers '+' or '-' *)
(* for its own state; polled inside a window it answers nothing and starts *)
(* over (Backoff).  When the window closes, an active instance that heard  *)
(* '+' stands down and an inactive one that heard no '+' goes active.      *)
(*                                                                         *)
(* Time is counted in ticks.  A message carries the ticks it may still be  *)
(* under way, an armed timer the ticks until it fires, and a tick passes   *)
(* only when nothing is due.                                               *)
(***************************************************************************)
EXTENDS Naturals

CONSTANTS
  A, B,           \* the two instances of the [Tether] section
  Link,           \* the links between them: UDP and a serial line
  Latency,        \* most ticks a message is under way, handling included
  Window,         \* DROUTER_TETHER_WINDOW_INTERVAL, in ticks
  Delays,         \* what GetInterval may return, in ticks
  StartDelay,     \* ticks from exec of drouterd to Tether::start
  Lossy,          \* the links that may lose a message
  Addressed,      \* the instances whose own address is on an interface
  MayCrash,       \* whether a process may die without running exitData
  Copy            \* bound: tells apart equal messages sent in one tick

Instance == {A, B}
Symbol   == {"?", "+", "-"}

Peer(n) == IF n = A THEN B ELSE A

ASSUME TetherAssumption ==
  /\ A # B
  /\ Link # {}
  /\ Latency \in Nat /\ Window \in Nat /\ Delays \subseteq Nat
  /\ StartDelay \in Nat
  /\ Window > 2 * Latency     \* a poll is answered before its window closes
  /\ Lossy \subseteq Link
  /\ Addressed \subseteq Instance
  /\ MayCrash \in BOOLEAN

Message == [src : Instance, link : Link, sym : Symbol, due : 0 .. Latency,
            copy : Copy]

VARIABLES
  phase,          \* phase[n]: "down", or the timer that is armed
  left,           \* left[n]: ticks until it fires, or until Start is possible
  active,         \* active[n]: tether_active_state
  heard,          \* heard[n]: the links whose tether_*_state is '+'
  armed,          \* armed[n]: tether_exit_args is set
  shared,         \* the hosts with the shared address on an interface
  wire            \* the messages under way

vars == <<phase, left, active, heard, armed, shared, wire>>

TypeOK ==
  /\ phase \in [Instance -> {"down", "interval", "window"}]
  /\ left \in [Instance -> Nat]
  /\ active \in [Instance -> BOOLEAN]
  /\ heard \in [Instance -> SUBSET Link]
  /\ armed \in [Instance -> BOOLEAN]
  /\ shared \subseteq Instance
  /\ wire \subseteq Message

Init ==
  /\ phase = [n \in Instance |-> "down"]
  /\ left = [n \in Instance |-> 0]
  /\ active = [n \in Instance |-> FALSE]
  /\ heard = [n \in Instance |-> {}]
  /\ armed = [n \in Instance |-> FALSE]
  /\ shared = {}
  /\ wire = {}

-----------------------------------------------------------------------------
(* The two timers are never armed together: each handler that arms one     *)
(* runs when the other fires or stops it.                                  *)

\* tether_interval_timer->start(GetInterval()): a random delay.
ArmInterval(n) ==
  /\ phase' = [phase EXCEPT ![n] = "interval"]
  /\ \E t \in Delays : left' = [left EXCEPT ![n] = t]

ArmWindow(n) ==
  /\ phase' = [phase EXCEPT ![n] = "window"]
  /\ left' = [left EXCEPT ![n] = Window]

Fresh(n, l, s, c) ==
  [src |-> n, link |-> l, sym |-> s, due |-> Latency, copy |-> c]

-----------------------------------------------------------------------------
(* The process                                                             *)

\* protocolData, a while after the process was started.
Start(n) ==
  /\ phase[n] = "down"
  /\ left[n] = 0
  /\ ArmInterval(n)
  /\ active' = [active EXCEPT ![n] = FALSE]
  /\ armed' = [armed EXCEPT ![n] = FALSE]
  /\ UNCHANGED <<heard, shared, wire>>

\* The process is gone and so is its memory; the host's interfaces stay.
Die(n) ==
  /\ phase[n] # "down"
  /\ phase' = [phase EXCEPT ![n] = "down"]
  /\ left' = [left EXCEPT ![n] = StartDelay]
  /\ active' = [active EXCEPT ![n] = FALSE]
  /\ heard' = [heard EXCEPT ![n] = {}]
  /\ armed' = [armed EXCEPT ![n] = FALSE]
  /\ UNCHANGED wire

Crash(n) ==
  /\ MayCrash
  /\ Die(n)
  /\ UNCHANGED shared

\* Mutant: a process that ends in good order leaves the address behind.
ExitKeepingAddress(n) ==
  /\ Die(n)
  /\ UNCHANGED shared

\* exitData: cleanup() removes the address this process may have added.
Exit(n) ==
  /\ Die(n)
  /\ shared' = IF armed[n] THEN shared \ {n} ELSE shared

-----------------------------------------------------------------------------
(* The timers                                                              *)

\* ModifySharedAddress does nothing on a host without its own address.
AddShared(n) ==
  IF n \in Addressed
    THEN /\ shared' = shared \cup {n}
         /\ armed' = [armed EXCEPT ![n] = TRUE]
    ELSE UNCHANGED <<shared, armed>>

DelShared(n) ==
  /\ shared' = IF n \in Addressed THEN shared \ {n} ELSE shared
  /\ UNCHANGED armed

\* Mutant: what was heard in the last window is still there in the next.
IntervalTimeoutKeepingHeard(n) ==
  /\ phase[n] = "interval"
  /\ left[n] = 0
  /\ \E c \in Copy :
       LET polls == {Fresh(n, l, "?", c) : l \in Link}
       IN  /\ polls \cap wire = {}
           /\ wire' = wire \cup polls
  /\ ArmWindow(n)
  /\ UNCHANGED <<heard, active, armed, shared>>

\* intervalTimeoutData: poll the peer on both links.
IntervalTimeout(n) ==
  /\ phase[n] = "interval"
  /\ left[n] = 0
  /\ \E c \in Copy :
       LET polls == {Fresh(n, l, "?", c) : l \in Link}
       IN  /\ polls \cap wire = {}
           /\ wire' = wire \cup polls
  /\ heard' = [heard EXCEPT ![n] = {}]
  /\ ArmWindow(n)
  /\ UNCHANGED <<active, armed, shared>>

\* Mutant: the peer counts as active only when every link says so.
HeardActiveOnAll(n) == heard[n] = Link

HeardActive(n) == heard[n] # {}

StandDown(n) ==
  /\ active[n]
  /\ HeardActive(n)
  /\ active' = [active EXCEPT ![n] = FALSE]
  /\ DelShared(n)

GoActive(n) ==
  /\ ~active[n]
  /\ ~HeardActive(n)
  /\ active' = [active EXCEPT ![n] = TRUE]
  /\ AddShared(n)

Remain(n) ==
  /\ active[n] <=> ~HeardActive(n)
  /\ UNCHANGED <<active, armed, shared>>

\* windowTimeoutData
WindowTimeout(n) ==
  /\ phase[n] = "window"
  /\ left[n] = 0
  /\ StandDown(n) \/ GoActive(n) \/ Remain(n)
  /\ ArmInterval(n)
  /\ UNCHANGED <<heard, wire>>

-----------------------------------------------------------------------------
(* udpReadyReadData and ttyReadyReadData, one message at a time            *)

\* Mutant: the poll is dropped and the window stays open.
BackoffKeepingWindow(n, m) ==
  /\ phase[n] = "window"
  /\ m.sym = "?"
  /\ wire' = wire \ {m}
  /\ UNCHANGED <<phase, left, heard>>

\* A poll that meets an open window is not answered: both start over.
Backoff(n, m) ==
  /\ phase[n] = "window"
  /\ m.sym = "?"
  /\ ArmInterval(n)
  /\ wire' = wire \ {m}
  /\ UNCHANGED heard

\* Mutant: the state is kept under the sender instead of the link.
NoteUnderSender(n, m) ==
  /\ phase[n] = "window"
  /\ m.sym # "?"
  /\ heard' = [heard EXCEPT ![n] = IF m.sym = "+" THEN @ \cup {m.src}
                                                  ELSE @ \ {m.src}]
  /\ wire' = wire \ {m}
  /\ UNCHANGED <<phase, left>>

Note(n, m) ==
  /\ phase[n] = "window"
  /\ m.sym # "?"
  /\ heard' = [heard EXCEPT ![n] = IF m.sym = "+" THEN @ \cup {m.link}
                                                  ELSE @ \ {m.link}]
  /\ wire' = wire \ {m}
  /\ UNCHANGED <<phase, left>>

\* Mutant: the answers for active and inactive are swapped.
ReplySwapped(n, m) ==
  /\ phase[n] = "interval"
  /\ m.sym = "?"
  /\ \E c \in Copy :
       LET answer == Fresh(n, m.link, IF active[n] THEN "-" ELSE "+", c)
       IN  /\ answer \notin wire
           /\ wire' = (wire \ {m}) \cup {answer}
  /\ UNCHANGED <<phase, left, heard>>

Reply(n, m) ==
  /\ phase[n] = "interval"
  /\ m.sym = "?"
  /\ \E c \in Copy :
       LET answer == Fresh(n, m.link, IF active[n] THEN "+" ELSE "-", c)
       IN  /\ answer \notin wire
           /\ wire' = (wire \ {m}) \cup {answer}
  /\ UNCHANGED <<phase, left, heard>>

\* A late answer, or one for a process that is no more.
Discard(n, m) ==
  /\ phase[n] = "down" \/ (phase[n] = "interval" /\ m.sym # "?")
  /\ wire' = wire \ {m}
  /\ UNCHANGED <<phase, left, heard>>

ReadyRead(m) ==
  /\ LET n == Peer(m.src)
     IN  Backoff(n, m) \/ Note(n, m) \/ Reply(n, m) \/ Discard(n, m)
  /\ UNCHANGED <<active, armed, shared>>

-----------------------------------------------------------------------------
(* The links and the clock                                                 *)

Lose(m) ==
  /\ m.link \in Lossy
  /\ wire' = wire \ {m}
  /\ UNCHANGED <<phase, left, active, heard, armed, shared>>

Tick ==
  /\ \A n \in Instance : phase[n] # "down" => left[n] > 0
  /\ \A m \in wire : m.due > 0
  /\ left' = [n \in Instance |-> IF left[n] > 0 THEN left[n] - 1 ELSE 0]
  /\ wire' = {[m EXCEPT !.due = @ - 1] : m \in wire}
  /\ UNCHANGED <<phase, active, heard, armed, shared>>

Next ==
  \/ \E n \in Instance : \/ Start(n) \/ Crash(n) \/ Exit(n)
                         \/ IntervalTimeout(n) \/ WindowTimeout(n)
  \/ \E m \in wire : ReadyRead(m)
  \/ \E m \in wire : Lose(m)
  \/ Tick

Spec == Init /\ [][Next]_vars

(* Timers fire, messages are handled and time passes; nothing obliges a    *)
(* process to start, to end or a link to lose a message.                   *)
FairSpec ==
  /\ Spec
  /\ WF_vars(Tick)
  /\ \A n \in Instance : WF_vars(IntervalTimeout(n)) /\ WF_vars(WindowTimeout(n))
  /\ WF_vars(\E m \in wire : ReadyRead(m))

-----------------------------------------------------------------------------
(* Properties                                                              *)

\* Two instances never both consider themselves active: each would accept
\* commands and the routers would be driven from two places.
AtMostOneActive == ~ (active[A] /\ active[B])

Running == {n \in Instance : phase[n] # "down"}
Serving == {n \in Instance : active[n]}

\* The pair behaves as an active/standby cluster: nobody takes over from an
\* active peer and nobody stands down unless its process ends, whatever the
\* order in which polls, answers, windows and restarts interleave.
Cluster == INSTANCE ActiveStandby WITH running <- Running, serving <- Serving
ImplementsActiveStandby == Cluster!Spec

\* drouter.conf(5): the shared address "will be automatically assigned to
\* whichever cluster instance is active"; a standby does not answer to it.
AddressFollowsActive == \A n \in shared : phase[n] # "down" => active[n]

\* Service is never given up by mistake: an active instance stands down only
\* while its peer is active, unless the peer's process ended meanwhile.
NoVacancy ==
  [][\A n \in Instance :
       active[n] /\ ~active'[n] /\ phase'[n] # "down"
         => active[Peer(n)] \/ phase[Peer(n)] = "down"]_vars

\* When one process is gone for good and the other keeps running, the
\* survivor ends up active and remains so: answers of the dead peer that are
\* still under way and half-finished windows only delay it.
Failover ==
  \A n \in Instance :
    <>[](phase[n] # "down" /\ phase[Peer(n)] = "down") => <>[]active[n]

-----------------------------------------------------------------------------
(* Why it works: the inductive invariant behind AtMostOneActive            *)

Poll(m, n) == m.src = n /\ m.sym = "?"

\* A poll under way was sent no later than its sender's window opened, and
\* an answer under way answers such a poll.
PollsInTime ==
  \A m \in wire :
    m.sym = "?" /\ phase[m.src] = "window"
      => m.due + Window <= Latency + left[m.src]

AnswersInTime ==
  \A m \in wire :
    m.sym = "+" /\ phase[Peer(m.src)] = "window"
      => m.due + Window <= 2 * Latency + left[Peer(m.src)]

\* What an instance said while inactive has arrived before it goes active.
DenialsInTime ==
  \A m \in wire :
    m.sym = "-"
      => /\ ~active[m.src]
         /\ phase[m.src] = "window" => m.due + Window <= Latency + left[m.src]

\* Nobody is told of an active peer while active itself.
NoRival ==
  /\ \A m \in wire : m.sym = "+" => ~active[Peer(m.src)]
  /\ \A n \in Instance :
       phase[n] = "window" /\ HeardActive(n) => ~active[n]

PolledOnEveryLink(n) == \A l \in Link : \E m \in wire : Poll(m, n) /\ m.link = l

\* Of two open windows the later one has all of its polls under way.
OpenWindows ==
  (\A n \in Instance : phase[n] = "window")
    => \E n \in Instance : PolledOnEveryLink(n)

\* An instance whose peer is active will hear of it, or be polled, before its
\* window closes.  The second link matters in the first two cases: the poll
\* that meets an open window of the peer is lost, the other is answered.
WillLearn(n) ==
  \/ PolledOnEveryLink(n)
  \/ phase[Peer(n)] # "window" /\ \E m \in wire : Poll(m, n)
  \/ \E m \in wire : Poll(m, Peer(n)) /\ m.due < left[n]
  \/ \E m \in wire : m.src = Peer(n) /\ m.sym = "+"
  \/ HeardActive(n)

ActivePeerIsNoticed ==
  \A n \in Instance : phase[n] = "window" /\ active[Peer(n)] => WillLearn(n)

TimersAndState ==
  \A n \in Instance : /\ phase[n] = "down" => ~active[n]
                      /\ phase[n] = "window" => left[n] <= Window

TetherInv ==
  /\ TimersAndState
  /\ PollsInTime
  /\ AnswersInTime
  /\ DenialsInTime
  /\ NoRival
  /\ OpenWindows
  /\ ActivePeerIsNoticed
  /\ AtMostOneActive

=============================================================================
