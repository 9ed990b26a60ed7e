---------------------------- MODULE TetherProofs ----------------------------
(***************************************************************************)
(* With two dependable links, and a window longer than a round trip, at    *)
(* most one instance of a tethered pair is ever active, for every choice   *)
(* of the intervals, of the window and of the latency, and however often   *)
(* the processes end and start.  And an active instance never stands down  *)
(* by mistake, even where one link is left that loses messages.            *)
(***************************************************************************)
EXTENDS Tether, TLAPS

\* What the redundant heartbeat is for: no link loses messages, and there
\* are two of them.
TwoGoodLinks ==
  /\ Lossy = {}
  /\ \E l1, l2 \in Link : l1 # l2

-----------------------------------------------------------------------------

\* The peer of an instance is the other one.
LEMMA PeerFacts ==
  ASSUME NEW n \in Instance
  PROVE  /\ Peer(n) \in Instance
         /\ Peer(n) # n
         /\ Peer(Peer(n)) = n
         /\ \A k \in Instance : k = n \/ k = Peer(n)
BY TetherAssumption DEF Instance, Peer

\* The fields of a message.
LEMMA MessageFacts ==
  ASSUME NEW m \in Message
  PROVE  /\ m.src \in Instance /\ m.link \in Link /\ m.sym \in Symbol
         /\ m.due \in Nat /\ m.due <= Latency
BY TetherAssumption DEF Message

\* A message just sent is one of Message and has its whole time to travel.
LEMMA FreshFacts ==
  ASSUME NEW n \in Instance, NEW l \in Link, NEW s \in Symbol, NEW c \in Copy
  PROVE  /\ Fresh(n, l, s, c) \in Message
         /\ Fresh(n, l, s, c).src = n /\ Fresh(n, l, s, c).link = l
         /\ Fresh(n, l, s, c).sym = s /\ Fresh(n, l, s, c).due = Latency
BY TetherAssumption DEF Fresh, Message

\* A tick brings every message one tick closer and changes nothing else of it.
LEMMA TickWire ==
  ASSUME TypeOK, Tick
  PROVE  /\ wire' \subseteq Message
         /\ \A m \in wire' : \E k \in wire :
              /\ m.src = k.src /\ m.link = k.link /\ m.sym = k.sym
              /\ k.due = m.due + 1
         /\ \A k \in wire : \E m \in wire' :
              /\ m.src = k.src /\ m.link = k.link /\ m.sym = k.sym
              /\ k.due = m.due + 1
<1> DEFINE Aged(m) == [m EXCEPT !.due = @ - 1]
<1>1. \A k \in wire : /\ Aged(k) \in Message
                      /\ Aged(k).src = k.src /\ Aged(k).link = k.link
                      /\ Aged(k).sym = k.sym /\ k.due = Aged(k).due + 1
  BY TetherAssumption DEF TypeOK, Tick, Message
<1>2. wire' = {Aged(k) : k \in wire}
  BY DEF Tick
<1> HIDE DEF Aged
<1> QED BY <1>1, <1>2

-----------------------------------------------------------------------------

\* Every step keeps the variables in their types.
LEMMA TypeOKStep == TypeOK /\ [Next]_vars => TypeOK'
<1> SUFFICES ASSUME TypeOK, [Next]_vars PROVE TypeOK'
  OBVIOUS
<1> USE TetherAssumption DEF TypeOK
<1>1. ASSUME NEW n \in Instance, Start(n) PROVE TypeOK'
  BY <1>1 DEF Start, ArmInterval
<1>2. ASSUME NEW n \in Instance, Die(n), shared' \subseteq shared PROVE TypeOK'
  BY <1>2 DEF Die
<1>3. ASSUME NEW n \in Instance, IntervalTimeout(n) PROVE TypeOK'
  BY <1>3, FreshFacts DEF IntervalTimeout, ArmWindow, Symbol
<1>4. ASSUME NEW n \in Instance, WindowTimeout(n) PROVE TypeOK'
  <2>1. /\ active' \in [Instance -> BOOLEAN]
        /\ armed' \in [Instance -> BOOLEAN]
        /\ shared' \subseteq Instance
    <3>1. CASE StandDown(n)
      BY <3>1 DEF StandDown, DelShared
    <3>2. CASE GoActive(n)
      BY <3>2 DEF GoActive, AddShared
    <3>3. CASE Remain(n)
      BY <3>3 DEF Remain
    <3> QED BY <1>4, <3>1, <3>2, <3>3 DEF WindowTimeout
  <2> QED BY <1>4, <2>1 DEF WindowTimeout, ArmInterval
<1>5. ASSUME NEW m \in wire, ReadyRead(m) PROVE TypeOK'
  <2> DEFINE n == Peer(m.src)
  <2>0. m \in Message /\ n \in Instance /\ m.link \in Link
    BY MessageFacts, PeerFacts
  <2>1. CASE Backoff(n, m)
    BY <1>5, <2>0, <2>1 DEF ReadyRead, Backoff, ArmInterval
  <2>2. CASE Note(n, m)
    BY <1>5, <2>0, <2>2 DEF ReadyRead, Note
  <2>3. CASE Reply(n, m)
    <3>1. PICK c \in Copy :
            wire' = (wire \ {m})
                      \cup {Fresh(n, m.link, IF active[n] THEN "+" ELSE "-", c)}
      BY <2>3 DEF Reply
    <3>2. wire' \subseteq Message
      BY <3>1, <2>0, FreshFacts DEF Symbol
    <3> QED BY <1>5, <2>3, <3>2 DEF ReadyRead, Reply
  <2>4. CASE Discard(n, m)
    BY <1>5, <2>0, <2>4 DEF ReadyRead, Discard
  <2> QED BY <1>5, <2>1, <2>2, <2>3, <2>4 DEF ReadyRead
<1>6. ASSUME NEW m \in wire, Lose(m) PROVE TypeOK'
  BY <1>6 DEF Lose
<1>7. CASE Tick
  BY <1>7, TickWire DEF Tick
<1>8. CASE UNCHANGED vars
  BY <1>8 DEF vars
<1> QED
  BY <1>1, <1>2, <1>3, <1>4, <1>5, <1>6, <1>7, <1>8 DEF Next, Crash, Exit

\* The variables keep their types in every behaviour, whatever the links do.
THEOREM TypeCorrect == Spec => []TypeOK
<1>1. Init => TypeOK
  BY DEF Init, TypeOK
<1> QED BY <1>1, TypeOKStep, PTL DEF Spec

-----------------------------------------------------------------------------
(* The inductive step, one lemma per action                                *)

\* When a window closes, everything that was said before it opened and every
\* answer to its polls has arrived; so an active peer has been heard.
LEMMA ClosingWindow ==
  ASSUME TypeOK, TetherInv, NEW n \in Instance,
         phase[n] = "window", left[n] = 0
  PROVE  /\ \A m \in wire : ~Poll(m, n)
         /\ \A m \in wire : ~(m.src = Peer(n) /\ m.sym = "+")
         /\ \A m \in wire : ~(m.src = n /\ m.sym = "-")
         /\ ~PolledOnEveryLink(n)
         /\ active[Peer(n)] => HeardActive(n)
<1> USE TetherAssumption DEF TypeOK
<1>0. \A m \in wire : m \in Message /\ m.due \in Nat
  BY MessageFacts
<1>1. \A m \in wire : ~Poll(m, n)
  BY <1>0 DEF TetherInv, PollsInTime, Poll
<1>2. \A m \in wire : ~(m.src = Peer(n) /\ m.sym = "+")
  BY <1>0, PeerFacts DEF TetherInv, AnswersInTime
<1>3. \A m \in wire : ~(m.src = n /\ m.sym = "-")
  BY <1>0 DEF TetherInv, DenialsInTime
<1>4. ~PolledOnEveryLink(n)
  BY <1>1 DEF PolledOnEveryLink
<1>5. active[Peer(n)] => HeardActive(n)
  BY <1>0, <1>1, <1>2, <1>4, PeerFacts DEF TetherInv, ActivePeerIsNoticed, WillLearn
<1> QED BY <1>1, <1>2, <1>3, <1>4, <1>5

\* An instance that starts or ends is inactive and has no open window.
LEMMA ProcessStep ==
  ASSUME TypeOK, TetherInv, NEW n \in Instance, Start(n) \/ Die(n)
  PROVE  TetherInv'
<1> USE TetherAssumption DEF TypeOK
<1>0. /\ wire' = wire
      /\ phase'[n] # "window" /\ ~active'[n]
      /\ \A k \in Instance : k # n =>
           /\ phase'[k] = phase[k] /\ left'[k] = left[k]
           /\ active'[k] = active[k] /\ heard'[k] = heard[k]
  BY DEF Start, Die, ArmInterval
<1>1. \A m \in wire : m.src \in Instance /\ Peer(m.src) \in Instance
  BY MessageFacts, PeerFacts
<1>2. TimersAndState'
  BY <1>0 DEF TetherInv, TimersAndState
<1>3. PollsInTime'
  BY <1>0, <1>1 DEF TetherInv, PollsInTime
<1>4. AnswersInTime'
  BY <1>0, <1>1 DEF TetherInv, AnswersInTime
<1>5. DenialsInTime'
  BY <1>0, <1>1 DEF TetherInv, DenialsInTime
<1>6. NoRival'
  BY <1>0, <1>1 DEF TetherInv, NoRival, HeardActive
<1>7. OpenWindows'
  BY <1>0 DEF OpenWindows
<1>8. ActivePeerIsNoticed'
  BY <1>0, PeerFacts DEF ActivePeerIsNoticed
<1>9. AtMostOneActive'
  BY <1>0, PeerFacts DEF TetherInv, AtMostOneActive, Instance
<1> QED BY <1>2, <1>3, <1>4, <1>5, <1>6, <1>7, <1>8, <1>9 DEF TetherInv

\* Opening a window: the new polls are the newest messages under way.
LEMMA IntervalTimeoutStep ==
  ASSUME TypeOK, TetherInv, NEW n \in Instance, IntervalTimeout(n)
  PROVE  TetherInv'
<1> USE TetherAssumption DEF TypeOK
<1>0. PICK c \in Copy : wire' = wire \cup {Fresh(n, l, "?", c) : l \in Link}
  BY DEF IntervalTimeout
<1>1. /\ active' = active
      /\ phase'[n] = "window" /\ left'[n] = Window /\ heard'[n] = {}
      /\ \A k \in Instance : k # n =>
           /\ phase'[k] = phase[k] /\ left'[k] = left[k] /\ heard'[k] = heard[k]
  BY DEF IntervalTimeout, ArmWindow
<1>2. \A m \in wire' :
        \/ m \in wire
        \/ m.src = n /\ m.sym = "?" /\ m.due = Latency
  BY <1>0, FreshFacts DEF Symbol
<1>3. \A l \in Link : \E m \in wire' :
        m.src = n /\ m.sym = "?" /\ m.link = l /\ m.due = Latency
  BY <1>0, FreshFacts DEF Symbol
<1>4. \A m \in wire : /\ m.src \in Instance /\ Peer(m.src) \in Instance
                      /\ m.due \in Nat /\ m.due <= Latency
  BY MessageFacts, PeerFacts
<1>5. TimersAndState'
  BY <1>1 DEF TetherInv, TimersAndState
<1>6. PollsInTime'
  BY <1>1, <1>2, <1>4 DEF TetherInv, PollsInTime
<1>7. AnswersInTime'
  BY <1>1, <1>2, <1>4 DEF TetherInv, AnswersInTime
<1>8. DenialsInTime'
  BY <1>1, <1>2, <1>4 DEF TetherInv, DenialsInTime
<1>9. NoRival'
  BY <1>1, <1>2, <1>4 DEF TetherInv, NoRival, HeardActive
<1>10. PolledOnEveryLink(n)'
  BY <1>3 DEF PolledOnEveryLink, Poll
<1>11. OpenWindows'
  BY <1>10 DEF OpenWindows
<1>12. ActivePeerIsNoticed'
  <2> SUFFICES ASSUME NEW k \in Instance, phase'[k] = "window", active'[Peer(k)],
                      k # n
               PROVE  WillLearn(k)'
    BY <1>10 DEF ActivePeerIsNoticed, WillLearn
  <2>1. n = Peer(k) /\ phase[k] = "window" /\ active[Peer(k)] /\ WillLearn(k)
    BY <1>1, PeerFacts DEF TetherInv, ActivePeerIsNoticed
  <2>2. CASE PolledOnEveryLink(k)
    BY <1>0, <2>2 DEF PolledOnEveryLink, WillLearn
  <2>3. CASE \E m \in wire : Poll(m, k)
    <3>1. left[k] > Latency
      BY <1>4, <2>1, <2>3 DEF TetherInv, PollsInTime, Poll
    <3> QED BY <1>1, <1>3, <2>1, <3>1 DEF WillLearn, Poll
  <2>4. CASE \E m \in wire : Poll(m, Peer(k)) /\ m.due < left[k]
    BY <1>0, <1>1, <2>4 DEF WillLearn
  <2>5. CASE \E m \in wire : m.src = Peer(k) /\ m.sym = "+"
    BY <1>0, <2>5 DEF WillLearn
  <2>6. CASE HeardActive(k)
    BY <1>1, <2>6 DEF WillLearn, HeardActive
  <2> QED BY <2>1, <2>2, <2>3, <2>4, <2>5, <2>6 DEF WillLearn
<1>13. AtMostOneActive'
  BY <1>1 DEF TetherInv, AtMostOneActive
<1> QED BY <1>5, <1>6, <1>7, <1>8, <1>9, <1>11, <1>12, <1>13 DEF TetherInv

\* Closing a window: an active instance has heard no rival, an inactive one
\* with an active peer has heard of it, and the peer's own window, if one is
\* open, was opened later.
LEMMA WindowTimeoutStep ==
  ASSUME TypeOK, TetherInv, TwoGoodLinks, NEW n \in Instance, WindowTimeout(n)
  PROVE  /\ TetherInv'
         /\ ~StandDown(n)
         /\ GoActive(n) => ~active[Peer(n)]
<1> USE TetherAssumption DEF TypeOK
<1>0. /\ wire' = wire /\ heard' = heard
      /\ phase[n] = "window" /\ left[n] = 0 /\ phase'[n] = "interval"
      /\ \A k \in Instance : k # n =>
           phase'[k] = phase[k] /\ left'[k] = left[k]
  BY DEF WindowTimeout, ArmInterval
<1>1. ~StandDown(n)
  BY <1>0 DEF StandDown, TetherInv, NoRival
<1>2. /\ \A m \in wire : ~Poll(m, n)
      /\ \A m \in wire : ~(m.src = Peer(n) /\ m.sym = "+")
      /\ \A m \in wire : ~(m.src = n /\ m.sym = "-")
      /\ ~PolledOnEveryLink(n)
      /\ active[Peer(n)] => HeardActive(n)
  BY <1>0, ClosingWindow
<1>3. \A k \in Instance : k # n => active'[k] = active[k]
  BY <1>1 DEF WindowTimeout, GoActive, Remain
<1>4. \/ GoActive(n) /\ active'[n] /\ ~active[Peer(n)]
      \/ active'[n] = active[n]
  BY <1>1, <1>2 DEF WindowTimeout, GoActive, Remain
<1>5. \A m \in wire : m.src \in Instance /\ Peer(m.src) \in Instance
  BY MessageFacts, PeerFacts
<1>6. TimersAndState'
  BY <1>0, <1>3 DEF TetherInv, TimersAndState
<1>7. PollsInTime'
  BY <1>0, <1>5 DEF TetherInv, PollsInTime
<1>8. AnswersInTime'
  BY <1>0, <1>5 DEF TetherInv, AnswersInTime
<1>9. DenialsInTime'
  BY <1>0, <1>2, <1>3, <1>5 DEF TetherInv, DenialsInTime
<1>10. NoRival'
  <2>1. \A m \in wire : m.sym = "+" => ~active'[Peer(m.src)]
    BY <1>2, <1>3, <1>5, PeerFacts DEF TetherInv, NoRival
  <2>2. \A k \in Instance : phase'[k] = "window" /\ HeardActive(k) => ~active'[k]
    BY <1>0, <1>3 DEF TetherInv, NoRival
  <2> QED BY <1>0, <2>1, <2>2 DEF NoRival, HeardActive
<1>11. OpenWindows'
  BY <1>0 DEF OpenWindows
<1>12. ActivePeerIsNoticed'
  <2> SUFFICES ASSUME NEW k \in Instance, phase'[k] = "window", active'[Peer(k)]
               PROVE  WillLearn(k)'
    BY DEF ActivePeerIsNoticed
  <2>1. k # n /\ n = Peer(k) /\ phase[k] = "window"
    BY <1>0, PeerFacts
  <2>2. CASE active[n]
    <3>1. WillLearn(k)
      BY <2>1, <2>2 DEF TetherInv, ActivePeerIsNoticed
    <3> QED BY <1>0, <2>1, <3>1, PeerFacts
            DEF WillLearn, PolledOnEveryLink, HeardActive
  <2>3. CASE ~active[n]
    <3>1. PICK q \in Instance : PolledOnEveryLink(q)
      BY <1>0, <2>1, PeerFacts DEF TetherInv, OpenWindows
    <3>2. q = k
      BY <1>2, <2>1, <3>1, PeerFacts
    <3> QED BY <1>0, <3>1, <3>2 DEF WillLearn, PolledOnEveryLink
  <2> QED BY <2>2, <2>3
<1>13. AtMostOneActive'
  BY <1>3, <1>4, PeerFacts DEF TetherInv, AtMostOneActive, Instance
<1>14. GoActive(n) => ~active[Peer(n)]
  BY <1>2 DEF GoActive
<1> QED BY <1>1, <1>6, <1>7, <1>8, <1>9, <1>10, <1>11, <1>12, <1>13, <1>14
        DEF TetherInv

\* A message is handled: a lost poll leaves its twin on the other link, an
\* answered poll leaves an answer, a noted answer is remembered.
LEMMA ReadyReadStep ==
  ASSUME TypeOK, TetherInv, TwoGoodLinks, NEW m \in wire, ReadyRead(m)
  PROVE  TetherInv'
<1> USE TetherAssumption DEF TypeOK
<1> DEFINE n == Peer(m.src)
           k == m.src
<1>0. /\ n \in Instance /\ k \in Instance /\ k # n /\ Peer(n) = k
      /\ \A i \in Instance : i = n \/ i = k
      /\ m.link \in Link /\ m.sym \in Symbol /\ m.due \in Nat
  BY MessageFacts, PeerFacts
<1>1. \A x \in wire : x.src \in Instance /\ Peer(x.src) \in Instance
  BY MessageFacts, PeerFacts
<1>2. active' = active
  BY DEF ReadyRead
<1>3. AtMostOneActive'
  BY <1>2 DEF TetherInv, AtMostOneActive
<1>a. CASE Backoff(n, m)
  <2>1. /\ wire' = wire \ {m} /\ heard' = heard /\ m.sym = "?"
        /\ phase[n] = "window" /\ phase'[n] = "interval"
        /\ phase'[k] = phase[k] /\ left'[k] = left[k]
    BY <1>a, <1>0 DEF Backoff, ArmInterval
  <2>2. TimersAndState'
    BY <1>0, <1>2, <2>1 DEF TetherInv, TimersAndState
  <2>3. PollsInTime' /\ AnswersInTime' /\ DenialsInTime'
    BY <1>0, <1>1, <1>2, <2>1
       DEF TetherInv, PollsInTime, AnswersInTime, DenialsInTime
  <2>4. NoRival' /\ OpenWindows'
    BY <1>0, <1>2, <2>1 DEF TetherInv, NoRival, HeardActive, OpenWindows
  <2>5. ActivePeerIsNoticed'
    <3> SUFFICES ASSUME phase'[k] = "window", active'[n] PROVE WillLearn(k)'
      BY <1>0, <2>1, PeerFacts DEF ActivePeerIsNoticed
    <3>1. WillLearn(k)
      BY <1>0, <1>2, <2>1 DEF TetherInv, ActivePeerIsNoticed
    <3>2. CASE PolledOnEveryLink(k)
      <4>1. PICK l \in Link : l # m.link
        BY <1>0 DEF TwoGoodLinks
      <4>2. PICK x \in wire : Poll(x, k) /\ x.link = l
        BY <3>2 DEF PolledOnEveryLink
      <4>3. x \in wire'
        BY <2>1, <4>1, <4>2
      <4> QED BY <2>1, <4>2, <4>3, <1>0 DEF WillLearn, Poll
    <3>3. CASE \E x \in wire : Poll(x, n) /\ x.due < left[k]
      BY <1>0, <2>1, <3>3 DEF WillLearn, Poll
    <3>4. CASE \E x \in wire : x.src = n /\ x.sym = "+"
      BY <1>0, <2>1, <3>4 DEF WillLearn
    <3>5. CASE HeardActive(k)
      BY <2>1, <3>5 DEF WillLearn, HeardActive
    <3> QED BY <1>0, <2>1, <3>1, <3>2, <3>3, <3>4, <3>5 DEF WillLearn
  <2> QED BY <1>3, <2>2, <2>3, <2>4, <2>5 DEF TetherInv
<1>b. CASE Note(n, m)
  <2>1. /\ wire' = wire \ {m} /\ phase' = phase /\ left' = left
        /\ m.sym \in {"+", "-"} /\ phase[n] = "window"
        /\ heard'[k] = heard[k]
        /\ m.sym = "+" => heard'[n] = heard[n] \cup {m.link}
        /\ m.sym = "-" => heard'[n] = heard[n] \ {m.link}
    BY <1>b, <1>0 DEF Note, Symbol
  <2>2. TimersAndState'
    BY <1>2, <2>1 DEF TetherInv, TimersAndState
  <2>3. PollsInTime' /\ AnswersInTime' /\ DenialsInTime'
    BY <1>2, <2>1 DEF TetherInv, PollsInTime, AnswersInTime, DenialsInTime
  <2>4. NoRival'
    <3>1. m.sym = "+" => ~active[n]
      BY DEF TetherInv, NoRival
    <3>2. HeardActive(n)' => HeardActive(n) \/ m.sym = "+"
      BY <2>1 DEF HeardActive
    <3>3. HeardActive(k)' <=> HeardActive(k)
      BY <2>1 DEF HeardActive
    <3>4. \A x \in wire' : x.sym = "+" => ~active'[Peer(x.src)]
      BY <1>2, <2>1 DEF TetherInv, NoRival
    <3>5. \A i \in Instance :
            phase'[i] = "window" /\ HeardActive(i)' => ~active'[i]
      BY <1>0, <1>2, <2>1, <3>1, <3>2, <3>3 DEF TetherInv, NoRival
    <3> QED BY <3>4, <3>5 DEF NoRival
  <2>5. \A i \in Instance : PolledOnEveryLink(i) => PolledOnEveryLink(i)'
    BY <2>1 DEF PolledOnEveryLink, Poll
  <2>6. OpenWindows'
    BY <2>1, <2>5 DEF TetherInv, OpenWindows
  <2>7. ActivePeerIsNoticed'
    <3> SUFFICES ASSUME NEW i \in Instance, phase'[i] = "window", active'[Peer(i)]
                 PROVE  WillLearn(i)'
      BY DEF ActivePeerIsNoticed
    <3>1. WillLearn(i)
      BY <1>2, <2>1 DEF TetherInv, ActivePeerIsNoticed
    <3>2. CASE \/ PolledOnEveryLink(i)
               \/ phase[Peer(i)] # "window" /\ \E x \in wire : Poll(x, i)
               \/ \E x \in wire : Poll(x, Peer(i)) /\ x.due < left[i]
      BY <2>1, <2>5, <3>2 DEF WillLearn, Poll
    <3>3. CASE HeardActive(i)
      <4>1. CASE i = n
        <5>1. m.sym = "+"
          BY <1>0, <1>2, <2>1, <4>1 DEF TetherInv, DenialsInTime
        <5> QED BY <2>1, <4>1, <5>1 DEF WillLearn, HeardActive
      <4>2. CASE i = k
        BY <2>1, <3>3, <4>2 DEF WillLearn, HeardActive
      <4> QED BY <1>0, <4>1, <4>2
    <3>4. CASE \E x \in wire : x.src = Peer(i) /\ x.sym = "+"
      <4>1. PICK x \in wire : x.src = Peer(i) /\ x.sym = "+"
        BY <3>4
      <4>2. CASE x = m
        <5>1. i = n
          BY <1>0, <4>1, <4>2, PeerFacts
        <5> QED BY <2>1, <4>1, <4>2, <5>1 DEF WillLearn, HeardActive
      <4>3. CASE x # m
        BY <2>1, <4>1, <4>3 DEF WillLearn
      <4> QED BY <4>2, <4>3
    <3> QED BY <3>1, <3>2, <3>3, <3>4 DEF WillLearn
  <2> QED BY <1>3, <2>2, <2>3, <2>4, <2>6, <2>7 DEF TetherInv
<1>c. CASE Reply(n, m)
  <2> DEFINE s == IF active[n] THEN "+" ELSE "-"
  <2>0. PICK c \in Copy : wire' = (wire \ {m}) \cup {Fresh(n, m.link, s, c)}
    BY <1>c DEF Reply
  <2> DEFINE answer == Fresh(n, m.link, s, c)
  <2>1. /\ answer.src = n /\ answer.sym = s /\ answer.due = Latency
        /\ answer \in wire'
        /\ \A x \in wire' : x \in wire \/ x = answer
        /\ \A x \in wire : x # m => x \in wire'
    BY <1>0, <2>0, FreshFacts DEF Symbol
  <2>2. /\ phase' = phase /\ left' = left /\ heard' = heard
        /\ phase[n] = "interval" /\ m.sym = "?"
    BY <1>c DEF Reply
  <2> HIDE DEF answer
  <2>3. TimersAndState'
    BY <1>2, <2>2 DEF TetherInv, TimersAndState
  <2>4. PollsInTime'
    BY <1>0, <2>1, <2>2 DEF TetherInv, PollsInTime
  <2>5. AnswersInTime'
    <3>1. phase[k] = "window" => m.due + Window <= Latency + left[k]
      BY <2>2 DEF TetherInv, PollsInTime
    <3>2. phase[k] = "window"
            => answer.due + Window <= 2 * Latency + left[k]
      BY <1>0, <2>1, <3>1
    <3> QED BY <1>0, <2>1, <2>2, <3>2 DEF TetherInv, AnswersInTime
  <2>6. DenialsInTime'
    BY <1>2, <2>1, <2>2 DEF TetherInv, DenialsInTime
  <2>7. NoRival'
    <3>1. active[n] => ~active[k]
      BY <1>0 DEF TetherInv, AtMostOneActive, Instance
    <3>2. \A x \in wire' : x.sym = "+" => ~active'[Peer(x.src)]
      BY <1>0, <1>2, <2>1, <3>1 DEF TetherInv, NoRival
    <3> QED BY <1>2, <2>2, <3>2 DEF TetherInv, NoRival, HeardActive
  <2>8. OpenWindows'
    BY <1>0, <2>2 DEF OpenWindows
  <2>9. ActivePeerIsNoticed'
    <3> SUFFICES ASSUME active'[n] PROVE WillLearn(k)'
      BY <1>0, <2>2 DEF ActivePeerIsNoticed
    <3> QED BY <1>0, <1>2, <2>1 DEF WillLearn
  <2> QED BY <1>3, <2>3, <2>4, <2>5, <2>6, <2>7, <2>8, <2>9 DEF TetherInv
<1>d. CASE Discard(n, m)
  <2>1. /\ wire' = wire \ {m} /\ phase' = phase /\ left' = left /\ heard' = heard
        /\ phase[n] # "window"
        /\ phase[n] # "down" => m.sym # "?"
    BY <1>d DEF Discard
  <2>2. TimersAndState'
    BY <1>2, <2>1 DEF TetherInv, TimersAndState
  <2>3. PollsInTime' /\ AnswersInTime' /\ DenialsInTime'
    BY <1>2, <2>1 DEF TetherInv, PollsInTime, AnswersInTime, DenialsInTime
  <2>4. NoRival' /\ OpenWindows'
    BY <1>0, <1>2, <2>1 DEF TetherInv, NoRival, HeardActive, OpenWindows
  <2>5. ActivePeerIsNoticed'
    <3> SUFFICES ASSUME phase[k] = "window", active[n] PROVE WillLearn(k)'
      BY <1>0, <1>2, <2>1 DEF ActivePeerIsNoticed
    <3>1. WillLearn(k) /\ m.sym # "?"
      BY <1>0, <2>1 DEF TetherInv, ActivePeerIsNoticed, TimersAndState
    <3>2. CASE PolledOnEveryLink(k)
      BY <2>1, <3>1, <3>2 DEF WillLearn, PolledOnEveryLink, Poll
    <3>3. CASE ~PolledOnEveryLink(k)
      BY <1>0, <2>1, <3>1, <3>3 DEF WillLearn, Poll, HeardActive
    <3> QED BY <3>2, <3>3
  <2> QED BY <1>3, <2>2, <2>3, <2>4, <2>5 DEF TetherInv
<1> QED BY <1>a, <1>b, <1>c, <1>d DEF ReadyRead

\* A tick brings messages and timers closer by the same amount.
LEMMA TickStep ==
  ASSUME TypeOK, TetherInv, Tick
  PROVE  TetherInv'
<1> USE TetherAssumption DEF TypeOK
<1>0. /\ phase' = phase /\ active' = active /\ heard' = heard
      /\ \A n \in Instance :
           phase[n] = "window" => left[n] = left'[n] + 1 /\ left'[n] \in Nat
  BY DEF Tick
<1>1. \A m \in wire' : \E k \in wire :
        /\ m.src = k.src /\ m.link = k.link /\ m.sym = k.sym
        /\ k.due = m.due + 1
  BY TickWire
<1>2. \A k \in wire : \E m \in wire' :
        /\ m.src = k.src /\ m.link = k.link /\ m.sym = k.sym
        /\ k.due = m.due + 1
  BY TickWire
<1>3. \A m \in wire' : /\ m.src \in Instance /\ Peer(m.src) \in Instance
                       /\ m.due \in Nat
  BY TickWire, MessageFacts, PeerFacts
<1>4. TimersAndState'
  BY <1>0 DEF TetherInv, TimersAndState
<1>5. PollsInTime'
  BY <1>0, <1>1, <1>3 DEF TetherInv, PollsInTime
<1>6. AnswersInTime'
  BY <1>0, <1>1, <1>3 DEF TetherInv, AnswersInTime
<1>7. DenialsInTime'
  BY <1>0, <1>1, <1>3 DEF TetherInv, DenialsInTime
<1>8. NoRival'
  BY <1>0, <1>1 DEF TetherInv, NoRival, HeardActive
<1>9. \A n \in Instance : PolledOnEveryLink(n) => PolledOnEveryLink(n)'
  BY <1>2 DEF PolledOnEveryLink, Poll
<1>10. OpenWindows'
  BY <1>0, <1>9 DEF TetherInv, OpenWindows
<1>11. ActivePeerIsNoticed'
  <2> SUFFICES ASSUME NEW n \in Instance, phase[n] = "window", active[Peer(n)]
               PROVE  WillLearn(n)'
    BY <1>0 DEF ActivePeerIsNoticed
  <2>1. WillLearn(n)
    BY DEF TetherInv, ActivePeerIsNoticed
  <2>2. CASE PolledOnEveryLink(n)
    BY <1>9, <2>2 DEF WillLearn
  <2>3. CASE phase[Peer(n)] # "window" /\ \E m \in wire : Poll(m, n)
    BY <1>0, <1>2, <2>3 DEF WillLearn, Poll
  <2>4. CASE \E m \in wire : Poll(m, Peer(n)) /\ m.due < left[n]
    <3>1. PICK k \in wire : Poll(k, Peer(n)) /\ k.due < left[n]
      BY <2>4
    <3>2. PICK m \in wire' : m.src = k.src /\ m.sym = k.sym /\ k.due = m.due + 1
      BY <1>2
    <3>3. m.due < left'[n]
      BY <1>0, <1>3, <3>1, <3>2
    <3> QED BY <3>1, <3>2, <3>3 DEF WillLearn, Poll
  <2>5. CASE \E m \in wire : m.src = Peer(n) /\ m.sym = "+"
    BY <1>2, <2>5 DEF WillLearn
  <2>6. CASE HeardActive(n)
    BY <1>0, <2>6 DEF WillLearn, HeardActive
  <2> QED BY <2>1, <2>2, <2>3, <2>4, <2>5, <2>6 DEF WillLearn
<1>12. AtMostOneActive'
  BY <1>0 DEF TetherInv, AtMostOneActive
<1> QED BY <1>4, <1>5, <1>6, <1>7, <1>8, <1>10, <1>11, <1>12 DEF TetherInv

-----------------------------------------------------------------------------

\* The invariant is kept by every step of a pair with two good links.
LEMMA TetherInvStep ==
  ASSUME TwoGoodLinks
  PROVE  TypeOK /\ TetherInv /\ [Next]_vars => TetherInv'
<1> SUFFICES ASSUME TypeOK, TetherInv, [Next]_vars PROVE TetherInv'
  OBVIOUS
<1>1. ASSUME NEW n \in Instance, Start(n) \/ Crash(n) \/ Exit(n)
      PROVE  TetherInv'
  BY <1>1, ProcessStep DEF Crash, Exit
<1>2. ASSUME NEW n \in Instance, IntervalTimeout(n) PROVE TetherInv'
  BY <1>2, IntervalTimeoutStep
<1>3. ASSUME NEW n \in Instance, WindowTimeout(n) PROVE TetherInv'
  BY <1>3, WindowTimeoutStep
<1>4. ASSUME NEW m \in wire, ReadyRead(m) PROVE TetherInv'
  BY <1>4, ReadyReadStep
<1>5. ASSUME NEW m \in wire PROVE ~Lose(m)
  BY DEF Lose, TwoGoodLinks
<1>6. CASE Tick
  BY <1>6, TickStep
<1>7. CASE UNCHANGED vars
  BY <1>7 DEF vars, TetherInv, TimersAndState, PollsInTime, AnswersInTime,
     DenialsInTime, NoRival, OpenWindows, ActivePeerIsNoticed, WillLearn,
     PolledOnEveryLink, Poll, HeardActive, AtMostOneActive
<1> QED BY <1>1, <1>2, <1>3, <1>4, <1>5, <1>6, <1>7 DEF Next

\* The inductive invariant holds in every reachable state.
LEMMA TetherInvHolds ==
  ASSUME TwoGoodLinks
  PROVE  Spec => [](TypeOK /\ TetherInv)
<1>1. Init => TypeOK /\ TetherInv
  BY TetherAssumption DEF Init, TypeOK, TetherInv, TimersAndState, PollsInTime,
     AnswersInTime, DenialsInTime, NoRival, OpenWindows, ActivePeerIsNoticed,
     AtMostOneActive, Instance, HeardActive
<1>2. TypeOK /\ TetherInv /\ [Next]_vars => (TypeOK /\ TetherInv)'
  BY TypeOKStep, TetherInvStep
<1> QED BY <1>1, <1>2, PTL DEF Spec

\* What an instance may rely on in its window: polls and answers under way
\* arrive in time, a "+" is never told by or to the wrong one, of two open
\* windows one will be polled, and an active peer will be heard.
THEOREM InTime ==
  ASSUME TwoGoodLinks
  PROVE  Spec => []TetherInv
BY TetherInvHolds, PTL

\* No two instances of the cluster are ever active together, whatever the
\* intervals drawn, the order of arrival and the restarts (tether.cpp,
\* windowTimeoutData), provided that both heartbeat links work.
THEOREM MutualExclusion ==
  ASSUME TwoGoodLinks
  PROVE  Spec => []AtMostOneActive
<1>1. TetherInv => AtMostOneActive
  BY DEF TetherInv
<1> QED BY <1>1, TetherInvHolds, PTL

\* The tether implements the active/standby pair it is meant to be: nobody
\* takes over from an active peer or stands down while its process runs.
THEOREM Refinement ==
  ASSUME TwoGoodLinks
  PROVE  Spec => ImplementsActiveStandby
<1> USE TetherAssumption
<1>1. Init => Cluster!Init
  BY DEF Init, Cluster!Init, Running, Serving
<1>2. TypeOK /\ TetherInv /\ [Next]_vars => [Cluster!Next]_(Cluster!vars)
  <2> SUFFICES ASSUME TypeOK, TetherInv, [Next]_vars
               PROVE  [Cluster!Next]_(Cluster!vars)
    OBVIOUS
  <2> USE DEF TypeOK
  <2>1. ASSUME NEW n \in Instance, Start(n) PROVE Cluster!Start(n)
    <3>1. phase[n] = "down" /\ ~active[n]
      BY <2>1 DEF Start, TetherInv, TimersAndState
    <3>2. Running' = Running \cup {n} /\ Serving' = Serving
      BY <2>1, <3>1 DEF Start, ArmInterval, Running, Serving
    <3> QED BY <3>1, <3>2 DEF Cluster!Start, Running
  <2>2. ASSUME NEW n \in Instance, Die(n) PROVE Cluster!Stop(n)
    <3>1. n \in Running /\ Running' = Running \ {n}
      BY <2>2 DEF Die, Running
    <3>2. Serving' = Serving \ {n}
      BY <2>2 DEF Die, Serving
    <3> QED BY <3>1, <3>2 DEF Cluster!Stop
  <2>3. ASSUME NEW n \in Instance, WindowTimeout(n)
        PROVE  Cluster!TakeOver(n) \/ UNCHANGED Cluster!vars
    <3>1. ~StandDown(n) /\ (GoActive(n) => ~active[Peer(n)])
      BY <2>3, WindowTimeoutStep
    <3>2. Running' = Running /\ n \in Running
      BY <2>3 DEF WindowTimeout, ArmInterval, Running
    <3>3. CASE GoActive(n)
      <4>1. Serving = {}
        BY <3>1, <3>3, PeerFacts DEF GoActive, Serving
      <4>2. Serving' = {n}
        BY <3>3, <4>1 DEF GoActive, Serving
      <4> QED BY <3>2, <4>1, <4>2 DEF Cluster!TakeOver
    <3>4. CASE Remain(n)
      BY <3>2, <3>4 DEF Remain, Cluster!vars, Serving
    <3> QED BY <2>3, <3>1, <3>3, <3>4 DEF WindowTimeout
  <2>4. ASSUME NEW n \in Instance, IntervalTimeout(n)
        PROVE  UNCHANGED Cluster!vars
    BY <2>4 DEF IntervalTimeout, ArmWindow, Cluster!vars, Running, Serving
  <2>5. ASSUME NEW m \in wire, ReadyRead(m) PROVE UNCHANGED Cluster!vars
    <3>1. Peer(m.src) \in Instance
      BY MessageFacts, PeerFacts
    <3>2. Running' = Running
      BY <2>5, <3>1
         DEF ReadyRead, Backoff, Note, Reply, Discard, ArmInterval, Running
    <3> QED BY <2>5, <3>2 DEF ReadyRead, Cluster!vars, Serving
  <2>6. ASSUME NEW m \in wire, Lose(m) PROVE UNCHANGED Cluster!vars
    BY <2>6 DEF Lose, Cluster!vars, Running, Serving
  <2>7. CASE Tick
    BY <2>7 DEF Tick, Cluster!vars, Running, Serving
  <2>8. CASE UNCHANGED vars
    BY <2>8 DEF vars, Cluster!vars, Running, Serving
  <2> QED BY <2>1, <2>2, <2>3, <2>4, <2>5, <2>6, <2>7, <2>8
          DEF Next, Crash, Exit, Cluster!Next
<1> QED BY <1>1, <1>2, TetherInvHolds, PTL
        DEF Spec, ImplementsActiveStandby, Cluster!Spec

-----------------------------------------------------------------------------
(* The shared address.                                                     *)

\* The interfaces with the address are those of active instances, which will
\* take it down when they end.
AddressKept == \A n \in shared :
  n \in Addressed /\ armed[n] /\ active[n] /\ phase[n] # "down"

\* As long as processes end in good order only an active instance answers to
\* the shared address, whatever the links lose and even if both are active.
THEOREM AddressFollows ==
  ASSUME ~MayCrash
  PROVE  Spec => []AddressFollowsActive
<1>1. Init => AddressKept
  BY DEF Init, AddressKept
<1>2. TypeOK /\ AddressKept /\ ~MayCrash /\ [Next]_vars => AddressKept'
  <2> SUFFICES ASSUME TypeOK, AddressKept, ~MayCrash, [Next]_vars PROVE AddressKept'
    OBVIOUS
  <2> USE DEF TypeOK
  <2>1. ASSUME NEW n \in Instance, Start(n) PROVE AddressKept'
    BY <2>1 DEF Start, ArmInterval, AddressKept
  <2>2. ASSUME NEW n \in Instance, Crash(n) PROVE FALSE
    BY <2>2 DEF Crash
  <2>3. ASSUME NEW n \in Instance, Exit(n) PROVE AddressKept'
    BY <2>3 DEF Exit, Die, AddressKept
  <2>4. ASSUME NEW n \in Instance, IntervalTimeout(n) PROVE AddressKept'
    BY <2>4 DEF IntervalTimeout, ArmWindow, AddressKept
  <2>5. ASSUME NEW n \in Instance, WindowTimeout(n) PROVE AddressKept'
    <3>1. phase' = [phase EXCEPT ![n] = "interval"]
      BY <2>5 DEF WindowTimeout, ArmInterval
    <3>2. CASE StandDown(n)
      BY <3>1, <3>2 DEF StandDown, DelShared, AddressKept
    <3>3. CASE GoActive(n)
      BY <3>1, <3>3 DEF GoActive, AddShared, AddressKept
    <3>4. CASE Remain(n)
      BY <3>1, <3>4 DEF Remain, AddressKept
    <3> QED
      BY <2>5, <3>2, <3>3, <3>4 DEF WindowTimeout
  <2>6. ASSUME NEW m \in wire, ReadyRead(m) PROVE AddressKept'
    <3>1. UNCHANGED <<active, armed, shared>>
      BY <2>6 DEF ReadyRead
    <3>2. Peer(m.src) \in Instance
      BY MessageFacts, PeerFacts
    <3>3. \A n \in Instance : phase[n] # "down" => phase'[n] # "down"
      BY <2>6, <3>2 DEF ReadyRead, Backoff, Note, Reply, Discard, ArmInterval
    <3> QED
      BY <3>1, <3>3 DEF AddressKept
  <2>7. ASSUME NEW m \in wire, Lose(m) PROVE AddressKept'
    BY <2>7 DEF Lose, AddressKept
  <2>8. CASE Tick
    BY <2>8 DEF Tick, AddressKept
  <2>9. CASE UNCHANGED vars
    BY <2>9 DEF vars, AddressKept
  <2> QED
    BY <2>1, <2>2, <2>3, <2>4, <2>5, <2>6, <2>7, <2>8, <2>9 DEF Next
<1>3. AddressKept => AddressFollowsActive
  BY DEF AddressKept, AddressFollowsActive
<1> QED
  BY <1>1, <1>2, <1>3, TypeCorrect, PTL DEF Spec

-----------------------------------------------------------------------------
(* One link.  The other one is dead, and this one may lose messages.       *)

OneLink == \E l : Link = {l}

\* A process that has ended is not back before everything it has said, and the window
\* of a peer that has heard it, are over.
SlowRestart == StartDelay > Latency + Window

\* An instance is open while its window is, or its process has ended.
Open(n) == phase[n] \in {"window", "down"}

\* The time that an open instance has to go at first.
Full(n) == IF phase[n] = "window" THEN Window ELSE StartDelay

Heard(n) == phase[n] = "window" /\ HeardActive(n)

\* What is open must account for polls and for answers that tell of an active peer.
Answered == {<<"answer", m>> : m \in {x \in wire : x.sym = "+"}}
              \cup {<<"heard", n>> : n \in {x \in Instance : Heard(x)}}

Load == {<<"poll", m>> : m \in {x \in wire : x.sym = "?"}} \cup Answered

AtMostOne(S) == \A x, y \in S : x = y
AtMostTwo(S) == \A x, y, z \in S : x = y \/ y = z \/ x = z

\* There is never more of that than there are open instances, since a poll that meets an
\* open window takes it along.
Balance ==
  /\ (\A n \in Instance : ~Open(n)) => Load = {}
  /\ (\E n \in Instance : ~Open(n)) => AtMostOne(Load)
  /\ AtMostTwo(Load)
  /\ (\A n \in Instance : phase[n] = "window") => AtMostOne(Answered)

\* An open instance has sent its polls and answers before it opened, and has been
\* answered soon after.
SentInTime ==
  \A m \in wire :
    /\ m.sym \in {"?", "+"} /\ Open(m.src) => m.due + Full(m.src) <= Latency + left[m.src]
    /\ m.sym = "+" /\ Open(Peer(m.src)) =>
         m.due + Full(Peer(m.src)) <= 2 * Latency + left[Peer(m.src)]

\* A poll of n was left behind when a poll of the peer closed n's window.
Behind(m, n) == m.due + Full(Peer(n)) <= 2 * Latency + left[Peer(n)]

LeftBehind ==
  \A n \in Instance : Open(Peer(n)) =>
    /\ ~Open(n) => \A m \in wire : Poll(m, n) => Behind(m, n)
    /\ \A m, k \in wire : Poll(m, n) /\ Poll(k, n) => m = k \/ Behind(m, n) \/ Behind(k, n)

\* What n has heard the peer said before it opened.
HeardInTime ==
  \A n \in Instance : Heard(n) /\ Open(Peer(n)) =>
    left[n] + Full(Peer(n)) <= Window + Latency + left[Peer(n)]

\* Who is heard, or will be, is active still, or its process has ended.
StillActive ==
  /\ \A m \in wire : m.sym = "+" => active[m.src] \/ phase[m.src] = "down"
  /\ \A n \in Instance : Heard(n) => active[Peer(n)] \/ phase[Peer(n)] = "down"

OneLinkInv ==
  /\ TimersAndState
  /\ Balance
  /\ SentInTime
  /\ LeftBehind
  /\ HeardInTime
  /\ StillActive

\* When an instance is open and how long.
LEMMA FullFacts ==
  ASSUME NEW n \in Instance
  PROVE  /\ Full(n) \in Nat /\ Full(n)' \in Nat
         /\ phase[n] = "window" => Full(n) = Window
         /\ phase[n] = "down" => Full(n) = StartDelay
         /\ phase[n]' = "window" => Full(n)' = Window
         /\ phase[n]' = "down" => Full(n)' = StartDelay
         /\ Open(n) <=> phase[n] = "window" \/ phase[n] = "down"
         /\ Open(n)' <=> phase[n]' = "window" \/ phase[n]' = "down"
BY TetherAssumption DEF Full, Open

\* Sets with few members.
LEMMA FewOfLess ==
  ASSUME NEW S, NEW T, T \subseteq S
  PROVE  /\ S = {} => T = {}
         /\ AtMostOne(S) => AtMostOne(T)
         /\ AtMostTwo(S) => AtMostTwo(T)
         /\ AtMostOne(S) => AtMostTwo(T)
BY DEF AtMostOne, AtMostTwo

LEMMA FewWithout ==
  ASSUME NEW S, NEW T, T \subseteq S, NEW a \in S, a \notin T
  PROVE  /\ AtMostOne(S) => T = {}
         /\ AtMostTwo(S) => AtMostOne(T)
BY DEF AtMostOne, AtMostTwo

LEMMA FewMore ==
  ASSUME NEW S, NEW T, NEW b, T \subseteq S \cup {b}
  PROVE  /\ S = {} => AtMostOne(T)
         /\ AtMostOne(S) => AtMostTwo(T)
BY DEF AtMostOne, AtMostTwo

LEMMA FewChanged ==
  ASSUME NEW S, NEW T, NEW b, T \subseteq S \cup {b}, NEW a \in S, a \notin T
  PROVE  /\ S # {}
         /\ AtMostOne(S) => AtMostOne(T)
         /\ AtMostTwo(S) => AtMostTwo(T)
BY DEF AtMostOne, AtMostTwo

\* What the load consists of.
LEMMA LoadMember ==
  ASSUME NEW x
  PROVE  /\ x \in Answered <=> \/ \E m \in wire : m.sym = "+" /\ x = <<"answer", m>>
                               \/ \E n \in Instance : Heard(n) /\ x = <<"heard", n>>
         /\ x \in Load <=> x \in Answered \/ \E m \in wire : m.sym = "?" /\ x = <<"poll", m>>
BY DEF Load, Answered

\* The same after a step.
LEMMA LoadMemberNext ==
  ASSUME NEW x
  PROVE  /\ x \in Answered' <=> \/ \E m \in wire' : m.sym = "+" /\ x = <<"answer", m>>
                                \/ \E n \in Instance : Heard(n)' /\ x = <<"heard", n>>
         /\ x \in Load' <=> x \in Answered' \/ \E m \in wire' : m.sym = "?" /\ x = <<"poll", m>>
BY DEF Load, Answered

\* What is in the load.
LEMMA LoadParts ==
  /\ \A m \in wire : m.sym = "?" => <<"poll", m>> \in Load
  /\ \A m \in wire : m.sym = "+" => <<"answer", m>> \in Answered
  /\ \A n \in Instance : Heard(n) => <<"heard", n>> \in Answered
  /\ Answered \subseteq Load
BY DEF Load, Answered

\* Where nothing is sent or heard the load does not grow.
LEMMA LoadLess ==
  ASSUME wire' \subseteq wire, \A n \in Instance : Heard(n)' => Heard(n)
  PROVE  Load' \subseteq Load /\ Answered' \subseteq Answered
<1>1. \A x \in Answered' : x \in Answered
  BY LoadMember, LoadMemberNext
<1>2. \A x \in Load' : x \in Load
  BY <1>1, LoadMember, LoadMemberNext
<1> QED BY <1>1, <1>2

\* Where nothing is sent or heard the balance stays.
LEMMA BalanceLess ==
  ASSUME Balance, Load' \subseteq Load, Answered' \subseteq Answered, phase' = phase
  PROVE  Balance'
<1>1. \A n \in Instance : Open(n)' <=> Open(n)
  BY DEF Open
<1>2. /\ Load = {} => Load' = {}
      /\ AtMostOne(Load) => AtMostOne(Load')
      /\ AtMostTwo(Load) => AtMostTwo(Load')
      /\ AtMostOne(Answered) => AtMostOne(Answered')
  BY FewOfLess
<1>3. /\ (\A n \in Instance : ~Open(n)') => Load' = {}
      /\ (\E n \in Instance : ~Open(n)') => AtMostOne(Load')
      /\ AtMostTwo(Load')
      /\ (\A n \in Instance : phase'[n] = "window") => AtMostOne(Answered')
  BY <1>1, <1>2 DEF Balance
<1> QED BY <1>3 DEF Balance, AtMostOne, AtMostTwo

\* A message is received or lost.
LEMMA OneLinkLess ==
  ASSUME TypeOK, OneLinkInv, wire' \subseteq wire, UNCHANGED <<phase, left, active>>,
         \A n \in Instance : heard'[n] \subseteq heard[n]
  PROVE  OneLinkInv'
<1>1. \A n \in Instance : /\ (Heard(n)' => Heard(n)) /\ (Open(n)' <=> Open(n))
                          /\ Full(n)' = Full(n)
  BY DEF Heard, HeardActive, Open, Full
<1>2. Balance'
  BY <1>1, LoadLess, BalanceLess DEF OneLinkInv
<1>3. SentInTime'
  BY DEF OneLinkInv, SentInTime, Open, Full
<1>4. LeftBehind'
  BY DEF OneLinkInv, LeftBehind, Open, Full, Behind, Poll
<1>5. HeardInTime'
  <2> SUFFICES ASSUME NEW n \in Instance, Heard(n)', Open(Peer(n))'
               PROVE  left'[n] + Full(Peer(n))' <= Window + Latency + left'[Peer(n)]
    BY DEF HeardInTime
  <2>1. Heard(n) /\ Open(Peer(n)) /\ Full(Peer(n))' = Full(Peer(n))
    BY <1>1, PeerFacts
  <2> QED BY <2>1 DEF OneLinkInv, HeardInTime
<1>6. StillActive'
  BY <1>1 DEF OneLinkInv, StillActive
<1>7. TimersAndState'
  BY DEF OneLinkInv, TimersAndState
<1> QED BY <1>2, <1>3, <1>4, <1>5, <1>6, <1>7 DEF OneLinkInv

\* A process starts: all that it has said is over.
LEMMA StartBalanced ==
  ASSUME TypeOK, TypeOK', SlowRestart, OneLinkInv, NEW n \in Instance, Start(n)
  PROVE  OneLinkInv'
<1>0. PICK p \in Instance : p = Peer(n) /\ Peer(p) = n /\ p # n /\ \A k \in Instance : k = n \/ k = p
  BY PeerFacts
<1>1. /\ phase[n] = "down" /\ left[n] = 0 /\ phase' = [phase EXCEPT ![n] = "interval"]
      /\ active' = [active EXCEPT ![n] = FALSE] /\ UNCHANGED <<heard, wire>>
      /\ \E t \in Delays : left' = [left EXCEPT ![n] = t]
  BY DEF Start, ArmInterval
<1>2. /\ phase'[n] = "interval" /\ phase'[p] = phase[p] /\ left'[p] = left[p]
      /\ active'[p] = active[p]
  BY <1>0, <1>1 DEF TypeOK
<1>3. /\ Open(n) /\ ~Open(n)' /\ (Open(p)' <=> Open(p)) /\ Full(p)' = Full(p)
      /\ Full(n) = StartDelay /\ ~Heard(n) /\ ~Heard(n)' /\ (Heard(p)' <=> Heard(p))
  BY <1>1, <1>2 DEF Open, Full, Heard, HeardActive
<1>4. /\ StartDelay \in Nat /\ Latency \in Nat /\ Window \in Nat
      /\ StartDelay > Latency + Window /\ Window > 2 * Latency
  BY TetherAssumption DEF SlowRestart
<1>5. \A m \in wire : m \in Message /\ m.due \in Nat /\ m.src \in Instance
  BY MessageFacts DEF TypeOK
<1>6. \A m \in wire : m.sym \in {"?", "+"} => m.src # n
  <2> SUFFICES ASSUME NEW m \in wire, m.sym \in {"?", "+"}, m.src = n PROVE FALSE
    OBVIOUS
  <2>1. m.due + StartDelay <= Latency + 0
    BY <1>1, <1>3 DEF OneLinkInv, SentInTime
  <2> QED BY <1>4, <1>5, <2>1
<1>7. \A m \in wire : m.sym = "+" => m.src # p
  <2> SUFFICES ASSUME NEW m \in wire, m.sym = "+", m.src = p PROVE FALSE
    OBVIOUS
  <2>1. m.due + StartDelay <= 2 * Latency + 0
    BY <1>0, <1>1, <1>3 DEF OneLinkInv, SentInTime
  <2> QED BY <1>4, <1>5, <2>1
<1>8. ~Heard(p)
  <2> SUFFICES ASSUME Heard(p) PROVE FALSE
    OBVIOUS
  <2>1. left[p] + StartDelay <= Window + Latency + 0
    BY <1>0, <1>1, <1>3 DEF OneLinkInv, HeardInTime
  <2>2. left[p] \in Nat
    BY DEF TypeOK
  <2> QED BY <1>4, <2>1, <2>2
<1>9. Answered' = {} /\ \A x \in Load' : \E m \in wire : Poll(m, p) /\ x = <<"poll", m>>
  <2>1. \A m \in wire : m.sym # "+"
    BY <1>0, <1>5, <1>6, <1>7
  <2>2. \A k \in Instance : ~Heard(k)'
    BY <1>0, <1>3, <1>8
  <2>3. \A x : x \notin Answered'
    BY <1>1, <2>1, <2>2, LoadMemberNext
  <2>4. \A m \in wire : m.sym = "?" => m.src = p
    BY <1>0, <1>5, <1>6
  <2> QED BY <1>1, <2>3, <2>4, LoadMemberNext DEF Poll
<1>10. \A m \in wire : ~Behind(m, p)
  <2> SUFFICES ASSUME NEW m \in wire, Behind(m, p) PROVE FALSE
    OBVIOUS
  <2>1. m.due + StartDelay <= 2 * Latency + 0
    BY <1>0, <1>1, <1>3 DEF Behind
  <2> QED BY <1>4, <1>5, <2>1
<1>11. ~Open(p) => Load' = {}
  <2>1. ~Open(p) => \A m \in wire : Poll(m, p) => Behind(m, p)
    BY <1>0, <1>3 DEF OneLinkInv, LeftBehind
  <2> QED BY <1>9, <1>10, <2>1
<1>12. AtMostOne(Load')
  <2>1. \A m, k \in wire : Poll(m, p) /\ Poll(k, p) => m = k \/ Behind(m, p) \/ Behind(k, p)
    BY <1>0, <1>3 DEF OneLinkInv, LeftBehind
  <2> QED BY <1>9, <1>10, <2>1 DEF AtMostOne
<1>13. Balance'
  <2>1. AtMostTwo(Load')
    BY <1>12, FewOfLess
  <2>2. /\ (\A k \in Instance : ~Open(k)') => Load' = {}
        /\ (\E k \in Instance : ~Open(k)') => AtMostOne(Load')
        /\ AtMostTwo(Load')
        /\ (\A k \in Instance : phase'[k] = "window") => AtMostOne(Answered')
    BY <1>2, <1>3, <1>11, <1>12, <2>1
  <2> QED BY <2>2 DEF Balance, AtMostOne, AtMostTwo
<1>14. SentInTime'
  <2> SUFFICES ASSUME NEW m \in wire
               PROVE  /\ m.sym \in {"?", "+"} /\ Open(m.src)' =>
                            m.due + Full(m.src)' <= Latency + left'[m.src]
                      /\ m.sym = "+" /\ Open(Peer(m.src))' =>
                           m.due + Full(Peer(m.src))' <= 2 * Latency + left'[Peer(m.src)]
    BY <1>1 DEF SentInTime
  <2>1. CASE m.src = p
    BY <1>0, <1>2, <1>3, <2>1 DEF OneLinkInv, SentInTime
  <2>2. CASE m.src = n
    BY <1>6, <2>2
  <2> QED BY <1>0, <1>5, <2>1, <2>2
<1>15. LeftBehind'
  <2> SUFFICES ASSUME NEW k \in Instance, Open(Peer(k))'
               PROVE  /\ ~Open(k)' => \A m \in wire : Poll(m, k) => Behind(m, k)'
                      /\ \A m, j \in wire : Poll(m, k) /\ Poll(j, k) =>
                           m = j \/ Behind(m, k)' \/ Behind(j, k)'
    BY <1>1 DEF LeftBehind, Poll
  <2>1. k = n
    BY <1>0, <1>3
  <2> QED BY <1>6, <2>1 DEF Poll
<1>16. HeardInTime' /\ StillActive'
  <2>1. \A k \in Instance : ~Heard(k)'
    BY <1>0, <1>3, <1>8
  <2>2. \A m \in wire : m.sym # "+"
    BY <1>0, <1>5, <1>6, <1>7
  <2>3. HeardInTime'
    BY <2>1 DEF HeardInTime
  <2>4. StillActive'
    BY <1>1, <2>1, <2>2 DEF StillActive
  <2> QED BY <2>3, <2>4
<1>17. TimersAndState'
  BY <1>0, <1>1, <1>2 DEF OneLinkInv, TimersAndState, TypeOK
<1> QED BY <1>13, <1>14, <1>15, <1>16, <1>17 DEF OneLinkInv

\* A process ends: what it has said may still be under way.
LEMMA DieBalanced ==
  ASSUME TypeOK, TypeOK', SlowRestart, OneLinkInv, NEW n \in Instance, Die(n)
  PROVE  OneLinkInv'
<1>0. PICK p \in Instance : p = Peer(n) /\ Peer(p) = n /\ p # n /\ \A k \in Instance : k = n \/ k = p
  BY PeerFacts
<1>1. /\ phase[n] # "down" /\ phase' = [phase EXCEPT ![n] = "down"]
      /\ left' = [left EXCEPT ![n] = StartDelay] /\ active' = [active EXCEPT ![n] = FALSE]
      /\ heard' = [heard EXCEPT ![n] = {}] /\ wire' = wire
  BY DEF Die
<1>2. /\ phase'[n] = "down" /\ phase'[p] = phase[p] /\ left'[p] = left[p]
      /\ left'[n] = StartDelay /\ active'[p] = active[p] /\ heard'[p] = heard[p]
  BY <1>0, <1>1 DEF TypeOK
<1>3. /\ Open(n)' /\ (Open(p)' <=> Open(p)) /\ Full(p)' = Full(p)
      /\ Full(n)' = StartDelay /\ ~Heard(n)' /\ (Heard(p)' <=> Heard(p))
  BY <1>1, <1>2 DEF Open, Full, Heard, HeardActive
<1>4. StartDelay \in Nat /\ Latency \in Nat /\ Window \in Nat
  BY TetherAssumption
<1>5. \A m \in wire : m \in Message /\ m.due \in Nat /\ m.due <= Latency /\ m.src \in Instance
  BY MessageFacts DEF TypeOK
<1>6. Load' \subseteq Load /\ Answered' \subseteq Answered
  BY <1>0, <1>1, <1>3, LoadLess
<1>7. Balance'
  <2>1. /\ AtMostOne(Load) => AtMostOne(Load')
        /\ AtMostTwo(Load) => AtMostTwo(Load')
    BY <1>6, FewOfLess
  <2>2. (\E k \in Instance : ~Open(k)') => ~Open(p)
    BY <1>0, <1>3
  <2>3. /\ (\A k \in Instance : ~Open(k)') => Load' = {}
        /\ (\E k \in Instance : ~Open(k)') => AtMostOne(Load')
        /\ AtMostTwo(Load')
        /\ (\A k \in Instance : phase'[k] = "window") => AtMostOne(Answered')
    BY <1>2, <1>3, <2>1, <2>2 DEF OneLinkInv, Balance
  <2> QED BY <2>3 DEF Balance, AtMostOne, AtMostTwo
<1>8. SentInTime'
  <2> SUFFICES ASSUME NEW m \in wire
               PROVE  /\ m.sym \in {"?", "+"} /\ Open(m.src)' =>
                            m.due + Full(m.src)' <= Latency + left'[m.src]
                      /\ m.sym = "+" /\ Open(Peer(m.src))' =>
                           m.due + Full(Peer(m.src))' <= 2 * Latency + left'[Peer(m.src)]
    BY <1>1 DEF SentInTime
  <2>1. CASE m.src = p
    BY <1>0, <1>2, <1>3, <1>4, <1>5, <2>1 DEF OneLinkInv, SentInTime
  <2>2. CASE m.src = n
    BY <1>0, <1>2, <1>3, <1>4, <1>5, <2>2 DEF OneLinkInv, SentInTime
  <2> QED BY <1>0, <1>5, <2>1, <2>2
<1>9. LeftBehind'
  <2> SUFFICES ASSUME NEW k \in Instance, Open(Peer(k))'
               PROVE  /\ ~Open(k)' => \A m \in wire : Poll(m, k) => Behind(m, k)'
                      /\ \A m, j \in wire : Poll(m, k) /\ Poll(j, k) =>
                           m = j \/ Behind(m, k)' \/ Behind(j, k)'
    BY <1>1 DEF LeftBehind, Poll
  <2>1. CASE k = n
    <3>1. Open(p) /\ Open(k)'
      BY <1>0, <1>3, <2>1
    <3>2. \A m : Behind(m, n)' <=> Behind(m, n)
      BY <1>0, <1>2, <1>3 DEF Behind
    <3> QED BY <1>0, <2>1, <3>1, <3>2 DEF OneLinkInv, LeftBehind
  <2>2. CASE k = p
    <3>1. \A m \in wire : Behind(m, p)'
      BY <1>0, <1>1, <1>2, <1>3, <1>4, <1>5 DEF Behind
    <3> QED BY <2>2, <3>1
  <2> QED BY <1>0, <2>1, <2>2
<1>10. HeardInTime'
  <2> SUFFICES ASSUME Heard(p)
               PROVE  left'[p] + StartDelay <= Window + Latency + StartDelay
    BY <1>0, <1>2, <1>3 DEF HeardInTime
  <2>1. left[p] \in Nat /\ left[p] <= Window
    BY DEF Heard, OneLinkInv, TimersAndState, TypeOK
  <2> QED BY <1>2, <1>4, <2>1
<1>11. StillActive'
  <2>1. ASSUME NEW m \in wire, m.sym = "+" PROVE active'[m.src] \/ phase'[m.src] = "down"
    <3>1. CASE m.src = n
      BY <1>2, <3>1
    <3>2. CASE m.src = p
      BY <1>2, <2>1, <3>2 DEF OneLinkInv, StillActive
    <3> QED BY <1>0, <1>5, <3>1, <3>2
  <2>2. ASSUME NEW k \in Instance, Heard(k)' PROVE active'[Peer(k)] \/ phase'[Peer(k)] = "down"
    BY <1>0, <1>2, <1>3, <2>2
  <2> QED BY <1>1, <2>1, <2>2 DEF StillActive
<1>12. TimersAndState'
  BY <1>0, <1>1, <1>2 DEF OneLinkInv, TimersAndState, TypeOK
<1> QED BY <1>7, <1>8, <1>9, <1>10, <1>11, <1>12 DEF OneLinkInv

\* A poll is sent and a window opens.
LEMMA PollBalanced ==
  ASSUME TypeOK, TypeOK', OneLink, OneLinkInv, NEW n \in Instance, IntervalTimeout(n)
  PROVE  OneLinkInv'
<1>0. PICK p \in Instance : p = Peer(n) /\ Peer(p) = n /\ p # n /\ \A k \in Instance : k = n \/ k = p
  BY PeerFacts
<1>1. PICK f \in Message : /\ f.src = n /\ f.sym = "?" /\ f.due = Latency
                           /\ wire' = wire \cup {f}
  <2>1. PICK l : Link = {l}
    BY DEF OneLink
  <2>2. PICK c \in Copy : wire' = wire \cup {Fresh(n, k, "?", c) : k \in Link}
    BY DEF IntervalTimeout
  <2>3. wire' = wire \cup {Fresh(n, l, "?", c)}
    BY <2>1, <2>2
  <2> QED BY <2>1, <2>3, FreshFacts DEF Symbol
<1>2. /\ phase[n] = "interval" /\ phase' = [phase EXCEPT ![n] = "window"]
      /\ left' = [left EXCEPT ![n] = Window] /\ active' = active
      /\ heard' = [heard EXCEPT ![n] = {}]
  BY DEF IntervalTimeout, ArmWindow
<1>3. /\ phase'[n] = "window" /\ phase'[p] = phase[p] /\ left'[p] = left[p]
      /\ left'[n] = Window /\ heard'[p] = heard[p] /\ heard'[n] = {}
  BY <1>0, <1>2 DEF TypeOK
<1>4. /\ ~Open(n) /\ Open(n)' /\ (Open(p)' <=> Open(p)) /\ Full(p)' = Full(p)
      /\ Full(n)' = Window /\ ~Heard(n)' /\ (Heard(p)' <=> Heard(p))
  BY <1>2, <1>3 DEF Open, Full, Heard, HeardActive
<1>5. Latency \in Nat /\ Window \in Nat
  BY TetherAssumption
<1>6. \A m \in wire : m.due \in Nat /\ m.due <= Latency /\ m.src \in Instance
  BY MessageFacts DEF TypeOK
<1>7. Answered' \subseteq Answered /\ Load' \subseteq Load \cup {<<"poll", f>>}
  <2>1. \A k \in Instance : Heard(k)' => Heard(k)
    BY <1>0, <1>4
  <2>2. \A x \in Answered' : x \in Answered
    BY <1>1, <2>1, LoadMember, LoadMemberNext
  <2>3. \A x \in Load' : x \in Load \/ x = <<"poll", f>>
    BY <1>1, <2>2, LoadMember, LoadMemberNext
  <2> QED BY <2>2, <2>3
<1>8. Balance'
  <2>1. AtMostOne(Load) /\ AtMostTwo(Load')
    <3>1. AtMostOne(Load)
      BY <1>4 DEF OneLinkInv, Balance
    <3> QED BY <1>7, <3>1, FewMore
  <2>2. ~Open(p) => AtMostOne(Load')
    <3>1. ~Open(p) => Load = {}
      BY <1>0, <1>4 DEF OneLinkInv, Balance
    <3> QED BY <1>7, <3>1, FewMore
  <2>3. AtMostOne(Answered')
    BY <1>7, <2>1, LoadParts, FewOfLess
  <2>4. /\ (\A k \in Instance : ~Open(k)') => Load' = {}
        /\ (\E k \in Instance : ~Open(k)') => AtMostOne(Load')
        /\ AtMostTwo(Load')
        /\ (\A k \in Instance : phase'[k] = "window") => AtMostOne(Answered')
    BY <1>0, <1>4, <2>1, <2>2, <2>3
  <2> QED BY <2>4 DEF Balance, AtMostOne, AtMostTwo
<1>9. SentInTime'
  <2> SUFFICES ASSUME NEW m \in wire'
               PROVE  /\ m.sym \in {"?", "+"} /\ Open(m.src)' =>
                            m.due + Full(m.src)' <= Latency + left'[m.src]
                      /\ m.sym = "+" /\ Open(Peer(m.src))' =>
                           m.due + Full(Peer(m.src))' <= 2 * Latency + left'[Peer(m.src)]
    BY DEF SentInTime
  <2>1. CASE m = f
    BY <1>1, <1>3, <1>4, <1>5, <2>1
  <2>2. CASE m \in wire /\ m.src = p
    BY <1>0, <1>3, <1>4, <1>5, <1>6, <2>2 DEF OneLinkInv, SentInTime
  <2>3. CASE m \in wire /\ m.src = n
    BY <1>0, <1>3, <1>4, <1>5, <1>6, <2>3 DEF OneLinkInv, SentInTime
  <2> QED BY <1>0, <1>1, <1>6, <2>1, <2>2, <2>3
<1>10. LeftBehind'
  <2> SUFFICES ASSUME NEW k \in Instance, Open(Peer(k))'
               PROVE  /\ ~Open(k)' => \A m \in wire' : Poll(m, k) => Behind(m, k)'
                      /\ \A m, j \in wire' : Poll(m, k) /\ Poll(j, k) =>
                           m = j \/ Behind(m, k)' \/ Behind(j, k)'
    BY DEF LeftBehind, Poll
  <2>1. CASE k = n
    <3>1. \A m : Behind(m, n)' <=> Behind(m, n)
      BY <1>0, <1>3, <1>4 DEF Behind
    <3>2. \A m \in wire : Poll(m, n) => Behind(m, n)
      BY <1>0, <1>4, <2>1 DEF OneLinkInv, LeftBehind
    <3> QED BY <1>1, <1>4, <2>1, <3>1, <3>2
  <2>2. CASE k = p
    <3>1. \A m \in wire : Behind(m, p)'
      BY <1>0, <1>3, <1>4, <1>5, <1>6 DEF Behind
    <3>2. ~Poll(f, p)
      BY <1>0, <1>1 DEF Poll
    <3> QED BY <1>1, <2>2, <3>1, <3>2
  <2> QED BY <1>0, <2>1, <2>2
<1>11. HeardInTime'
  <2> SUFFICES ASSUME Heard(p)
               PROVE  left'[p] + Window <= Window + Latency + Window
    BY <1>0, <1>3, <1>4 DEF HeardInTime
  <2>1. left[p] \in Nat /\ left[p] <= Window
    BY DEF Heard, OneLinkInv, TimersAndState, TypeOK
  <2> QED BY <1>3, <1>5, <2>1
<1>12. StillActive'
  <2>1. ASSUME NEW m \in wire', m.sym = "+" PROVE active[m.src] \/ phase'[m.src] = "down"
    <3>1. m \in wire /\ (active[m.src] \/ phase[m.src] = "down")
      BY <1>1, <2>1 DEF OneLinkInv, StillActive
    <3> QED BY <1>0, <1>2, <1>3, <1>6, <3>1
  <2>2. ASSUME NEW k \in Instance, Heard(k)' PROVE active[Peer(k)] \/ phase'[Peer(k)] = "down"
    <3>1. k = p /\ Heard(p)
      BY <1>0, <1>4, <2>2
    <3>2. active[n] \/ phase[n] = "down"
      BY <1>0, <3>1 DEF OneLinkInv, StillActive
    <3> QED BY <1>0, <1>2, <3>1, <3>2
  <2> QED BY <1>2, <2>1, <2>2 DEF StillActive
<1>13. TimersAndState'
  BY <1>0, <1>2, <1>3, <1>5 DEF OneLinkInv, TimersAndState, TypeOK
<1> QED BY <1>8, <1>9, <1>10, <1>11, <1>12, <1>13 DEF OneLinkInv

\* A window closes: nothing is left of what its instance has said, and of the peer's
\* polls and of what the peer has heard at most one thing.
LEMMA WindowBalanced ==
  ASSUME TypeOK, TypeOK', OneLinkInv, NEW n \in Instance, WindowTimeout(n)
  PROVE  OneLinkInv'
<1>0. PICK p \in Instance : p = Peer(n) /\ Peer(p) = n /\ p # n /\ \A k \in Instance : k = n \/ k = p
  BY PeerFacts
<1>1. /\ phase[n] = "window" /\ left[n] = 0 /\ phase' = [phase EXCEPT ![n] = "interval"]
      /\ UNCHANGED <<heard, wire>>
      /\ \E t \in Delays : left' = [left EXCEPT ![n] = t]
      /\ StandDown(n) \/ GoActive(n) \/ Remain(n)
  BY DEF WindowTimeout, ArmInterval
<1>2. /\ phase'[n] = "interval" /\ phase'[p] = phase[p] /\ left'[p] = left[p]
  BY <1>0, <1>1 DEF TypeOK
<1>3. /\ Open(n) /\ ~Open(n)' /\ (Open(p)' <=> Open(p)) /\ Full(p)' = Full(p)
      /\ Full(n) = Window /\ ~Heard(n)' /\ (Heard(p)' <=> Heard(p))
  BY <1>1, <1>2 DEF Open, Full, Heard, HeardActive
<1>4. Latency \in Nat /\ Window \in Nat /\ Window > 2 * Latency
  BY TetherAssumption
<1>5. \A m \in wire : m \in Message /\ m.due \in Nat /\ m.src \in Instance
  BY MessageFacts DEF TypeOK
<1>6. \A m \in wire : m.sym \in {"?", "+"} => m.src # n
  <2> SUFFICES ASSUME NEW m \in wire, m.sym \in {"?", "+"}, m.src = n PROVE FALSE
    OBVIOUS
  <2>1. m.due + Window <= Latency + 0
    BY <1>1, <1>3 DEF OneLinkInv, SentInTime
  <2> QED BY <1>4, <1>5, <2>1
<1>7. \A m \in wire : m.sym = "+" => m.src # p
  <2> SUFFICES ASSUME NEW m \in wire, m.sym = "+", m.src = p PROVE FALSE
    OBVIOUS
  <2>1. m.due + Window <= 2 * Latency + 0
    BY <1>0, <1>1, <1>3 DEF OneLinkInv, SentInTime
  <2> QED BY <1>4, <1>5, <2>1
<1>8. \A m \in wire : m.sym # "+"
  BY <1>0, <1>5, <1>6, <1>7
<1>9. \A m \in wire : ~Behind(m, p)
  <2> SUFFICES ASSUME NEW m \in wire, Behind(m, p) PROVE FALSE
    OBVIOUS
  <2>1. m.due + Window <= 2 * Latency + 0
    BY <1>0, <1>1, <1>3 DEF Behind
  <2> QED BY <1>4, <1>5, <2>1
<1>10. /\ \A m, k \in wire : Poll(m, p) /\ Poll(k, p) => m = k
       /\ ~Open(p) => \A m \in wire : ~Poll(m, p)
  BY <1>0, <1>3, <1>9 DEF OneLinkInv, LeftBehind
<1>11. Heard(p) => \A m \in wire : ~Poll(m, p)
  <2> SUFFICES ASSUME Heard(p), NEW m \in wire, Poll(m, p) PROVE FALSE
    OBVIOUS
  <2>1. phase[p] = "window" /\ Open(p) /\ Full(p) = Window
    BY FullFacts DEF Heard
  <2>2. left[p] + Window <= Window + Latency + 0
    BY <1>0, <1>1, <1>3 DEF OneLinkInv, HeardInTime
  <2>3. m.due + Window <= Latency + left[p]
    BY <2>1 DEF OneLinkInv, SentInTime, Poll
  <2>4. left[p] \in Nat
    BY DEF TypeOK
  <2> QED BY <1>4, <1>5, <2>2, <2>3, <2>4
<1>12. \A x \in Load' : \/ Heard(p) /\ x = <<"heard", p>>
                        \/ \E m \in wire : Poll(m, p) /\ x = <<"poll", m>>
  <2>1. \A x \in Answered' : Heard(p) /\ x = <<"heard", p>>
    BY <1>0, <1>1, <1>3, <1>8, LoadMemberNext
  <2>2. \A m \in wire : m.sym = "?" => Poll(m, p)
    BY <1>0, <1>5, <1>6 DEF Poll
  <2> QED BY <1>1, <2>1, <2>2, LoadMemberNext
<1>13. AtMostOne(Load') /\ (~Open(p) => Load' = {})
  <2>1. AtMostOne(Load')
    BY <1>10, <1>11, <1>12 DEF AtMostOne
  <2>2. ~Open(p) => ~Heard(p)
    BY DEF Open, Heard
  <2>3. ~Open(p) => Load' = {}
    BY <1>10, <1>12, <2>2
  <2> QED BY <2>1, <2>3
<1>14. Balance'
  <2>1. AtMostTwo(Load')
    BY <1>13, FewOfLess
  <2>2. /\ (\A k \in Instance : ~Open(k)') => Load' = {}
        /\ (\E k \in Instance : ~Open(k)') => AtMostOne(Load')
        /\ AtMostTwo(Load')
        /\ (\A k \in Instance : phase'[k] = "window") => AtMostOne(Answered')
    BY <1>2, <1>3, <1>13, <2>1
  <2> QED BY <2>2 DEF Balance, AtMostOne, AtMostTwo
<1>15. SentInTime'
  <2> SUFFICES ASSUME NEW m \in wire
               PROVE  /\ m.sym \in {"?", "+"} /\ Open(m.src)' =>
                            m.due + Full(m.src)' <= Latency + left'[m.src]
                      /\ m.sym = "+" /\ Open(Peer(m.src))' =>
                           m.due + Full(Peer(m.src))' <= 2 * Latency + left'[Peer(m.src)]
    BY <1>1 DEF SentInTime
  <2>1. CASE m.src = p
    BY <1>0, <1>2, <1>3, <1>8, <2>1 DEF OneLinkInv, SentInTime
  <2>2. CASE m.src = n
    BY <1>6, <2>2
  <2> QED BY <1>0, <1>5, <2>1, <2>2
<1>16. LeftBehind'
  <2> SUFFICES ASSUME NEW k \in Instance, Open(Peer(k))'
               PROVE  /\ ~Open(k)' => \A m \in wire : Poll(m, k) => Behind(m, k)'
                      /\ \A m, j \in wire : Poll(m, k) /\ Poll(j, k) =>
                           m = j \/ Behind(m, k)' \/ Behind(j, k)'
    BY <1>1 DEF LeftBehind, Poll
  <2>1. k = n
    BY <1>0, <1>3
  <2> QED BY <1>6, <2>1 DEF Poll
<1>17. HeardInTime'
  <2>1. \A k \in Instance : ~ (Heard(k)' /\ Open(Peer(k))')
    BY <1>0, <1>3
  <2> QED BY <2>1 DEF HeardInTime
<1>18. StillActive'
  <2> SUFFICES ASSUME Heard(p) PROVE active'[n]
    BY <1>0, <1>1, <1>3, <1>8 DEF StillActive
  <2>1. active[n]
    BY <1>0, <1>1 DEF OneLinkInv, StillActive
  <2>2. ~StandDown(n)
    <3> SUFFICES ASSUME StandDown(n) PROVE FALSE
      OBVIOUS
    <3>1. Heard(n)
      BY <1>1 DEF StandDown, Heard
    <3>2. \A k \in Instance : phase[k] = "window"
      BY <1>0, <1>1 DEF Heard
    <3>3. AtMostOne(Answered)
      BY <3>2 DEF OneLinkInv, Balance
    <3>4. <<"heard", n>> = <<"heard", p>>
      BY <3>1, <3>3, LoadParts DEF AtMostOne
    <3> QED BY <1>0, <3>4
  <2> QED BY <1>1, <2>1, <2>2 DEF GoActive, Remain
<1>19. TimersAndState'
  <2>1. /\ phase'[p] = "down" => ~active'[p]
    <3>1. active'[p] = active[p]
      BY <1>0, <1>1 DEF StandDown, GoActive, Remain, TypeOK
    <3> QED BY <1>2, <3>1 DEF OneLinkInv, TimersAndState
  <2>2. phase'[p] = "window" => left'[p] <= Window
    BY <1>2 DEF OneLinkInv, TimersAndState
  <2> QED BY <1>0, <1>2, <2>1, <2>2 DEF TimersAndState
<1> QED BY <1>14, <1>15, <1>16, <1>17, <1>18, <1>19 DEF OneLinkInv

\* A poll meets an open window: the poll is gone, and so is the window.
LEMMA BackoffBalanced ==
  ASSUME TypeOK, TypeOK', OneLinkInv, NEW n \in Instance, NEW m \in wire,
         n = Peer(m.src), Backoff(n, m), active' = active
  PROVE  OneLinkInv'
<1>1. \A k \in wire : k.due \in Nat /\ k.due <= Latency /\ k.src \in Instance
  BY MessageFacts DEF TypeOK
<1>0. PICK p \in Instance : /\ p = Peer(n) /\ Peer(p) = n /\ p # n /\ m.src = p
                            /\ \A k \in Instance : k = n \/ k = p
  BY <1>1, PeerFacts
<1>2. /\ phase[n] = "window" /\ m.sym = "?" /\ phase' = [phase EXCEPT ![n] = "interval"]
      /\ wire' = wire \ {m} /\ heard' = heard
      /\ \E t \in Delays : left' = [left EXCEPT ![n] = t]
  BY DEF Backoff, ArmInterval
<1>3. phase'[n] = "interval" /\ phase'[p] = phase[p] /\ left'[p] = left[p]
  BY <1>0, <1>2 DEF TypeOK
<1>4. /\ Open(n) /\ ~Open(n)' /\ (Open(p)' <=> Open(p)) /\ Full(p)' = Full(p)
      /\ ~Heard(n)' /\ (Heard(p)' <=> Heard(p))
  BY <1>2, <1>3 DEF Open, Full, Heard, HeardActive
<1>5. Latency \in Nat /\ left[p] \in Nat /\ Full(p) \in Nat
  BY TetherAssumption, FullFacts DEF TypeOK
<1>6. Balance'
  <2>1. Load' \subseteq Load /\ <<"poll", m>> \in Load
    <3>1. \A k \in Instance : Heard(k)' => Heard(k)
      BY <1>0, <1>4
    <3> QED BY <1>2, <3>1, LoadLess, LoadParts
  <2>2. <<"poll", m>> \notin Load'
    BY <1>2, LoadMemberNext
  <2>3. /\ AtMostOne(Load) => Load' = {}
        /\ AtMostTwo(Load) => AtMostOne(Load')
    BY <2>1, <2>2, FewWithout
  <2>4. AtMostOne(Load') /\ (~Open(p) => Load' = {})
    BY <2>3 DEF OneLinkInv, Balance
  <2>5. AtMostTwo(Load')
    BY <2>4, FewOfLess
  <2>6. /\ (\A k \in Instance : ~Open(k)') => Load' = {}
        /\ (\E k \in Instance : ~Open(k)') => AtMostOne(Load')
        /\ AtMostTwo(Load')
        /\ (\A k \in Instance : phase'[k] = "window") => AtMostOne(Answered')
    BY <1>3, <1>4, <2>4, <2>5
  <2> QED BY <2>6 DEF Balance, AtMostOne, AtMostTwo
<1>7. SentInTime'
  <2> SUFFICES ASSUME NEW k \in wire
               PROVE  /\ k.sym \in {"?", "+"} /\ Open(k.src)' =>
                            k.due + Full(k.src)' <= Latency + left'[k.src]
                      /\ k.sym = "+" /\ Open(Peer(k.src))' =>
                           k.due + Full(Peer(k.src))' <= 2 * Latency + left'[Peer(k.src)]
    BY <1>2 DEF SentInTime
  <2>1. CASE k.src = p
    BY <1>0, <1>3, <1>4, <2>1 DEF OneLinkInv, SentInTime
  <2>2. CASE k.src = n
    BY <1>0, <1>3, <1>4, <2>2 DEF OneLinkInv, SentInTime
  <2> QED BY <1>0, <1>1, <2>1, <2>2
<1>8. LeftBehind'
  <2> SUFFICES ASSUME Open(p), NEW k \in wire
               PROVE  Behind(k, n)'
    BY <1>0, <1>2, <1>4 DEF LeftBehind, Poll
  <2>1. m.due + Full(p) <= Latency + left[p]
    BY <1>0, <1>2 DEF OneLinkInv, SentInTime
  <2>2. k.due + Full(p) <= 2 * Latency + left[p]
    BY <1>1, <1>5, <2>1
  <2> QED BY <1>0, <1>3, <1>4, <2>2 DEF Behind
<1>9. HeardInTime'
  <2>1. \A k \in Instance : ~ (Heard(k)' /\ Open(Peer(k))')
    BY <1>0, <1>4
  <2> QED BY <2>1 DEF HeardInTime
<1>10. StillActive'
  <2>1. \A k \in Instance : phase[k] = "down" => phase'[k] = "down"
    BY <1>0, <1>2, <1>3
  <2>2. \A k \in Instance : Heard(k)' => Heard(k)
    BY <1>0, <1>4
  <2> QED BY <1>1, <1>2, <2>1, <2>2, PeerFacts DEF OneLinkInv, StillActive
<1>11. TimersAndState'
  BY <1>0, <1>2, <1>3 DEF OneLinkInv, TimersAndState
<1> QED BY <1>6, <1>7, <1>8, <1>9, <1>10, <1>11 DEF OneLinkInv

\* An answer is noted: it counts as heard, and is gone.
LEMMA NoteBalanced ==
  ASSUME TypeOK, TypeOK', OneLinkInv, NEW n \in Instance, NEW m \in wire,
         n = Peer(m.src), Note(n, m), active' = active
  PROVE  OneLinkInv'
<1>1. \A k \in wire : k.due \in Nat /\ k.due <= Latency /\ k.src \in Instance
  BY MessageFacts DEF TypeOK
<1>0. PICK p \in Instance : /\ p = Peer(n) /\ Peer(p) = n /\ p # n /\ m.src = p
                            /\ \A k \in Instance : k = n \/ k = p
  BY <1>1, PeerFacts
<1>2. /\ phase[n] = "window" /\ m.sym # "?" /\ wire' = wire \ {m}
      /\ UNCHANGED <<phase, left>>
      /\ heard' = [heard EXCEPT ![n] = IF m.sym = "+" THEN @ \cup {m.link} ELSE @ \ {m.link}]
  BY DEF Note
<1>3. CASE m.sym # "+"
  <2>1. \A k \in Instance : heard'[k] \subseteq heard[k]
    BY <1>2, <1>3 DEF TypeOK
  <2> QED BY <1>2, <2>1, OneLinkLess
<1>4. CASE m.sym = "+"
  <2>1. /\ heard'[p] = heard[p]
        /\ \A k \in Instance : (Open(k)' <=> Open(k)) /\ Full(k)' = Full(k)
    BY <1>0, <1>2 DEF TypeOK, Open, Full
  <2>2. Heard(p)' <=> Heard(p)
    BY <1>2, <2>1 DEF Heard, HeardActive
  <2>3. /\ Answered' \subseteq Answered \cup {<<"heard", n>>}
        /\ Load' \subseteq Load \cup {<<"heard", n>>}
    <3>1. \A x \in Answered' : x \in Answered \/ x = <<"heard", n>>
      BY <1>0, <1>2, <2>2, LoadMember, LoadMemberNext
    <3>2. \A x \in Load' : x \in Load \/ x = <<"heard", n>>
      BY <1>2, <3>1, LoadMember, LoadMemberNext
    <3> QED BY <3>1, <3>2
  <2>4. /\ <<"answer", m>> \in Answered /\ <<"answer", m>> \in Load
        /\ <<"answer", m>> \notin Answered' /\ <<"answer", m>> \notin Load'
    BY <1>2, <1>4, LoadParts, LoadMemberNext
  <2>5. /\ Load # {}
        /\ AtMostOne(Load) => AtMostOne(Load')
        /\ AtMostTwo(Load) => AtMostTwo(Load')
        /\ AtMostOne(Answered) => AtMostOne(Answered')
    BY <2>3, <2>4, FewChanged
  <2>6. Balance'
    <3>1. /\ (\A k \in Instance : ~Open(k)') => Load' = {}
          /\ (\E k \in Instance : ~Open(k)') => AtMostOne(Load')
          /\ AtMostTwo(Load')
          /\ (\A k \in Instance : phase'[k] = "window") => AtMostOne(Answered')
      BY <1>2, <2>1, <2>5 DEF OneLinkInv, Balance
    <3> QED BY <3>1 DEF Balance, AtMostOne, AtMostTwo
  <2>7. SentInTime'
    BY <1>2 DEF OneLinkInv, SentInTime, Open, Full
  <2>8. LeftBehind'
    BY <1>2 DEF OneLinkInv, LeftBehind, Open, Full, Behind, Poll
  <2>9. HeardInTime'
    <3>1. ASSUME Open(p) PROVE left[n] + Full(p) <= Window + Latency + left[p]
      <4>1. m.due + Full(p) <= Latency + left[p]
        BY <1>0, <1>4, <3>1 DEF OneLinkInv, SentInTime
      <4>2. left[n] \in Nat /\ left[n] <= Window /\ left[p] \in Nat /\ Full(p) \in Nat
        BY <1>2, FullFacts DEF OneLinkInv, TimersAndState, TypeOK
      <4>3. Latency \in Nat /\ Window \in Nat
        BY TetherAssumption
      <4> QED BY <1>1, <4>1, <4>2, <4>3
    <3>2. ASSUME Heard(p), Open(n) PROVE left[p] + Full(n) <= Window + Latency + left[n]
      BY <1>0, <3>2 DEF OneLinkInv, HeardInTime
    <3>3. ASSUME NEW k \in Instance, Heard(k)', Open(Peer(k))'
          PROVE  left'[k] + Full(Peer(k))' <= Window + Latency + left'[Peer(k)]
      <4>1. CASE k = n
        BY <1>0, <1>2, <2>1, <3>1, <3>3, <4>1
      <4>2. CASE k = p
        BY <1>0, <1>2, <2>1, <2>2, <3>2, <3>3, <4>2
      <4> QED BY <1>0, <4>1, <4>2
    <3> QED BY <3>3 DEF HeardInTime
  <2>10. StillActive'
    <3>1. active[p] \/ phase[p] = "down"
      BY <1>0, <1>4 DEF OneLinkInv, StillActive
    <3>2. Heard(p) => active[n] \/ phase[n] = "down"
      BY <1>0 DEF OneLinkInv, StillActive
    <3>3. \A k \in Instance : Heard(k)' => active[Peer(k)] \/ phase[Peer(k)] = "down"
      BY <1>0, <2>2, <3>1, <3>2
    <3> QED BY <1>2, <3>3 DEF OneLinkInv, StillActive
  <2>11. TimersAndState'
    BY <1>2 DEF OneLinkInv, TimersAndState
  <2> QED BY <2>6, <2>7, <2>8, <2>9, <2>10, <2>11 DEF OneLinkInv
<1> QED BY <1>3, <1>4

\* A poll is answered: the answer takes its place.
LEMMA ReplyBalanced ==
  ASSUME TypeOK, TypeOK', OneLinkInv, NEW n \in Instance, NEW m \in wire,
         n = Peer(m.src), Reply(n, m), active' = active
  PROVE  OneLinkInv'
<1>1. \A k \in wire : k.due \in Nat /\ k.due <= Latency /\ k.src \in Instance /\ k.link \in Link
  BY MessageFacts DEF TypeOK
<1>0. PICK p \in Instance : /\ p = Peer(n) /\ Peer(p) = n /\ p # n /\ m.src = p
                            /\ \A k \in Instance : k = n \/ k = p
  BY <1>1, PeerFacts
<1>2. phase[n] = "interval" /\ m.sym = "?" /\ UNCHANGED <<phase, left, heard>>
  BY DEF Reply
<1>3. PICK f \in Message : /\ f.src = n /\ f.sym \in {"+", "-"} /\ f.due = Latency
                           /\ f.sym = "+" => active[n]
                           /\ wire' = (wire \ {m}) \cup {f}
  <2>1. PICK c \in Copy :
          wire' = (wire \ {m}) \cup {Fresh(n, m.link, IF active[n] THEN "+" ELSE "-", c)}
    BY DEF Reply
  <2>2. CASE active[n]
    <3>1. wire' = (wire \ {m}) \cup {Fresh(n, m.link, "+", c)}
      BY <2>1, <2>2
    <3> QED BY <1>1, <2>2, <3>1, FreshFacts DEF Symbol
  <2>3. CASE ~active[n]
    <3>1. wire' = (wire \ {m}) \cup {Fresh(n, m.link, "-", c)}
      BY <2>1, <2>3
    <3>2. Fresh(n, m.link, "-", c).sym = "-"
      BY DEF Fresh
    <3> QED BY <1>1, <3>1, <3>2, FreshFacts DEF Symbol
  <2> QED BY <2>2, <2>3
<1>4. \A k \in Instance : /\ (Heard(k)' <=> Heard(k)) /\ (Open(k)' <=> Open(k))
                          /\ Full(k)' = Full(k)
  BY <1>2 DEF Heard, HeardActive, Open, Full
<1>5. ~Open(n) /\ m.sym # "+" /\ f.sym # "?"
  BY <1>2, <1>3 DEF Open
<1>6. Load' \subseteq Load \cup {<<"answer", f>>}
  <2>1. \A x \in Answered' : x \in Answered \/ x = <<"answer", f>>
    BY <1>3, <1>4, LoadMember, LoadMemberNext
  <2>2. \A x \in Load' : x \in Load \/ x = <<"answer", f>>
    BY <1>3, <1>5, <2>1, LoadMember, LoadMemberNext
  <2> QED BY <2>2
<1>7. Balance'
  <2>1. <<"poll", m>> \in Load /\ <<"poll", m>> \notin Load'
    <3>1. <<"poll", m>> \notin Answered'
      BY LoadMemberNext
    <3>2. m \notin wire' \/ m.sym # "?"
      BY <1>3, <1>5
    <3> QED BY <1>2, <3>1, <3>2, LoadParts, LoadMemberNext
  <2>2. /\ Load # {}
        /\ AtMostOne(Load) => AtMostOne(Load')
        /\ AtMostTwo(Load) => AtMostTwo(Load')
    BY <1>6, <2>1, FewChanged
  <2>3. phase'[n] # "window"
    BY <1>2
  <2>4. /\ (\A k \in Instance : ~Open(k)') => Load' = {}
        /\ (\E k \in Instance : ~Open(k)') => AtMostOne(Load')
        /\ AtMostTwo(Load')
        /\ (\A k \in Instance : phase'[k] = "window") => AtMostOne(Answered')
    BY <1>4, <2>2, <2>3 DEF OneLinkInv, Balance
  <2> QED BY <2>4 DEF Balance, AtMostOne, AtMostTwo
<1>8. SentInTime'
  <2> SUFFICES ASSUME NEW k \in wire'
               PROVE  /\ k.sym \in {"?", "+"} /\ Open(k.src) =>
                            k.due + Full(k.src) <= Latency + left[k.src]
                      /\ k.sym = "+" /\ Open(Peer(k.src)) =>
                           k.due + Full(Peer(k.src)) <= 2 * Latency + left[Peer(k.src)]
    BY <1>2 DEF SentInTime, Open, Full
  <2>1. CASE k \in wire
    BY <2>1 DEF OneLinkInv, SentInTime
  <2>2. CASE k = f
    <3> SUFFICES ASSUME Open(p) PROVE Latency + Full(p) <= 2 * Latency + left[p]
      BY <1>0, <1>3, <1>5, <2>2
    <3>1. m.due + Full(p) <= Latency + left[p]
      BY <1>0, <1>2 DEF OneLinkInv, SentInTime
    <3>2. Latency \in Nat /\ left[p] \in Nat /\ Full(p) \in Nat
      BY TetherAssumption, FullFacts DEF TypeOK
    <3> QED BY <1>1, <3>1, <3>2
  <2> QED BY <1>3, <2>1, <2>2
<1>9. LeftBehind'
  BY <1>2, <1>3, <1>5 DEF OneLinkInv, LeftBehind, Open, Full, Behind, Poll
<1>10. HeardInTime'
  <2> SUFFICES ASSUME NEW k \in Instance, Heard(k)', Open(Peer(k))'
               PROVE  left'[k] + Full(Peer(k))' <= Window + Latency + left'[Peer(k)]
    BY DEF HeardInTime
  <2>1. Heard(k) /\ Open(Peer(k)) /\ Full(Peer(k))' = Full(Peer(k))
    BY <1>4, PeerFacts
  <2> QED BY <1>2, <2>1 DEF OneLinkInv, HeardInTime
<1>11. StillActive'
  BY <1>2, <1>3, <1>4 DEF OneLinkInv, StillActive
<1>12. TimersAndState'
  BY <1>2 DEF OneLinkInv, TimersAndState
<1> QED BY <1>7, <1>8, <1>9, <1>10, <1>11, <1>12 DEF OneLinkInv

\* A tick takes from what is left of a message and from what is left of a timer alike;
\* where a restart has come due nothing is under way that it could be compared with.
LEMMA TickBalanced ==
  ASSUME TypeOK, TypeOK', SlowRestart, OneLinkInv, Tick
  PROVE  OneLinkInv'
<1> DEFINE Aged(m) == [m EXCEPT !.due = @ - 1]
<1> DEFINE Image(y) == IF y[1] = "heard" THEN y ELSE <<y[1], Aged(y[2])>>
<1>1. /\ UNCHANGED <<phase, active, heard>>
      /\ wire' = {Aged(m) : m \in wire}
      /\ \A m \in wire : m.due > 0
      /\ \A n \in Instance : phase[n] # "down" => left[n] > 0
      /\ \A n \in Instance : left'[n] = IF left[n] > 0 THEN left[n] - 1 ELSE 0
  BY DEF Tick
<1>2. \A k \in wire : /\ Aged(k).src = k.src /\ Aged(k).sym = k.sym
                      /\ Aged(k).due = k.due - 1 /\ k.due \in Nat /\ k.due > 0
                      /\ k.src \in Instance
  BY <1>1, MessageFacts DEF TypeOK, Message
<1>3. /\ \A k : Image(<<"poll", k>>) = <<"poll", Aged(k)>>
      /\ \A k : Image(<<"answer", k>>) = <<"answer", Aged(k)>>
      /\ \A k : Image(<<"heard", k>>) = <<"heard", k>>
  OBVIOUS
<1> HIDE DEF Aged, Image
<1>4. \A n \in Instance : /\ (Heard(n)' <=> Heard(n)) /\ (Open(n)' <=> Open(n))
                          /\ Full(n)' = Full(n)
  BY <1>1 DEF Heard, HeardActive, Open, Full
<1>5. /\ Latency \in Nat /\ Window \in Nat /\ StartDelay \in Nat
      /\ StartDelay > Latency + Window /\ Window > 2 * Latency
  BY TetherAssumption DEF SlowRestart
<1>6. \A n \in Instance : left[n] \in Nat /\ left'[n] \in Nat /\ Full(n) \in Nat
  BY FullFacts DEF TypeOK
\* An open instance that has no time left is about to start.
<1>7. \A n \in Instance : Open(n) =>
        \/ left[n] = 0 /\ left'[n] = 0 /\ Full(n) = StartDelay
        \/ left[n] > 0 /\ left'[n] = left[n] - 1
  BY <1>1, <1>6, FullFacts
<1>8. ASSUME NEW n \in Instance, Open(n), NEW d \in Nat, d > 0
      PROVE  /\ d + Full(n) <= Latency + left[n] => d - 1 + Full(n) <= Latency + left'[n]
             /\ d + Full(n) <= 2 * Latency + left[n] => d - 1 + Full(n) <= 2 * Latency + left'[n]
  BY <1>5, <1>6, <1>7, <1>8
<1>9. Balance'
  <2>1. \A x \in Answered' : \E y \in Answered : x = Image(y)
    <3> SUFFICES ASSUME NEW x \in Answered' PROVE \E y \in Answered : x = Image(y)
      OBVIOUS
    <3>1. CASE \E m \in wire' : m.sym = "+" /\ x = <<"answer", m>>
      <4>1. PICK k \in wire : Aged(k).sym = "+" /\ x = <<"answer", Aged(k)>>
        BY <1>1, <3>1
      <4> QED BY <1>2, <1>3, <4>1, LoadParts
    <3>2. CASE \E n \in Instance : Heard(n)' /\ x = <<"heard", n>>
      BY <1>3, <1>4, <3>2, LoadParts
    <3> QED BY <3>1, <3>2, LoadMemberNext
  <2>2. \A x \in Load' : \E y \in Load : x = Image(y)
    <3> SUFFICES ASSUME NEW x \in Load' PROVE \E y \in Load : x = Image(y)
      OBVIOUS
    <3>1. CASE x \in Answered'
      BY <2>1, <3>1, LoadParts
    <3>2. CASE \E m \in wire' : m.sym = "?" /\ x = <<"poll", m>>
      <4>1. PICK k \in wire : Aged(k).sym = "?" /\ x = <<"poll", Aged(k)>>
        BY <1>1, <3>2
      <4> QED BY <1>2, <1>3, <4>1, LoadParts
    <3> QED BY <3>1, <3>2, LoadMemberNext
  <2>3. /\ Load = {} => Load' = {}
        /\ AtMostOne(Load) => AtMostOne(Load')
        /\ AtMostOne(Answered) => AtMostOne(Answered')
    BY <2>1, <2>2 DEF AtMostOne
  <2>4. AtMostTwo(Load) => AtMostTwo(Load')
    <3> SUFFICES ASSUME AtMostTwo(Load), NEW x \in Load', NEW y \in Load', NEW z \in Load'
                 PROVE  x = y \/ y = z \/ x = z
      BY DEF AtMostTwo
    <3>1. PICK a \in Load : x = Image(a)
      BY <2>2
    <3>2. PICK b \in Load : y = Image(b)
      BY <2>2
    <3>3. PICK c \in Load : z = Image(c)
      BY <2>2
    <3>4. a = b \/ b = c \/ a = c
      BY DEF AtMostTwo
    <3> QED BY <3>1, <3>2, <3>3, <3>4
  <2>5. /\ (\A n \in Instance : ~Open(n)') => Load' = {}
        /\ (\E n \in Instance : ~Open(n)') => AtMostOne(Load')
        /\ AtMostTwo(Load')
        /\ (\A n \in Instance : phase'[n] = "window") => AtMostOne(Answered')
    BY <1>1, <1>4, <2>3, <2>4 DEF OneLinkInv, Balance
  <2> QED BY <2>5 DEF Balance, AtMostOne, AtMostTwo
<1>10. SentInTime'
  <2> SUFFICES ASSUME NEW m \in wire'
               PROVE  /\ m.sym \in {"?", "+"} /\ Open(m.src)' =>
                            m.due + Full(m.src)' <= Latency + left'[m.src]
                      /\ m.sym = "+" /\ Open(Peer(m.src))' =>
                           m.due + Full(Peer(m.src))' <= 2 * Latency + left'[Peer(m.src)]
    BY DEF SentInTime
  <2>1. PICK k \in wire : m = Aged(k)
    BY <1>1
  <2>2. /\ k.src \in Instance /\ Peer(k.src) \in Instance /\ k.due \in Nat /\ k.due > 0
        /\ m.src = k.src /\ m.sym = k.sym /\ m.due = k.due - 1
    BY <1>2, <2>1, PeerFacts
  <2>3. /\ k.sym \in {"?", "+"} /\ Open(k.src) => k.due + Full(k.src) <= Latency + left[k.src]
        /\ k.sym = "+" /\ Open(Peer(k.src)) =>
             k.due + Full(Peer(k.src)) <= 2 * Latency + left[Peer(k.src)]
    BY DEF OneLinkInv, SentInTime
  <2>4. k.sym \in {"?", "+"} /\ Open(k.src) => k.due - 1 + Full(k.src) <= Latency + left'[k.src]
    BY <1>8, <2>2, <2>3
  <2>5. k.sym = "+" /\ Open(Peer(k.src)) =>
          k.due - 1 + Full(Peer(k.src)) <= 2 * Latency + left'[Peer(k.src)]
    BY <1>8, <2>2, <2>3
  <2> QED BY <1>4, <2>2, <2>4, <2>5
<1>11. LeftBehind'
  <2> SUFFICES ASSUME NEW n \in Instance, Open(Peer(n))'
               PROVE  /\ ~Open(n)' => \A m \in wire' : Poll(m, n) => Behind(m, n)'
                      /\ \A m, k \in wire' : Poll(m, n) /\ Poll(k, n) =>
                           m = k \/ Behind(m, n)' \/ Behind(k, n)'
    BY DEF LeftBehind, Poll
  <2>1. Peer(n) \in Instance /\ Open(Peer(n)) /\ (Open(n)' <=> Open(n))
    BY <1>4, PeerFacts
  <2>2. ASSUME NEW k \in wire, Behind(k, n) PROVE Behind(Aged(k), n)'
    <3>1. k.due - 1 + Full(Peer(n)) <= 2 * Latency + left'[Peer(n)]
      BY <1>2, <1>8, <2>1, <2>2 DEF Behind
    <3>2. Full(Peer(n))' = Full(Peer(n))
      BY <1>4, <2>1
    <3> QED BY <1>2, <3>1, <3>2 DEF Behind
  <2>3. \A k \in wire : Poll(Aged(k), n) => Poll(k, n)
    BY <1>2 DEF Poll
  <2>4. ASSUME ~Open(n), NEW m \in wire', Poll(m, n) PROVE Behind(m, n)'
    <3>1. PICK k \in wire : m = Aged(k)
      BY <1>1
    <3>2. Behind(k, n)
      BY <2>1, <2>3, <2>4, <3>1 DEF OneLinkInv, LeftBehind
    <3> QED BY <2>2, <3>1, <3>2
  <2>5. ASSUME NEW m \in wire', NEW j \in wire', Poll(m, n), Poll(j, n)
        PROVE  m = j \/ Behind(m, n)' \/ Behind(j, n)'
    <3>1. PICK k \in wire : m = Aged(k)
      BY <1>1
    <3>2. PICK i \in wire : j = Aged(i)
      BY <1>1
    <3>3. k = i \/ Behind(k, n) \/ Behind(i, n)
      BY <2>1, <2>3, <2>5, <3>1, <3>2 DEF OneLinkInv, LeftBehind
    <3> QED BY <2>2, <3>1, <3>2, <3>3
  <2> QED BY <2>1, <2>4, <2>5
<1>12. HeardInTime'
  <2> SUFFICES ASSUME NEW n \in Instance, Heard(n)', Open(Peer(n))'
               PROVE  left'[n] + Full(Peer(n))' <= Window + Latency + left'[Peer(n)]
    BY DEF HeardInTime
  <2>1. /\ Heard(n) /\ Peer(n) \in Instance /\ Open(Peer(n)) /\ Full(Peer(n))' = Full(Peer(n))
    BY <1>4, PeerFacts
  <2>2. left[n] + Full(Peer(n)) <= Window + Latency + left[Peer(n)]
    BY <2>1 DEF OneLinkInv, HeardInTime
  <2>3. left[n] > 0 /\ left'[n] = left[n] - 1
    BY <1>1, <2>1 DEF Heard
  <2>4. \/ left[Peer(n)] = 0 /\ left'[Peer(n)] = 0 /\ Full(Peer(n)) = StartDelay
        \/ left[Peer(n)] > 0 /\ left'[Peer(n)] = left[Peer(n)] - 1
    BY <1>7, <2>1
  <2>5. left[n] \in Nat /\ left[Peer(n)] \in Nat /\ Full(Peer(n)) \in Nat
    BY <1>6, <2>1
  <2>6. left'[n] + Full(Peer(n)) <= Window + Latency + left'[Peer(n)]
    BY <1>5, <2>2, <2>3, <2>4, <2>5
  <2> QED BY <2>1, <2>6
<1>13. StillActive'
  <2>1. \A m \in wire' : m.sym = "+" => active[m.src] \/ phase[m.src] = "down"
    BY <1>1, <1>2 DEF OneLinkInv, StillActive
  <2> QED BY <1>1, <1>4, <2>1 DEF OneLinkInv, StillActive
<1>14. TimersAndState'
  <2>1. \A n \in Instance : left[n] <= Window => left'[n] <= Window
    BY <1>1, <1>5, <1>6
  <2> QED BY <1>1, <2>1 DEF OneLinkInv, TimersAndState
<1> QED BY <1>9, <1>10, <1>11, <1>12, <1>13, <1>14 DEF OneLinkInv

\* Every step keeps the balance.
LEMMA OneLinkStep ==
  ASSUME OneLink, SlowRestart
  PROVE  TypeOK /\ OneLinkInv /\ [Next]_vars => OneLinkInv'
<1> SUFFICES ASSUME TypeOK, OneLinkInv, [Next]_vars PROVE OneLinkInv'
  OBVIOUS
<1>0. TypeOK'
  BY TypeOKStep
<1>1. ASSUME NEW n \in Instance, Start(n) PROVE OneLinkInv'
  BY <1>0, <1>1, StartBalanced
<1>2. ASSUME NEW n \in Instance, Die(n) PROVE OneLinkInv'
  BY <1>0, <1>2, DieBalanced
<1>3. ASSUME NEW n \in Instance, IntervalTimeout(n) PROVE OneLinkInv'
  BY <1>0, <1>3, PollBalanced
<1>4. ASSUME NEW n \in Instance, WindowTimeout(n) PROVE OneLinkInv'
  BY <1>0, <1>4, WindowBalanced
<1>5. ASSUME NEW m \in wire, ReadyRead(m) PROVE OneLinkInv'
  <2>1. Peer(m.src) \in Instance
    BY MessageFacts, PeerFacts DEF TypeOK
  <2>2. active' = active
    BY <1>5 DEF ReadyRead
  <2>3. CASE Backoff(Peer(m.src), m)
    BY <1>0, <2>1, <2>2, <2>3, BackoffBalanced
  <2>4. CASE Note(Peer(m.src), m)
    BY <1>0, <2>1, <2>2, <2>4, NoteBalanced
  <2>5. CASE Reply(Peer(m.src), m)
    BY <1>0, <2>1, <2>2, <2>5, ReplyBalanced
  <2>6. CASE Discard(Peer(m.src), m)
    <3>1. wire' \subseteq wire /\ UNCHANGED <<phase, left, heard>>
      BY <2>6 DEF Discard
    <3> QED BY <2>2, <3>1, OneLinkLess
  <2> QED BY <1>5, <2>3, <2>4, <2>5, <2>6 DEF ReadyRead
<1>6. ASSUME NEW m \in wire, Lose(m) PROVE OneLinkInv'
  <2>1. wire' \subseteq wire /\ UNCHANGED <<phase, left, active, heard>>
    BY <1>6 DEF Lose
  <2> QED BY <2>1, OneLinkLess
<1>7. CASE Tick
  BY <1>0, <1>7, TickBalanced
<1>8. CASE UNCHANGED vars
  <2>1. wire' \subseteq wire /\ UNCHANGED <<phase, left, active, heard>>
    BY <1>8 DEF vars
  <2> QED BY <2>1, OneLinkLess
<1> QED BY <1>1, <1>2, <1>3, <1>4, <1>5, <1>6, <1>7, <1>8 DEF Next, Crash, Exit

\* So it holds in every behaviour.
LEMMA OneLinkInvHolds ==
  ASSUME OneLink, SlowRestart
  PROVE  Spec => [](TypeOK /\ OneLinkInv)
<1>1. Init => OneLinkInv
  <2> SUFFICES ASSUME Init PROVE OneLinkInv
    OBVIOUS
  <2>1. /\ wire = {}
        /\ \A n \in Instance : phase[n] = "down" /\ ~active[n] /\ ~Heard(n)
    BY DEF Init, Heard
  <2>2. \A x : x \notin Load /\ x \notin Answered
    BY <2>1, LoadMember
  <2>3. Balance
    BY <2>2 DEF Balance, AtMostOne, AtMostTwo
  <2>4. SentInTime /\ LeftBehind /\ HeardInTime /\ StillActive
    BY <2>1 DEF SentInTime, LeftBehind, HeardInTime, StillActive
  <2>5. TimersAndState
    BY <2>1 DEF TimersAndState
  <2> QED BY <2>3, <2>4, <2>5 DEF OneLinkInv
<1> QED BY <1>1, OneLinkStep, TypeCorrect, PTL DEF Spec

\* Only the end of a process and a window that closes end a turn as active.
LEMMA TurnEnds ==
  ASSUME TypeOK, TimersAndState, [Next]_vars, NEW n \in Instance,
         active[n], ~active'[n], phase'[n] # "down"
  PROVE  Heard(n)
<1> USE DEF TypeOK
<1>1. ASSUME NEW k \in Instance, Start(k) PROVE FALSE
  BY <1>1 DEF Start, TimersAndState
<1>2. ASSUME NEW k \in Instance, Die(k) PROVE FALSE
  BY <1>2 DEF Die
<1>3. ASSUME NEW k \in Instance, WindowTimeout(k) PROVE Heard(n)
  <2>1. phase[k] = "window" /\ (StandDown(k) \/ GoActive(k) \/ Remain(k))
    BY <1>3 DEF WindowTimeout
  <2>2. k = n /\ StandDown(k)
    BY <2>1 DEF StandDown, GoActive, Remain
  <2> QED BY <2>1, <2>2 DEF StandDown, Heard
<1>4. ASSUME active' = active PROVE FALSE
  BY <1>4
<1> QED BY <1>1, <1>2, <1>3, <1>4
        DEF Next, Crash, Exit, IntervalTimeout, ReadyRead, Lose, Tick, vars

\* An active instance whose process runs stands down only while its peer is active, or
\* its peer's process has ended since (windowTimeoutData): where both links work because
\* nobody is told of an active peer while it is active, and where one is left because
\* two instances that have both heard of an active peer are never in a window together.
THEOREM ServiceKept ==
  ASSUME TwoGoodLinks \/ (OneLink /\ SlowRestart)
  PROVE  Spec => NoVacancy
<1> DEFINE NotGivenUp ==
             \A n \in Instance : active[n] /\ ~active'[n] /\ phase'[n] # "down"
                                   => active[Peer(n)] \/ phase[Peer(n)] = "down"
<1>1. CASE TwoGoodLinks
  <2>1. TypeOK /\ TetherInv /\ [Next]_vars => NotGivenUp
    <3> SUFFICES ASSUME TypeOK, TetherInv, [Next]_vars, NEW n \in Instance,
                        active[n], ~active'[n], phase'[n] # "down"
                 PROVE  FALSE
      OBVIOUS
    <3>1. Heard(n)
      BY TurnEnds DEF TetherInv
    <3> QED BY <3>1 DEF TetherInv, NoRival, Heard
  <2>2. Spec => [](TypeOK /\ TetherInv)
    BY <1>1, TetherInvHolds
  <2> QED BY <2>1, <2>2, PTL DEF Spec, NoVacancy
<1>2. CASE OneLink /\ SlowRestart
  <2>1. TypeOK /\ OneLinkInv /\ [Next]_vars => NotGivenUp
    <3> SUFFICES ASSUME TypeOK, OneLinkInv, [Next]_vars, NEW n \in Instance,
                        active[n], ~active'[n], phase'[n] # "down"
                 PROVE  active[Peer(n)] \/ phase[Peer(n)] = "down"
      OBVIOUS
    <3>1. Heard(n)
      BY TurnEnds DEF OneLinkInv
    <3> QED BY <3>1 DEF OneLinkInv, StillActive
  <2>2. Spec => [](TypeOK /\ OneLinkInv)
    BY <1>2, OneLinkInvHolds
  <2> QED BY <2>1, <2>2, PTL DEF Spec, NoVacancy
<1> QED BY <1>1, <1>2

=============================================================================
