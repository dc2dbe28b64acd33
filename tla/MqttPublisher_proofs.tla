------------------------ MODULE MqttPublisher_proofs ------------------------
(***************************************************************************)
(* What the broker retains of the scan agent, for every set of controllers *)
(* and any number of crashes and drops: no TX or relay state of a dead     *)
(* process, presence as it is, and the state of the agent.                 *)
(***************************************************************************)
EXTENDS MqttPublisher, TLAPS

Mains == {"down", "connect", "assign", "tx", "relay", "loop"}

Types ==
  /\ enabled \subseteq Topics /\ main \in Mains
  /\ net \in {"none", "status"} \union Topics
  /\ mode \in [Topics -> States] /\ last \in [Topics -> States]
  /\ due \in Topics \union {Nothing} /\ taken \in States \union {Nothing}
  /\ out \in [Topics \union {"status"} -> States \union {"online", Nothing}]
  /\ \A t \in Topics : out[t] # "online"
  /\ retained \in [Topics -> States]
  /\ fresh \subseteq Topics /\ raced \subseteq Topics
  /\ {client, conn, will, online} \subseteq BOOLEAN

\* Who may do what: the client is there from assign on, sessions are run by the
\* loop, and nothing is connected before connect().
PhaseInv ==
  /\ client <=> main \in {"tx", "relay", "loop"}
  /\ main \in {"down", "connect"} => net = "none" /\ ~conn
  /\ due # Nothing => main = "loop"
  /\ taken # Nothing => net \in enabled
  /\ conn => ~will

\* Where the state of a topic that main() announces is: still to be announced,
\* in the queue, or at the broker.
AnnouncedInv ==
  \A t \in enabled \ {"view"} :
    \/ t \in fresh \/ out[t] # Nothing
    \/ main \in {"down", "connect", "assign", "tx"}
    \/ main = "relay" /\ t = "relay"

\* A connection has announced itself, or is about to; a lost one is offline when
\* its will is out.
PresenceInv ==
  /\ conn => online \/ out["status"] # Nothing \/ net = "status"
  /\ ~conn /\ ~will => ~online

\* Before the loop all is idle, and in it one controller at most is not.
ModeInv ==
  /\ main # "loop" => mode = AllIdle /\ last = AllIdle /\ taken \in {"idle", Nothing}
  /\ \A t, u \in Topics : mode[t] # "idle" /\ mode[u] # "idle" => t = u

\* The newest message of a topic, queued or retained, is the state of the agent:
\* else its publication is due, or an announcement was overtaken.
NewestInv ==
  \A t \in Topics \ raced :
    due # t =>
      /\ out[t] # Nothing => out[t] = mode[t]
      /\ out[t] = Nothing /\ t \in fresh => retained[t] = mode[t]

IInv ==
  /\ Types /\ PhaseInv /\ AnnouncedInv /\ PresenceInv /\ ModeInv /\ NewestInv

-----------------------------------------------------------------------------
\* The initial states satisfy the invariant.
LEMMA InitHolds == Init => IInv
<1> SUFFICES ASSUME Init PROVE IInv
  OBVIOUS
<1> USE DEF Init, AllIdle, Empty, States, Nothing
<1>1. Types
  <2>1. enabled \subseteq Topics
    BY ConfigsAreTopics
  <2>2. {client, conn, will, online} \subseteq BOOLEAN
    OBVIOUS
  <2> QED
    BY <2>1, <2>2 DEF Types, Mains, Topics
<1>2. PhaseInv
  BY DEF PhaseInv, Mains
<1>3. AnnouncedInv /\ PresenceInv
  BY DEF AnnouncedInv, PresenceInv
<1>4. ModeInv /\ NewestInv
  BY DEF ModeInv, NewestInv, Topics
<1> QED
  BY <1>1, <1>2, <1>3, <1>4 DEF IInv

\* The start of a process, up to its loop.
LEMMA StartupKeeps ==
  ASSUME IInv, Startup
  PROVE  IInv'
<1> USE DEF IInv, Topics, States, Nothing, process, network, broker, faults
<1>1. CASE Connect
  <2> USE <1>1 DEF Connect
  <2>1. Types' BY DEF Types, Mains
  <2>2. PhaseInv' BY DEF PhaseInv, Types, Topics
  <2>3. AnnouncedInv' BY DEF AnnouncedInv
  <2>4. PresenceInv' BY DEF PresenceInv
  <2>5. ModeInv' /\ NewestInv' BY DEF ModeInv, NewestInv
  <2> QED BY <2>1, <2>2, <2>3, <2>4, <2>5
<1>2. CASE Assign
  <2> USE <1>2 DEF Assign
  <2>1. Types' BY DEF Types, Mains
  <2>2. PhaseInv' BY DEF PhaseInv, Types, Topics
  <2>3. AnnouncedInv' /\ PresenceInv' BY DEF AnnouncedInv, PresenceInv
  <2>4. ModeInv' /\ NewestInv' BY DEF ModeInv, NewestInv
  <2> QED BY <2>1, <2>2, <2>3, <2>4
<1>3. CASE MainAnnounces
  <2> USE <1>3 DEF MainAnnounces, Publish
  <2>1. Types' BY DEF Types, Mains
  <2>2. PhaseInv' BY DEF PhaseInv, Types, Topics
  <2>3. AnnouncedInv' BY DEF Types, PhaseInv, AnnouncedInv
  <2>4. PresenceInv' BY DEF Types, PresenceInv
  <2>5. ModeInv' BY DEF ModeInv
  <2>6. NewestInv' BY DEF Types, ModeInv, NewestInv
  <2> QED BY <2>1, <2>2, <2>3, <2>4, <2>5, <2>6
<1>4. CASE Restart
  <2> USE <1>4 DEF Restart
  <2>1. Types' BY DEF Types, Mains
  <2>2. PhaseInv' BY DEF PhaseInv, Types, Topics
  <2>3. AnnouncedInv' /\ PresenceInv' BY DEF AnnouncedInv, PresenceInv
  <2>4. ModeInv' /\ NewestInv' BY DEF ModeInv, NewestInv
  <2> QED BY <2>1, <2>2, <2>3, <2>4
<1> QED
  BY <1>1, <1>2, <1>3, <1>4 DEF Startup

\* The sessions of the loop.
LEMMA SessionsKeep ==
  ASSUME IInv, Sessions
  PROVE  IInv'
<1> USE DEF IInv, States, Nothing, process, network, broker, faults
<1>1. ASSUME NEW t \in Topics, Change(t) PROVE IInv'
  <2> USE <1>1 DEF Change
  <2>1. /\ mode' \in [Topics -> States]
        /\ \A u \in Topics \ {t} : mode'[u] = mode[u]
        /\ \A u, v \in Topics : mode'[u] # "idle" /\ mode'[v] # "idle" => u = v
    <3>1. CASE mode[t] = "idle"
      BY <3>1 DEF Types, AllIdle
    <3>2. CASE mode[t] # "idle"
      BY <3>2 DEF Types, AllIdle, ModeInv
    <3> QED BY <3>1, <3>2
  <2>2. last' \in [Topics -> States]
    BY <2>1 DEF Types
  <2>3. Types' BY <2>1, <2>2 DEF Types
  <2>4. PhaseInv' BY DEF PhaseInv, Types, Topics
  <2>5. AnnouncedInv' /\ PresenceInv' BY DEF AnnouncedInv, PresenceInv
  <2>6. ModeInv' BY <2>1 DEF ModeInv
  <2>7. NewestInv' BY <2>1 DEF NewestInv, Types, Topics
  <2> QED BY <2>3, <2>4, <2>5, <2>6, <2>7
<1>2. CASE PublishChange
  <2> USE <1>2 DEF PublishChange, Publish
  <2>1. Types' BY DEF Types, Topics
  <2>2. PhaseInv' BY DEF PhaseInv, Types, Topics
  <2>3. AnnouncedInv' /\ PresenceInv'
    BY DEF AnnouncedInv, PresenceInv, Types, Topics
  <2>4. ModeInv' BY DEF ModeInv
  <2>5. NewestInv' BY DEF NewestInv, PhaseInv, Types
  <2> QED BY <2>1, <2>2, <2>3, <2>4, <2>5
<1> QED
  BY <1>1, <1>2 DEF Sessions

\* The network thread: the chain of announcements and the relay's commands.
LEMMA NetKeeps ==
  ASSUME IInv, NetStep \/ RelayCommand
  PROVE  IInv'
<1> USE DEF IInv, Nothing, process, network, broker, faults
<1>1. CASE OnConnect
  <2> USE <1>1 DEF OnConnect
  <2>1. Types' BY DEF Types, Topics
  <2>2. PhaseInv' BY DEF PhaseInv, Types, Topics
  <2>3. AnnouncedInv' BY DEF AnnouncedInv, Types, Topics
  <2>4. PresenceInv' BY DEF PresenceInv, Types, Topics
  <2>5. ModeInv' /\ NewestInv' BY DEF ModeInv, NewestInv, Types, Topics
  <2> QED BY <2>1, <2>2, <2>3, <2>4, <2>5
<1>2. CASE Take
  <2> USE <1>2 DEF Take
  <2>1. Types' BY DEF Types, States
  <2>2. PhaseInv' BY DEF PhaseInv, Types
  <2>3. AnnouncedInv' /\ PresenceInv' BY DEF AnnouncedInv, PresenceInv
  <2>4. ModeInv' /\ NewestInv' BY DEF ModeInv, NewestInv, Types, AllIdle
  <2> QED BY <2>1, <2>2, <2>3, <2>4
<1>3. CASE NoLink
  <2> USE <1>3 DEF NoLink, After
  <2>1. Types' BY DEF Types, Topics
  <2>2. PhaseInv' BY DEF PhaseInv, Types, Topics
  <2>3. AnnouncedInv' /\ PresenceInv' BY DEF AnnouncedInv, PresenceInv, Topics
  <2>4. ModeInv' /\ NewestInv' BY DEF ModeInv, NewestInv
  <2> QED BY <2>1, <2>2, <2>3, <2>4
<1>4. CASE Put
  <2> USE <1>4 DEF Put, Publish
  <2>1. net \in Topics /\ taken \in States /\ net' \in {"tx", "relay", "none"}
    BY DEF PhaseInv, Types, After, Topics
  <2>2. last' \in [Topics -> States]
    BY <2>1 DEF Types
  <2>3. Types' BY <2>1, <2>2 DEF Types, Topics, States
  <2>4. PhaseInv' BY DEF PhaseInv, Types, Topics
  <2>5. AnnouncedInv' BY <2>1 DEF AnnouncedInv, Types, States
  <2>6. PresenceInv' BY <2>1 DEF PresenceInv, Types, Topics
  <2>7. ModeInv'
    BY <2>1 DEF ModeInv, Types, AllIdle, States
  <2>8. NewestInv' BY <2>1 DEF NewestInv, Types, States
  <2> QED BY <2>3, <2>4, <2>5, <2>6, <2>7, <2>8
<1>5. CASE Reconnect
  <2> USE <1>5 DEF Reconnect
  <2>1. Types' BY DEF Types
  <2>2. PhaseInv' BY DEF PhaseInv, Types, Topics
  <2>3. AnnouncedInv' /\ PresenceInv' BY DEF AnnouncedInv, PresenceInv
  <2>4. ModeInv' /\ NewestInv' BY DEF ModeInv, NewestInv
  <2> QED BY <2>1, <2>2, <2>3, <2>4
<1>6. CASE RelayCommand
  <2> USE <1>6 DEF RelayCommand
  <2>1. Types' BY DEF Types, Topics
  <2>2. PhaseInv' BY DEF PhaseInv, Types, Topics
  <2>3. AnnouncedInv' /\ PresenceInv' BY DEF AnnouncedInv, PresenceInv
  <2>4. ModeInv' /\ NewestInv' BY DEF ModeInv, NewestInv
  <2> QED BY <2>1, <2>2, <2>3, <2>4
<1> QED
  BY <1>1, <1>2, <1>3, <1>4, <1>5, <1>6 DEF NetStep

\* The broker takes a message, or publishes a will.
LEMMA TransportKeeps ==
  ASSUME IInv, Transport
  PROVE  IInv'
<1> USE DEF IInv, Nothing, process, network, broker, faults
<1>1. CASE PublishWill
  <2> USE <1>1 DEF PublishWill
  <2>1. Types' BY DEF Types
  <2>2. PhaseInv' BY DEF PhaseInv, Types, Topics
  <2>3. AnnouncedInv' BY DEF AnnouncedInv
  <2>4. PresenceInv' BY DEF PresenceInv, PhaseInv
  <2>5. ModeInv' /\ NewestInv' BY DEF ModeInv, NewestInv
  <2> QED BY <2>1, <2>2, <2>3, <2>4, <2>5
<1>2. CASE Deliver("status")
  <2> USE <1>2 DEF Deliver, Topics
  <2>1. Types' BY DEF Types
  <2>2. PhaseInv' BY DEF PhaseInv, Types, Topics
  <2>3. AnnouncedInv' BY DEF AnnouncedInv, Types
  <2>4. PresenceInv' BY DEF PresenceInv, Types
  <2>5. ModeInv' /\ NewestInv' BY DEF ModeInv, NewestInv, Types
  <2> QED BY <2>1, <2>2, <2>3, <2>4, <2>5
<1>3. ASSUME NEW t \in Topics, Deliver(t) PROVE IInv'
  <2> USE <1>3 DEF Deliver
  <2>1. t # "status" BY DEF Topics
  <2>2. Types' BY <2>1 DEF Types, States
  <2>3. PhaseInv' BY <2>1 DEF PhaseInv
  <2>4. AnnouncedInv' BY <2>1 DEF AnnouncedInv, Types
  <2>5. PresenceInv' BY <2>1 DEF PresenceInv, Types
  <2>6. ModeInv' BY <2>1 DEF ModeInv
  <2>7. NewestInv' BY <2>1 DEF NewestInv, Types
  <2> QED BY <2>2, <2>3, <2>4, <2>5, <2>6, <2>7
<1> QED
  BY <1>1, <1>2, <1>3 DEF Transport

\* A drop, and the death of the process.
LEMMA FaultsKeep ==
  ASSUME IInv, Faults
  PROVE  IInv'
<1> USE DEF IInv, Nothing, process, network, broker, faults
<1>1. CASE Drop
  <2> USE <1>1 DEF Drop
  <2>1. Types' BY DEF Types
  <2>2. PhaseInv' BY DEF PhaseInv, Types, Topics
  <2>3. AnnouncedInv' /\ PresenceInv' BY DEF AnnouncedInv, PresenceInv
  <2>4. ModeInv' /\ NewestInv' BY DEF ModeInv, NewestInv
  <2> QED BY <2>1, <2>2, <2>3, <2>4
<1>2. CASE Crash
  <2> USE <1>2 DEF Crash, AllIdle, Empty
  <2>1. Types' BY DEF Types, Topics, States, Mains
  <2>2. PhaseInv' BY DEF PhaseInv, Types
  <2>3. AnnouncedInv' BY DEF AnnouncedInv
  <2>4. PresenceInv' BY DEF PresenceInv, Types
  <2>5. ModeInv' BY DEF ModeInv
  <2>6. NewestInv' BY DEF NewestInv, Topics
  <2> QED BY <2>1, <2>2, <2>3, <2>4, <2>5, <2>6
<1> QED
  BY <1>1, <1>2 DEF Faults

\* Every step satisfies the invariant.
LEMMA StepHolds == IInv /\ [Next]_vars => IInv'
<1> SUFFICES ASSUME IInv, [Next]_vars PROVE IInv'
  OBVIOUS
<1>1. CASE UNCHANGED vars
  BY <1>1 DEF vars, process, network, broker, faults, IInv, Types, PhaseInv,
              AnnouncedInv, PresenceInv, ModeInv, NewestInv
<1> QED
  BY <1>1, StartupKeeps, SessionsKeep, NetKeeps, TransportKeeps, FaultsKeep DEF Next

\* It holds in every reachable state.
LEMMA Inductive == Spec => []IInv
  BY InitHolds, StepHolds, PTL DEF Spec

-----------------------------------------------------------------------------
\* The queue, what is read and what is retained are states of the topics
\* (publisher.py _publish, the controllers' _pub).
THEOREM TypeCorrect == Spec => []Types
<1>1. IInv => Types
  BY DEF IInv
<1> QED BY <1>1, Inductive, PTL

\* main() announces TX and relay once more when it is connected, so the broker
\* has what this process says of them, wherever crashes and drops fell in its
\* start and in those before it (publisher.py connect, main.py main).
THEOREM DeadStateIsReplaced == Spec => []NothingOutlives
<1>1. IInv => NothingOutlives
  BY DEF IInv, AnnouncedInv, NothingOutlives, Settled, Empty, Types
<1> QED BY <1>1, Inductive, PTL

\* _on_connect announces the process and the will withdraws it: the retained
\* presence is true once both are out (publisher.py _on_connect, will_set).
THEOREM PresenceIsKept == Spec => []PresenceIsTrue
<1>1. IInv => PresenceIsTrue
  <2>1. IInv /\ Settled => online
    BY DEF IInv, PresenceInv, Settled, Empty
  <2>2. IInv /\ main = "down" /\ ~will => ~online
    BY DEF IInv, PresenceInv, PhaseInv
  <2> QED BY <2>1, <2>2 DEF PresenceIsTrue
<1> QED BY <1>1, Inductive, PTL

\* The state the broker retains is the agent's, for every interleaving of
\* sessions with the network thread's announcements, except where one of these
\* has overtaken a change (publisher.py _publish, the controllers' announce).
THEOREM StateIsShown == Spec => []ShownIsDone
<1>1. IInv => ShownIsDone
  BY DEF IInv, NewestInv, ShownIsDone, Settled, Empty, Types, Topics, Nothing
<1> QED BY <1>1, Inductive, PTL
=============================================================================
