--------------------------- MODULE MqttPublisher ---------------------------
(***************************************************************************)
(* agent/scan/publisher.py with the announcements of agent/scan/main.py:   *)
(* how the scan agent's retained state gets to the broker, across drops of *)
(* the connection, crashes and restarts.                                   *)
(*                                                                         *)
(* Three parties.  The main thread connects, announces and then runs       *)
(* sessions, whose controller stores its state in _last and publishes it.  *)
(* paho's network thread runs _on_connect and its chain of announcements   *)
(* at every (re)connect, and the relay's commands; both read a _last and   *)
(* publish it later.  The broker keeps the last message of each topic and  *)
(* the will.  A state is "active" or "idle"; paho's queue keeps, of each   *)
(* topic, the newest message not yet sent (older ones may have been sent   *)
(* before).  A Bug_ definition is a plausible mistake in the one below it. *)
(***************************************************************************)
EXTENDS Naturals

CONSTANTS
  Configs,               \* the sets of controllers an agent may have enabled
  MaxCrashes, MaxDrops   \* bounds on the faults

Topics == {"view", "tx", "relay"}

ASSUME ConfigsAreTopics == Configs \subseteq SUBSET Topics
ASSUME FaultBounds == MaxCrashes \in Nat /\ MaxDrops \in Nat

States == {"active", "idle"}
Nothing == "nothing"

VARIABLES
  enabled,   \* the controllers of this agent
  main,      \* the main thread: "down", "connect", "assign", "tx", "relay"
             \* (its own announcements), then "loop"
  client,    \* self._client is set
  mode,      \* what each controller is doing
  last,      \* the controllers' _last
  due,       \* a _pub of the main thread has stored _last and not yet
             \* published: its topic, or Nothing
  net,       \* the network thread: "none", or the announcement it is at
  taken,     \* the _last it has read and is about to publish, or Nothing
  conn,      \* the connection to the broker is up
  out,       \* paho's outgoing queue
  will,      \* the broker still has to publish the will of a lost connection
  online,    \* retained status
  retained,  \* retained state of each topic
  fresh,     \* history: it was published by the process that runs now
  raced,     \* history: the topics whose newest message is one that the
             \* network thread had read before a session changed the state
  crashes, drops

process == <<main, client, mode, last, due>>
network == <<net, taken, conn>>
broker == <<will, online, retained, fresh>>
faults == <<enabled, crashes, drops>>
vars == <<process, network, out, broker, raced, faults>>

Empty == [t \in Topics \union {"status"} |-> Nothing]
AllIdle == [t \in Topics |-> "idle"]

\* The first process; a crash shows what the later ones find at the broker.
Init ==
  /\ enabled \in Configs
  /\ main = "connect" /\ client = FALSE /\ due = Nothing
  /\ mode = AllIdle /\ last = AllIdle
  /\ net = "none" /\ taken = Nothing /\ conn = FALSE /\ out = Empty
  /\ will = FALSE /\ online = FALSE
  /\ retained = AllIdle /\ fresh = {} /\ raced = {}
  /\ crashes = 0 /\ drops = 0

-----------------------------------------------------------------------------
(* The main thread. *)

\* _publish(): nothing without a client, else into paho's queue.
Publish(t, state) ==
  out' = IF client THEN [out EXCEPT ![t] = state] ELSE out

\* client.connect() and loop_start(): from now on the callbacks may run.
Connect ==
  /\ main = "connect" /\ ~will
  /\ main' = "assign" /\ conn' = TRUE /\ net' = "status"
  /\ UNCHANGED <<client, mode, last, due, taken, out, broker, raced, faults>>

Assign ==
  /\ main = "assign" /\ main' = "tx"
  /\ client' = TRUE
  /\ UNCHANGED <<mode, last, due, network, out, broker, raced, faults>>

Bug_AnnounceOnce ==
  /\ main \in {"tx", "relay"}
  /\ main' = IF main = "tx" THEN "relay" ELSE "loop"
  /\ UNCHANGED <<client, mode, last, due, network, out, broker, raced, faults>>

\* Once connected main() announces again, TX and relay.
MainAnnounces ==
  /\ main \in {"tx", "relay"}
  /\ main' = IF main = "tx" THEN "relay" ELSE "loop"
  /\ IF main \in enabled THEN Publish(main, last[main]) ELSE UNCHANGED out
  /\ UNCHANGED <<client, mode, last, due, network, broker, raced, faults>>

\* A session begins or ends: _pub stores its state ...
Change(t) ==
  /\ main = "loop" /\ due = Nothing /\ t \in enabled
  /\ IF mode[t] = "idle"
     THEN mode = AllIdle /\ mode' = [mode EXCEPT ![t] = "active"]
     ELSE mode' = AllIdle
  /\ last' = [last EXCEPT ![t] = mode'[t]]
  /\ due' = t
  /\ UNCHANGED <<main, client, network, out, broker, raced, faults>>

Bug_PublishBefore ==
  /\ due # Nothing /\ due' = Nothing
  /\ Publish(due, IF last[due] = "idle" THEN "active" ELSE "idle")
  /\ raced' = raced \ {due}
  /\ UNCHANGED <<main, client, mode, last, network, broker, faults>>

\* ... and publishes it.
PublishChange ==
  /\ due # Nothing /\ due' = Nothing
  /\ Publish(due, mode[due])
  /\ raced' = raced \ {due}
  /\ UNCHANGED <<main, client, mode, last, network, broker, faults>>

-----------------------------------------------------------------------------
(* The network thread. *)

Bug_StatusOnce ==
  /\ net = "status" /\ net' = "view"
  /\ out' = IF drops = 0 THEN [out EXCEPT !["status"] = "online"] ELSE out
  /\ UNCHANGED <<process, taken, conn, broker, raced, faults>>

\* _on_connect: presence first, through the client it is given ...
OnConnect ==
  /\ net = "status" /\ net' = "view"
  /\ out' = [out EXCEPT !["status"] = "online"]
  /\ UNCHANGED <<process, taken, conn, broker, raced, faults>>

\* ... then the chain on_connected: view, TX, relay.  An announcement reads the
\* controller's _last ...
Take ==
  /\ net \in enabled /\ taken = Nothing
  /\ taken' = last[net]
  /\ UNCHANGED <<process, net, conn, out, broker, raced, faults>>

After(t) == CASE t = "view" -> "tx" [] t = "tx" -> "relay" [] t = "relay" -> "none"

\* A controller that is not enabled has no link in the chain.
NoLink ==
  /\ net \in Topics \ enabled
  /\ net' = After(net)
  /\ UNCHANGED <<process, taken, conn, out, broker, raced, faults>>

\* ... and publishes it.  The view's and the relay's _pub store it again, before
\* or after the change, if any, that has made it old.
Put ==
  /\ taken # Nothing /\ taken' = Nothing
  /\ Publish(net, taken)
  /\ last' \in {last} \union
       IF net = "tx" THEN {} ELSE {[last EXCEPT ![net] = taken]}
  /\ raced' = IF client /\ (taken # mode[net] \/ due = net)
              THEN raced \union {net} ELSE raced
  /\ net' = After(net)
  /\ UNCHANGED <<main, client, mode, due, conn, broker, faults>>

\* A relay command, arm or disarm, publishes the relay's _last the same way.
RelayCommand ==
  /\ net = "none" /\ conn /\ main # "down" /\ "relay" \in enabled
  /\ net' = "relay"
  /\ UNCHANGED <<process, taken, conn, out, broker, raced, faults>>

\* loop_forever(): connected again, and the callback runs again.
Reconnect ==
  /\ ~conn /\ ~will /\ net = "none" /\ main \notin {"down", "connect"}
  /\ conn' = TRUE /\ net' = "status"
  /\ UNCHANGED <<process, taken, out, broker, raced, faults>>

-----------------------------------------------------------------------------
(* The broker and the faults. *)

\* A queued message reaches the broker, which retains it.
Deliver(t) ==
  /\ conn /\ out[t] # Nothing
  /\ out' = [out EXCEPT ![t] = Nothing]
  /\ IF t = "status"
     THEN online' = TRUE /\ UNCHANGED <<retained, fresh>>
     ELSE /\ retained' = [retained EXCEPT ![t] = out[t]]
          /\ fresh' = fresh \union {t}
          /\ UNCHANGED online
  /\ UNCHANGED <<process, network, will, raced, faults>>

\* A lost connection: the broker publishes the will, before it lets the same
\* client in again.
PublishWill ==
  /\ will /\ will' = FALSE
  /\ online' = FALSE
  /\ UNCHANGED <<process, network, out, retained, fresh, raced, faults>>

Drop ==
  /\ conn /\ drops < MaxDrops /\ drops' = drops + 1
  /\ conn' = FALSE /\ will' = TRUE
  /\ UNCHANGED <<process, net, taken, out, online, retained, fresh, raced,
                 enabled, crashes>>

\* The process dies; what it had not sent is lost.
Crash ==
  /\ main # "down" /\ crashes < MaxCrashes /\ crashes' = crashes + 1
  /\ main' = "down" /\ client' = FALSE /\ due' = Nothing
  /\ mode' = AllIdle /\ last' = AllIdle
  /\ net' = "none" /\ taken' = Nothing /\ conn' = FALSE /\ out' = Empty
  /\ will' = (will \/ conn)
  /\ fresh' = {} /\ raced' = {}
  /\ UNCHANGED <<online, retained, enabled, drops>>

Restart ==
  /\ main = "down" /\ main' = "connect"
  /\ UNCHANGED <<client, mode, last, due, network, out, broker, raced, faults>>

-----------------------------------------------------------------------------
Startup == Connect \/ Assign \/ MainAnnounces \/ Restart
NetStep == OnConnect \/ NoLink \/ Take \/ Put \/ Reconnect
Transport == PublishWill \/ \E t \in Topics \union {"status"} : Deliver(t)
Sessions == (\E t \in Topics : Change(t)) \/ PublishChange
Faults == Drop \/ Crash

Next == Startup \/ NetStep \/ RelayCommand \/ Transport \/ Sessions \/ Faults

Spec == Init /\ [][Next]_vars

\* Threads run, systemd restarts, the network delivers.
FairSpec ==
  /\ Spec
  /\ WF_vars(Startup) /\ WF_vars(NetStep)
  /\ WF_vars(PublishWill) /\ WF_vars(Deliver("status"))

-----------------------------------------------------------------------------
\* Started up, nothing under way anywhere.
Settled ==
  /\ main = "loop" /\ due = Nothing
  /\ net = "none" /\ conn /\ out = Empty /\ ~will

\* No TX or relay state of a dead process outlives the start of the next one,
\* wherever in its startup a crash, a drop or the callbacks strike.
NothingOutlives == Settled => enabled \ {"view"} \subseteq fresh

\* Presence is what it should be: online once settled, and offline when the
\* process is gone and the broker has noticed.
PresenceIsTrue ==
  /\ Settled => online
  /\ main = "down" /\ ~will => ~online

\* The dashboard is shown what the agent does: only an announcement or a relay
\* command that overlapped a change of state can have left another state.
ShownIsDone ==
  Settled => \A t \in fresh \ raced : retained[t] = mode[t]

\* However often the connection drops and the process dies, the scanner is
\* online again in the end.
PresenceReturns == <>[]online
=============================================================================
