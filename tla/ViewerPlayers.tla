--------------------------- MODULE ViewerPlayers ---------------------------
(***************************************************************************)
(* The live players of the dashboard's FPV Viewer: the card and the        *)
(* player entry of one viewer (app.js syncViewerPlayers, startViewerWhep;  *)
(* views/viewer.js reconcileCards; whep.js startWhep).  Every viewer id    *)
(* has an entry, a card and a <video> of its own, so one id is the model.  *)
(*                                                                         *)
(* The page runs one task at a time; what interleaves is the answers of    *)
(* the WHEP calls, which may be outstanding for several generations of the *)
(* entry at once.  A call settles in one step: the browser fires the track *)
(* events, resolves setRemoteDescription and runs both awaiting functions  *)
(* to their end before the next task.                                      *)
(*                                                                         *)
(* Generations, <video> elements and connections are object identities:    *)
(* each new one is a number that nothing live has.                         *)
(***************************************************************************)
EXTENDS Naturals, FiniteSets

CONSTANTS
  Streams,      \* stream names a viewer may announce
  MaxTries,     \* the last attempt number; the code's is 40
  MaxChanges,   \* bound on changes of what the viewer announces
  MaxDeaths     \* bound on connections that die while playing

PlayersBounds == {MaxTries, MaxChanges, MaxDeaths} \subseteq Nat

NoStream == ""

VARIABLES
  card,      \* the stream the store shows for the viewer; NoStream when it is not
             \* online or not able to view
  changes,   \* number of times `card' has changed
  element,   \* the card's <video>, 0 when the card is not on the page
  source,    \* connection whose stream is the element's srcObject, 0 for none
  entry,     \* viewerPlayers' entry for the id, or NoEntry
  calls,     \* startWhep calls that have not settled
  conns,     \* answered connections that are still open
  deaths     \* number of connections that died

vars == <<card, changes, element, source, entry, calls, conns, deaths>>

Ids == 1..(MaxChanges + 3)
Fresh(used) == CHOOSE n \in Ids : n \notin used

NoEntry == [gen |-> 0, key |-> NoStream, player |-> 0, timer |-> 0, busy |-> FALSE]

Gens == {c.gen : c \in calls} \cup {entry.gen}
ConnsUsed == {c.conn : c \in calls} \cup {k.conn : k \in conns} \cup {source}

Init ==
  /\ card = NoStream /\ changes = 0
  /\ element = 0 /\ source = 0
  /\ entry = NoEntry
  /\ calls = {} /\ conns = {} /\ deaths = 0

(***************************************************************************)
(* startViewerWhep: a new connection and its outstanding offer.            *)
(***************************************************************************)
Call(g, elt, try) ==
  [gen |-> g, key |-> card, elt |-> elt, try |-> try, conn |-> Fresh(ConnsUsed)]

\* A close forgets the connection, and blanks the element if it is its own.
Closed(src, conn) == IF src = conn THEN 0 ELSE src

(***************************************************************************)
(* The agent announces another stream, goes offline or comes back.         *)
(***************************************************************************)
Announce ==
  /\ changes < MaxChanges
  /\ \E s \in Streams \cup {NoStream} : s # card /\ card' = s
  /\ changes' = changes + 1
  /\ UNCHANGED <<element, source, entry, calls, conns, deaths>>

(***************************************************************************)
(* A render of the viewer screen: reconcileCards, then syncViewerPlayers.  *)
(***************************************************************************)

\* The card's viewer is gone: the card, its <video> and the entry go.
RenderGone ==
  /\ card = NoStream /\ entry # NoEntry
  /\ element' = 0 /\ source' = 0
  /\ entry' = NoEntry
  /\ conns' = {k \in conns : k.conn # entry.player}
  /\ UNCHANGED <<card, changes, calls, deaths>>

\* Another stream than the entry's: the player is closed and a new
\* generation starts; a card that was not on the page is built first.
RenderNew ==
  /\ card # NoStream /\ card # entry.key
  /\ LET elt == IF element = 0 THEN Fresh({c.elt : c \in calls}) ELSE element
         g   == Fresh(Gens)
     IN /\ element' = elt
        /\ entry' = [gen |-> g, key |-> card, player |-> 0, timer |-> 0,
                     busy |-> TRUE]
        /\ calls' = calls \cup {Call(g, elt, 0)}
  /\ source' = IF entry.player = 0 THEN source ELSE Closed(source, entry.player)
  /\ conns' = {k \in conns : k.conn # entry.player}
  /\ UNCHANGED <<card, changes, deaths>>

\* The same stream, nothing playing, no retry and no call: kicked again.
Bug_IdleWhileCalling == entry.player = 0 /\ entry.timer = 0

Idle == entry.player = 0 /\ entry.timer = 0 /\ ~entry.busy

RenderKick ==
  /\ card # NoStream /\ card = entry.key /\ Idle
  /\ calls' = calls \cup {Call(entry.gen, element, 0)}
  /\ entry' = [entry EXCEPT !.busy = TRUE]
  /\ UNCHANGED <<card, changes, element, source, conns, deaths>>

Render == RenderGone \/ RenderNew \/ RenderKick

(***************************************************************************)
(* A call settles.                                                         *)
(***************************************************************************)

\* retry identity: the call belongs to the entry's generation.
Bug_AnyCallIsCurrent(c) == entry # NoEntry

Current(c) == entry.gen = c.gen

\* Answered: the tracks take the element, then the player is installed, or
\* closed because the call was superseded or a sibling won.
Answered(c) ==
  /\ calls' = calls \ {c}
  /\ IF Current(c) /\ entry.player = 0
     THEN /\ entry' = [entry EXCEPT !.player = c.conn, !.busy = FALSE]
          /\ conns' = conns \cup {[conn |-> c.conn, key |-> c.key]}
          /\ source' = IF c.elt = element THEN c.conn ELSE source
     ELSE /\ source' = IF c.elt = element THEN 0 ELSE source
          /\ UNCHANGED <<entry, conns>>
  /\ UNCHANGED <<card, changes, element, deaths>>

Bug_FailureStaysBusy(c) ==
  /\ calls' = calls \ {c}
  /\ UNCHANGED <<card, changes, element, source, entry, conns, deaths>>

\* Refused or failed: a superseded call stays inert, any other arms a retry.
Failed(c) ==
  /\ calls' = calls \ {c}
  /\ entry' = IF Current(c)
              THEN [entry EXCEPT !.busy = FALSE, !.timer = c.try + 1]
              ELSE entry
  /\ UNCHANGED <<card, changes, element, source, conns, deaths>>

\* The retry timer: another attempt, unless they are used up, which leaves
\* the entry to the next render.
Retry ==
  /\ entry.timer # 0
  /\ IF entry.timer > MaxTries
     THEN /\ entry' = [entry EXCEPT !.timer = 0]
          /\ UNCHANGED calls
     ELSE /\ entry' = [entry EXCEPT !.timer = 0, !.busy = TRUE]
          /\ calls' = calls \cup
               {[Call(entry.gen, element, entry.timer) EXCEPT !.key = entry.key]}
  /\ UNCHANGED <<card, changes, element, source, conns, deaths>>

\* onDead: the playing connection fails.
Dies ==
  /\ deaths < MaxDeaths /\ entry.player # 0
  /\ deaths' = deaths + 1
  /\ entry' = [entry EXCEPT !.player = 0]
  /\ source' = Closed(source, entry.player)
  /\ conns' = {k \in conns : k.conn # entry.player}
  /\ UNCHANGED <<card, changes, element, calls>>

AnyAnswered == \E c \in calls : Answered(c)
AnyFailed == \E c \in calls : Failed(c)

Next ==
  \/ Announce
  \/ RenderGone \/ RenderNew \/ RenderKick
  \/ AnyAnswered \/ AnyFailed
  \/ Retry \/ Dies

Settles(n) == \E c \in calls : c.conn = n /\ (Answered(c) \/ Failed(c))
CurrentAnswered == \E c \in calls : Current(c) /\ Answered(c)

Spec == Init /\ [][Next]_vars

(***************************************************************************)
(* Renders come with every data tick and at least every 30 s; timers fire; *)
(* a fetch ends.  A server that is asked again and again answers at last.  *)
(***************************************************************************)
Fairness ==
  /\ WF_vars(Render) /\ WF_vars(Retry)
  /\ \A n \in Ids : WF_vars(Settles(n))
  /\ SF_vars(CurrentAnswered)

FairSpec == Spec /\ Fairness
-----------------------------------------------------------------------------
(***************************************************************************)
(* However late the answers of superseded calls come, the page holds one   *)
(* answered connection at most, that of the installed player, it plays the *)
(* stream of the entry, and the <video> shows it or nothing: no close is   *)
(* missed at a change of stream, when the card goes, or when a call loses  *)
(* (app.js syncViewerPlayers, startViewerWhep; whep.js close).             *)
(***************************************************************************)
OnlyThePlayer ==
  /\ conns = IF entry.player = 0 THEN {}
             ELSE {[conn |-> entry.player, key |-> entry.key]}
  /\ source \in {0, entry.player}

(***************************************************************************)
(* A generation never has two calls, nor a call beside its retry timer or  *)
(* its player: the flags that keep the 30 s kick, the retries and onDead   *)
(* apart (app.js syncViewerPlayers' last test) tell the truth.             *)
(***************************************************************************)
OneAttempt ==
  LET mine == {c \in calls : Current(c)} IN
  /\ Cardinality(mine) = (IF entry.busy THEN 1 ELSE 0)
  /\ mine # {} => entry.timer = 0 /\ entry.player = 0
  /\ entry.timer # 0 => entry.player = 0

(***************************************************************************)
(* A viewer that stays announced ends up with a player, after any number   *)
(* of refused calls and after the retries have given up.                   *)
(***************************************************************************)
PlayerReturns == <>[](card # NoStream) => <>[](entry.player # 0 /\ entry.key = card)
=============================================================================
