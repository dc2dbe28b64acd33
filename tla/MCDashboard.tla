---------------------------- MODULE MCDashboard ----------------------------
(***************************************************************************)
(* The dashboard for TLC: FrameArchive, DetectionFeed and ViewerPlayers.   *)
(* They share no state, so each behaviour is of one of them, which its     *)
(* initial state chooses; the others rest in their initial state.          *)
(***************************************************************************)
EXTENDS FrameArchive

CONSTANTS
  Keys, MaxScanners, MaxEvents, MaxListed, RecentTtl, LiveStale, MaxTime, MaxCrashes,
  Streams, MaxTries, MaxChanges, MaxDeaths

VARIABLES
  part,   \* "archive", "feed", "players"
  now, fRetained, logged, baseline, events, page, seen, gap, crashes,
  card, changes, element, source, entry, calls, conns, deaths

F == INSTANCE DetectionFeed WITH retained <- fRetained
P == INSTANCE ViewerPlayers

ASSUME ScreenBounds == F!FeedBounds /\ P!PlayersBounds

feed == <<now, fRetained, logged, baseline, events, page, seen, gap, crashes>>
players == <<card, changes, element, source, entry, calls, conns, deaths>>
all == <<part, vars, feed, players>>

MCInit == part \in {"archive", "feed", "players"} /\ Init /\ F!Init /\ P!Init

MCNext ==
  \/ part = "archive" /\ Next /\ UNCHANGED <<part, feed, players>>
  \/ part = "feed" /\ F!Next /\ UNCHANGED <<part, vars, players>>
  \/ part = "players" /\ P!Next /\ UNCHANGED <<part, vars, feed>>

\* The fairness of each component, while it is the one that runs.
MCSpec ==
  /\ MCInit /\ [][MCNext]_all
  /\ WF_vars(part = "archive" /\ Server) /\ SF_vars(part = "archive" /\ StartPrune)
  /\ WF_players(part = "players" /\ P!Render)
  /\ WF_players(part = "players" /\ P!Retry)
  /\ \A n \in P!Ids : WF_players(part = "players" /\ P!Settles(n))
  /\ SF_players(part = "players" /\ P!CurrentAnswered)

\* The properties of the components: a scanner claims on the page what its last
\* payload says,
ClaimsMatch == F!ClaimsMatch

\* a reload loses no row,
ReloadKeepsRows == F!ReloadKeepsRows

\* frames past the retention leave the archive,
ExpiredFramesLeave == part = "archive" => ExpiredLeave

\* no superseded call leaves a connection or a picture,
OnlyThePlayer == P!OnlyThePlayer

\* no generation calls twice at once,
OneAttempt == P!OneAttempt

\* and a viewer that stays gets a player.
PlayerReturns == part = "players" => P!PlayerReturns
=============================================================================
