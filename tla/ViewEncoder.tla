---------------------------- MODULE ViewEncoder ----------------------------
(***************************************************************************)
(* agent/video/view_encoder.py: the one ffmpeg push that outlives the view *)
(* sessions, its FrameQueue, its freeze frame and its OSD label.           *)
(*                                                                         *)
(* Two threads.  The scan thread runs the sessions: it submits frames,     *)
(* sets the label and, when the view is over, calls idle().  The writer    *)
(* thread takes a frame, or repeats the last one, or shows black, and      *)
(* respawns ffmpeg when it has died.  Only the queue has a lock: _last and *)
(* _osd_text are read and written as each thread comes to them.            *)
(*                                                                         *)
(* A frame is the number of its session, 0 is black, and no freeze frame.  *)
(* A session sets two labels, without and then with the video standard;    *)
(* label 0 is the idle one.  A Bug_ definition is a plausible mistake in   *)
(* the one below it.                                                       *)
(***************************************************************************)
EXTENDS Naturals, Sequences

CONSTANTS
  QueueMax,      \* capacity of the frame queue
  MaxSessions,   \* bound on the sessions
  MaxFaults      \* bound on deaths and failed spawns of ffmpeg

EncoderBounds ==
  QueueMax \in Nat \ {0} /\ MaxSessions \in Nat /\ MaxFaults \in Nat

VARIABLES
  scan,      \* the scan thread: "off", "live", or in idle(): "idle", "clear"
  session,   \* the session it runs, or ran last
  locked,    \* the session knows its standard
  saying,    \* a label it has stored and not yet written, or NoLabel
  label,     \* _osd_text
  file,      \* what the label file holds
  queue,     \* the frame queue
  last,      \* the freeze frame
  enc,       \* the writer thread: "label", "rewrite", "spawn", "get", "keep",
             \* "freeze", "tick", "backoff"
  took,      \* the label it has read and is about to write
  hand,      \* the frame in its hands
  ff,        \* ffmpeg runs
  shown,     \* the frame ffmpeg was given last
  newest,    \* history: the newest session ffmpeg was given a frame of
  stale,     \* history: the label file holds an older label that the writer
             \* thread had read before the newer one was set
  faults

session_ == <<scan, session, locked>>
osd == <<saying, label, file, stale>>
writer == <<enc, took, hand>>
ffmpeg == <<ff, shown, newest, faults>>
vars == <<session_, osd, queue, last, writer, ffmpeg>>

NoLabel == 2 * MaxSessions + 1
Labels == 0..(2 * MaxSessions)
MaxOf(a, b) == IF a > b THEN a ELSE b

Init ==
  /\ scan = "off" /\ session = 0 /\ locked = FALSE
  /\ saying = NoLabel /\ label = 0 /\ file \in Labels /\ stale = FALSE
  /\ queue = <<>> /\ last = 0
  /\ enc = "label" /\ took = NoLabel /\ hand = 0
  /\ ff = FALSE /\ shown = 0 /\ newest = 0 /\ faults = 0

-----------------------------------------------------------------------------
(* The scan thread. *)

\* set_osd(): the label is stored for the respawns to come ...
SetOsd(text) == label' = text /\ saying' = text

\* ... and written.
WriteOsd ==
  /\ saying # NoLabel /\ saying' = NoLabel
  /\ file' = saying /\ stale' = FALSE
  /\ UNCHANGED <<session_, label, queue, last, writer, ffmpeg>>

\* run_stream_source begins, for a first request or a retune.
Begin ==
  /\ scan \in {"off", "live"} /\ saying = NoLabel
  /\ session < MaxSessions /\ session' = session + 1
  /\ scan' = "live" /\ locked' = FALSE
  /\ SetOsd(2 * session' - 1)
  /\ UNCHANGED <<file, stale, queue, last, writer, ffmpeg>>

Bug_LabelNotKept ==
  /\ scan = "live" /\ saying = NoLabel /\ ~locked
  /\ locked' = TRUE /\ saying' = 2 * session
  /\ UNCHANGED <<scan, session, label, file, stale, queue, last, writer, ffmpeg>>

\* The first chunk tells the standard.
Lock ==
  /\ scan = "live" /\ saying = NoLabel /\ ~locked
  /\ locked' = TRUE /\ SetOsd(2 * session)
  /\ UNCHANGED <<scan, session, file, stale, queue, last, writer, ffmpeg>>

Bug_NewestFirst ==
  /\ scan = "live" /\ saying = NoLabel /\ locked
  /\ queue' = <<session>> \o IF Len(queue) = QueueMax THEN Tail(queue) ELSE queue
  /\ UNCHANGED <<session_, osd, last, writer, ffmpeg>>

\* submit(): when the queue is full the oldest frame goes.
Submit ==
  /\ scan = "live" /\ saying = NoLabel /\ locked
  /\ queue' = Append(IF Len(queue) = QueueMax THEN Tail(queue) ELSE queue, session)
  /\ UNCHANGED <<session_, osd, last, writer, ffmpeg>>

\* The view is over, and run_view calls idle().
Over ==
  /\ scan = "live" /\ saying = NoLabel /\ scan' = "idle"
  /\ UNCHANGED <<session, locked, osd, queue, last, writer, ffmpeg>>

\* idle(): the freeze frame goes first,
DropFreeze ==
  /\ scan = "idle" /\ scan' = "clear"
  /\ last' = 0
  /\ UNCHANGED <<session, locked, osd, queue, writer, ffmpeg>>

\* then the queue, and the label of the session.
ClearQueue ==
  /\ scan = "clear" /\ scan' = "off" /\ locked' = FALSE
  /\ queue' = <<>> /\ SetOsd(0)
  /\ UNCHANGED <<session, file, stale, last, writer, ffmpeg>>

-----------------------------------------------------------------------------
(* The writer thread: the supervisor ... *)

\* Before every spawn it writes the label again, to keep it across a respawn.
ReadLabel ==
  /\ enc = "label" /\ enc' = "rewrite" /\ took' = label
  /\ UNCHANGED <<session_, osd, queue, last, hand, ffmpeg>>

Rewrite ==
  /\ enc = "rewrite" /\ enc' = "spawn"
  /\ file' = took /\ stale' = (took # label) /\ took' = NoLabel
  /\ UNCHANGED <<session_, saying, label, queue, last, hand, ffmpeg>>

Spawn ==
  /\ enc = "spawn"
  /\ \/ enc' = "get" /\ ff' = TRUE /\ UNCHANGED faults
     \/ /\ faults < MaxFaults /\ faults' = faults + 1
        /\ enc' = "backoff" /\ UNCHANGED ff
  /\ UNCHANGED <<session_, osd, queue, last, took, hand, shown, newest>>

Respawn ==
  /\ enc = "backoff" /\ enc' = "label"
  /\ UNCHANGED <<session_, osd, queue, last, took, hand, ffmpeg>>

\* ffmpeg's death, or what is taken for it: it is killed, and spawned again.
GiveUp == enc' = "backoff" /\ ff' = FALSE

-----------------------------------------------------------------------------
(* ... and _run_writer. *)

\* A frame comes out of the queue ...
Get ==
  /\ enc = "get" /\ queue # <<>> /\ enc' = "keep"
  /\ hand' = Head(queue) /\ queue' = Tail(queue)
  /\ UNCHANGED <<session_, osd, last, took, ffmpeg>>

\* ... and becomes the freeze frame.
Keep ==
  /\ enc = "keep" /\ enc' = "tick"
  /\ last' = hand
  /\ UNCHANGED <<session_, osd, queue, took, hand, ffmpeg>>

\* None comes in time: black, or the freeze frame, which is looked at ...
GetTimesOut ==
  /\ enc = "get" /\ queue = <<>>
  /\ IF ~ff THEN GiveUp /\ UNCHANGED hand
     ELSE /\ enc' = IF last = 0 THEN "tick" ELSE "freeze"
          /\ hand' = IF last = 0 THEN 0 ELSE hand
          /\ UNCHANGED ff
  /\ UNCHANGED <<session_, osd, queue, last, took, shown, newest, faults>>

Bug_WaitsForPicture ==
  /\ enc = "freeze"
  /\ IF last = 0 THEN UNCHANGED <<enc, hand>> ELSE enc' = "tick" /\ hand' = last
  /\ UNCHANGED <<session_, osd, queue, last, took, ffmpeg>>

\* ... before it is read: by then idle() may have dropped it, and writing None
\* raises, which the supervisor takes for ffmpeg's death.
Freeze ==
  /\ enc = "freeze"
  /\ IF last = 0 THEN GiveUp /\ UNCHANGED hand
     ELSE enc' = "tick" /\ hand' = last /\ UNCHANGED ff
  /\ UNCHANGED <<session_, osd, queue, last, took, shown, newest, faults>>

\* The pacer writes the frame, or finds the pipe broken.
Tick ==
  /\ enc = "tick"
  /\ IF ff
     THEN enc' = "get" /\ shown' = hand /\ newest' = MaxOf(newest, hand)
          /\ UNCHANGED ff
     ELSE GiveUp /\ UNCHANGED <<shown, newest>>
  /\ UNCHANGED <<session_, osd, queue, last, took, hand, faults>>

FfmpegDies ==
  /\ ff /\ ff' = FALSE
  /\ faults < MaxFaults /\ faults' = faults + 1
  /\ UNCHANGED <<session_, osd, queue, last, writer, shown, newest>>

-----------------------------------------------------------------------------
SessionStep == Begin \/ Lock \/ Submit \/ Over
CallStep == WriteOsd \/ DropFreeze \/ ClearQueue
WriterStep ==
  \/ ReadLabel \/ Rewrite \/ Spawn \/ Respawn
  \/ Get \/ Keep \/ GetTimesOut \/ Freeze \/ Tick

Next == SessionStep \/ CallStep \/ WriterStep \/ FfmpegDies

Spec == Init /\ [][Next]_vars

\* The writer thread runs, and set_osd() and idle() return.
FairSpec == Spec /\ WF_vars(CallStep) /\ WF_vars(WriterStep)

-----------------------------------------------------------------------------
TypeOK ==
  /\ scan \in {"off", "live", "idle", "clear"} /\ session \in 0..MaxSessions
  /\ locked \in BOOLEAN /\ stale \in BOOLEAN
  /\ saying \in Labels \union {NoLabel} /\ label \in Labels /\ file \in Labels
  /\ queue \in Seq(1..MaxSessions) /\ Len(queue) <= QueueMax
  /\ last \in 0..MaxSessions
  /\ enc \in {"label", "rewrite", "spawn", "get", "keep", "freeze", "tick",
              "backoff"}
  /\ took \in Labels \union {NoLabel} /\ hand \in 0..MaxSessions
  /\ ff \in BOOLEAN /\ shown \in 0..MaxSessions /\ newest \in 0..MaxSessions
  /\ faults \in 0..MaxFaults

\* Through freezes, drops, retunes and respawns the picture never goes back to
\* an earlier session.
NeverRewinds == shown \in {0, newest}

\* The label the session calls for.
Wanted == IF scan = "off" THEN 0 ELSE IF locked THEN 2 * session ELSE 2 * session - 1

\* Unless a respawn has overtaken a change of the label, the stream shows the
\* label of what is on the air, across respawns.
LabelFollows ==
  saying = NoLabel /\ ~stale /\ enc \in {"spawn", "get", "keep", "freeze", "tick"}
    => file = Wanted

\* Whatever idle() does to a writer at work, and however ffmpeg dies, the stream
\* is written to again.
EncoderSettles == []<>(ff /\ enc = "tick")
=============================================================================
