---------------------------- MODULE LegacyStream ----------------------------
(***************************************************************************)
(* The subprocess engines of agent/video/stream_demod.py: run_stream       *)
(* (VIEW_ENGINE=legacy) and run_stream_persistent, with their ChunkMailbox *)
(* and FrameQueue, the reader thread on hackrf_transfer and writer_loop on *)
(* ffmpeg.                                                                 *)
(*                                                                         *)
(* A session is one call.  Its threads are daemons on the stop event of    *)
(* the view controller, which is cleared for the next session while they   *)
(* may still be running: they must end by EOF, a closed queue or EPIPE.    *)
(* Everything of a session but the stop event is its own.  Chunks and      *)
(* frames are counted, not told apart.  The persistent engine has neither  *)
(* ffmpeg nor writer: its frames go to ViewEncoder.                        *)
(***************************************************************************)
EXTENDS Naturals

CONSTANTS
  MailboxDepth, \* ChunkMailbox(depth)
  FrameMax,     \* capacity of the frame queue
  MaxCalls      \* bound on the sessions

LegacyBounds == {MailboxDepth, FrameMax} \subseteq Nat \ {0} /\ MaxCalls \in Nat

VARIABLES
  persistent,  \* the engine is run_stream_persistent
  stop,        \* the stop event of the view controller
  call,        \* the session
  pc,          \* "idle", "spawn", "loop", "take", "kill", "close", "join",
               \* "check", "encKill"
  error,       \* this session has an error to report
  cap, enc,    \* hackrf_transfer and ffmpeg, by session: "none", "run", "dead"
  reader,      \* by session: "off", "check", "read"
  writer,      \* by session: "off", "check", "get", "write"
  mailbox,     \* chunks in the mailbox of this session
  frames, closed,  \* the frame queue, by session
  err,         \* by session: the writer thread found ffmpeg gone
  fault,       \* history: a subprocess of this session failed by itself
  halted,      \* history: the sessions that were told to stop
  late         \* history, by session: frames given to ffmpeg after that

main == <<call, pc, error>>
procs == <<cap, enc>>
histories == <<fault, halted, late>>
vars == <<persistent, stop, main, procs, reader, writer, mailbox, frames, closed,
          err, histories>>

Calls == 1..MaxCalls
Each(v) == [s \in Calls |-> v]
Put(n, max) == IF n = max THEN max ELSE n + 1   \* the oldest goes

Init ==
  /\ persistent \in BOOLEAN /\ stop = FALSE
  /\ call = 0 /\ pc = "idle" /\ error = FALSE
  /\ cap = Each("none") /\ enc = Each("none")
  /\ reader = Each("off") /\ writer = Each("off")
  /\ mailbox = 0 /\ frames = Each(0) /\ closed = Each(FALSE)
  /\ err = Each(FALSE)
  /\ fault = FALSE /\ halted = {} /\ late = Each(0)

-----------------------------------------------------------------------------
(* The view controller. *)

\* A stop, or the start that retunes.
SetStop ==
  /\ ~stop /\ stop' = TRUE
  /\ halted' = IF pc = "idle" THEN halted ELSE halted \union {call}
  /\ UNCHANGED <<persistent, main, procs, reader, writer, mailbox, frames, closed,
                 err, fault, late>>

\* run_view clears the event before a session ...
BeginCall ==
  /\ pc = "idle" /\ pc' = "spawn"
  /\ call < MaxCalls /\ call' = call + 1
  /\ stop' = FALSE /\ error' = FALSE /\ fault' = FALSE /\ mailbox' = 0
  /\ UNCHANGED <<persistent, procs, reader, writer, frames, closed, err, halted,
                 late>>

\* ... and when the view is over.
ClearStop ==
  /\ pc = "idle" /\ stop /\ stop' = FALSE
  /\ UNCHANGED <<persistent, main, procs, reader, writer, mailbox, frames, closed,
                 err, histories>>

-----------------------------------------------------------------------------
(* run_stream and run_stream_persistent. *)

Spawn ==
  /\ pc = "spawn" /\ pc' = "loop"
  /\ cap' = [cap EXCEPT ![call] = "run"]
  /\ reader' = [reader EXCEPT ![call] = "check"]
  /\ UNCHANGED <<persistent, stop, call, error, enc, writer, mailbox, frames,
                 closed, err, histories>>

SpawnFails ==
  /\ pc = "spawn" /\ pc' = "idle"
  /\ error' = TRUE /\ fault' = TRUE
  /\ UNCHANGED <<persistent, stop, call, procs, reader, writer, mailbox, frames,
                 closed, err, halted, late>>

\* The loop ends by the stop event, the deadline or an error of the writer.
LoopEnds ==
  /\ pc = "loop" /\ pc' = "kill"
  /\ error' = err[call]
  /\ UNCHANGED <<persistent, stop, call, procs, reader, writer, mailbox, frames,
                 closed, err, histories>>

LoopGoesOn ==
  /\ pc = "loop" /\ ~stop /\ ~err[call]
  /\ pc' = "take"
  /\ UNCHANGED <<persistent, stop, call, error, procs, reader, writer, mailbox,
                 frames, closed, err, histories>>

\* No chunk: the next turn, or the capture has died.
NoChunk ==
  /\ pc = "take" /\ mailbox = 0
  /\ IF cap[call] = "dead" THEN pc' = "kill" /\ error' = TRUE
     ELSE pc' = "loop" /\ UNCHANGED error
  /\ UNCHANGED <<persistent, stop, call, procs, reader, writer, mailbox, frames,
                 closed, err, histories>>

TakesChunk ==
  /\ pc = "take" /\ mailbox > 0
  /\ mailbox' = mailbox - 1

\* A chunk becomes frames; the first one tells the standard, and starts ffmpeg
\* and its writer.
Demodulate ==
  /\ TakesChunk /\ pc' = "loop"
  /\ IF persistent THEN UNCHANGED <<enc, writer, frames>>
     ELSE /\ frames' = [frames EXCEPT ![call] = Put(@, FrameMax)]
          /\ IF enc[call] = "none"
             THEN /\ enc' = [enc EXCEPT ![call] = "run"]
                  /\ writer' = [writer EXCEPT ![call] = "check"]
             ELSE UNCHANGED <<enc, writer>>
  /\ UNCHANGED <<persistent, stop, call, error, cap, reader, closed, err, histories>>

EncSpawnFails ==
  /\ TakesChunk /\ ~persistent /\ enc[call] = "none"
  /\ pc' = "kill" /\ error' = TRUE /\ fault' = TRUE
  /\ UNCHANGED <<persistent, stop, call, procs, reader, writer, frames, closed, err,
                 halted, late>>

\* finally: the capture is killed first ...
KillCapture ==
  /\ pc = "kill" /\ pc' = IF persistent THEN "idle" ELSE "close"
  /\ cap' = [cap EXCEPT ![call] = "dead"]
  /\ UNCHANGED <<persistent, stop, call, error, enc, reader, writer, mailbox, frames,
                 closed, err, histories>>

Bug_EncoderFirst ==
  /\ pc = "close" /\ pc' = IF enc[call] = "run" THEN "join" ELSE "check"
  /\ closed' = [closed EXCEPT ![call] = TRUE]
  /\ enc' = [enc EXCEPT ![call] = IF @ = "run" THEN "dead" ELSE @]
  /\ UNCHANGED <<persistent, stop, call, error, cap, reader, writer, mailbox, frames,
                 err, histories>>

\* ... then the queue closed, and a clean end lets the writer drain it, ...
CloseQueue ==
  /\ pc = "close"
  /\ pc' = IF enc[call] # "none" /\ ~err[call] /\ ~stop THEN "join" ELSE "check"
  /\ closed' = [closed EXCEPT ![call] = TRUE]
  /\ UNCHANGED <<persistent, stop, call, error, procs, reader, writer, mailbox,
                 frames, err, histories>>

\* ... but not for ever: an ffmpeg that does not read holds it up.
JoinWriter ==
  /\ pc = "join" /\ pc' = "check"
  /\ UNCHANGED <<persistent, stop, call, error, procs, reader, writer, mailbox,
                 frames, closed, err, histories>>

\* What the writer found counts if the session was not told to stop.
CheckWriter ==
  /\ pc = "check" /\ pc' = "encKill"
  /\ error' = (error \/ (~stop /\ err[call]))
  /\ UNCHANGED <<persistent, stop, call, procs, reader, writer, mailbox, frames,
                 closed, err, histories>>

Bug_EncoderKept ==
  /\ pc = "encKill" /\ pc' = "idle"
  /\ enc' = [enc EXCEPT ![call] = IF @ = "run" /\ error THEN "dead" ELSE @]
  /\ UNCHANGED <<persistent, stop, call, error, cap, reader, writer, mailbox, frames,
                 closed, err, histories>>

KillEncoder ==
  /\ pc = "encKill" /\ pc' = "idle"
  /\ enc' = [enc EXCEPT ![call] = IF @ = "run" THEN "dead" ELSE @]
  /\ UNCHANGED <<persistent, stop, call, error, cap, reader, writer, mailbox, frames,
                 closed, err, histories>>

-----------------------------------------------------------------------------
(* The reader of session s. *)

ReaderChecks(s) ==
  /\ reader[s] = "check"
  /\ reader' = [reader EXCEPT ![s] = IF stop THEN "off" ELSE "read"]
  /\ UNCHANGED <<persistent, stop, main, procs, writer, mailbox, frames, closed, err,
                 histories>>

ReaderReads(s) ==
  /\ reader[s] = "read" /\ cap[s] = "run"
  /\ reader' = [reader EXCEPT ![s] = "check"]
  /\ mailbox' = Put(mailbox, MailboxDepth)
  /\ UNCHANGED <<persistent, stop, main, procs, writer, frames, closed, err,
                 histories>>

ReaderSeesEof(s) ==
  /\ reader[s] = "read" /\ cap[s] = "dead"
  /\ reader' = [reader EXCEPT ![s] = "off"]
  /\ UNCHANGED <<persistent, stop, main, procs, writer, mailbox, frames, closed, err,
                 histories>>

-----------------------------------------------------------------------------
(* writer_loop of session s. *)

Bug_DrainsOnStop(s) ==
  /\ writer[s] = "check"
  /\ writer' = [writer EXCEPT ![s] = IF stop /\ frames[s] = 0 THEN "off" ELSE "get"]
  /\ UNCHANGED <<persistent, stop, main, procs, reader, mailbox, frames, closed, err,
                 histories>>

WriterChecks(s) ==
  /\ writer[s] = "check"
  /\ writer' = [writer EXCEPT ![s] = IF stop THEN "off" ELSE "get"]
  /\ UNCHANGED <<persistent, stop, main, procs, reader, mailbox, frames, closed, err,
                 histories>>

WriterGets(s) ==
  /\ writer[s] = "get" /\ frames[s] > 0
  /\ writer' = [writer EXCEPT ![s] = "write"]
  /\ frames' = [frames EXCEPT ![s] = @ - 1]
  /\ UNCHANGED <<persistent, stop, main, procs, reader, mailbox, closed, err,
                 histories>>

\* No frame: the queue is drained and closed, or ffmpeg may have exited.
WriterGetsNone(s) ==
  /\ writer[s] = "get" /\ frames[s] = 0
  /\ LET exited == ~closed[s] /\ enc[s] = "dead" IN
       /\ writer' = [writer EXCEPT ![s] = IF closed[s] \/ exited THEN "off" ELSE "check"]
       /\ err' = [err EXCEPT ![s] = @ \/ exited]
  /\ UNCHANGED <<persistent, stop, main, procs, reader, mailbox, frames, closed,
                 histories>>

WriterWrites(s) ==
  /\ writer[s] = "write" /\ enc[s] = "run"
  /\ writer' = [writer EXCEPT ![s] = "check"]
  /\ late' = [late EXCEPT ![s] = IF s \in halted THEN @ + 1 ELSE @]
  /\ UNCHANGED <<persistent, stop, main, procs, reader, mailbox, frames, closed, err,
                 fault, halted>>

WriterSeesPipe(s) ==
  /\ writer[s] = "write" /\ enc[s] = "dead"
  /\ writer' = [writer EXCEPT ![s] = "off"]
  /\ err' = [err EXCEPT ![s] = TRUE]
  /\ UNCHANGED <<persistent, stop, main, procs, reader, mailbox, frames, closed,
                 histories>>

-----------------------------------------------------------------------------
\* A subprocess of the running session dies by itself.
CaptureDies ==
  /\ pc # "idle" /\ cap[call] = "run"
  /\ cap' = [cap EXCEPT ![call] = "dead"] /\ fault' = TRUE
  /\ UNCHANGED <<persistent, stop, main, enc, reader, writer, mailbox, frames, closed,
                 err, halted, late>>

EncoderDies ==
  /\ pc # "idle" /\ enc[call] = "run"
  /\ enc' = [enc EXCEPT ![call] = "dead"] /\ fault' = TRUE
  /\ UNCHANGED <<persistent, stop, main, cap, reader, writer, mailbox, frames, closed,
                 err, halted, late>>

-----------------------------------------------------------------------------
MainStep ==
  \/ Spawn \/ SpawnFails \/ LoopEnds \/ LoopGoesOn
  \/ NoChunk \/ Demodulate \/ EncSpawnFails
  \/ KillCapture \/ CloseQueue \/ JoinWriter \/ CheckWriter \/ KillEncoder
ReaderGoes(s) == ReaderChecks(s) \/ ReaderSeesEof(s)
WriterGoes(s) == WriterChecks(s) \/ WriterGets(s) \/ WriterGetsNone(s) \/ WriterSeesPipe(s)

Next ==
  \/ SetStop \/ BeginCall \/ ClearStop \/ MainStep \/ CaptureDies \/ EncoderDies
  \/ \E s \in Calls :
       ReaderGoes(s) \/ ReaderReads(s) \/ WriterGoes(s) \/ WriterWrites(s)

Spec == Init /\ [][Next]_vars

\* The threads run.  hackrf_transfer need not deliver, nor ffmpeg read.
FairSpec ==
  /\ Spec /\ WF_vars(MainStep)
  /\ \A s \in Calls : WF_vars(ReaderGoes(s)) /\ WF_vars(WriterGoes(s))

-----------------------------------------------------------------------------
\* A retune or stop does not flush stale frames: at most the one in the writer's
\* hands is still written, whenever the event is cleared again.
NoStaleFlush == \A s \in Calls : late[s] <= 1

\* A session reports an error only if one of its subprocesses failed by itself,
\* never because of its own teardown.
CleanEndIsClean == pc = "idle" /\ error => fault

\* The threads of a session end after it, and do not pile up, although its stop
\* event may be cleared at once and ffmpeg may not be reading.
Ended(s) == s < call \/ (s = call /\ pc = "idle")
LeftOver == {s \in Calls : Ended(s) /\ (reader[s] # "off" \/ writer[s] # "off")}
ThreadsEnd == []<>(LeftOver = {})
=============================================================================
