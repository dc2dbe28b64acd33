---------------------------- MODULE ViewCapture ----------------------------
(***************************************************************************)
(* The view's in-process capture: BladerfViewSource (agent/scan/           *)
(* bladerf_source.py) with its IqRing, driven by run_stream_source         *)
(* (agent/video/stream_demod.py).                                          *)
(*                                                                         *)
(* Two threads.  The scan thread tunes the source, reads chunks, recovers  *)
(* a silent device and closes the source between the view and the sweep.   *)
(* The reader thread pulls blocks from the radio into the ring; a pull     *)
(* takes time, and the radio may be retuned or told to close while it is   *)
(* under way.  Every session is on a frequency of its own, so a block is   *)
(* the number of the session whose frequency the radio was on when its     *)
(* pull began.  A retune keeps the source open; an error and the end of    *)
(* the view close it.  A Bug_ definition is a plausible mistake in the one *)
(* below it.                                                               *)
(***************************************************************************)
EXTENDS Naturals, Sequences, FiniteSets

CONSTANTS
  RingBlocks,    \* capacity of the ring
  ChunkBlocks,   \* what one read_chunk asks for
  SilentReads,   \* timed-out reads before a recovery
  StallLimit,    \* CAPTURE_STALL_LIMIT
  MaxSessions    \* bound on the requests served

ASSUME CaptureBounds ==
  /\ {RingBlocks, ChunkBlocks, SilentReads} \subseteq Nat \ {0}
  /\ ChunkBlocks <= RingBlocks
  /\ {StallLimit, MaxSessions} \subseteq Nat

VARIABLES
  pc,          \* the scan thread: "sweep", "tune", "freq", "clear", "loop",
               \* "over", "close", "join"
  after,       \* where it goes once the source is closed
  session,     \* the request it serves
  silent,      \* reads timed out in a row
  recoveries,
  failed,      \* this run_stream_source returned an error
  radio,       \* "none", "open", "closing": _radio, and its handle
  freq,        \* what the radio is tuned to; 0: module not enabled
  stopReader,  \* the reader's stop event
  reader,      \* "off", "check", "read", "write"
  block,       \* the reader's block
  ring,
  foreign,     \* history: blocks of other sessions read since the last tune
  air          \* the device delivers samples

scan == <<pc, after, session, silent, recoveries, failed>>
source == <<radio, freq, stopReader>>
capture == <<reader, block>>
vars == <<scan, source, capture, ring, foreign, air>>

Sessions == 1..MaxSessions

Init ==
  /\ pc = "sweep" /\ after = "sweep" /\ session = 0
  /\ silent = 0 /\ recoveries = 0 /\ failed = FALSE
  /\ radio = "none" /\ freq = 0 /\ stopReader = FALSE
  /\ reader = "off" /\ block = 0 /\ ring = <<>>
  /\ foreign = 0 /\ air = TRUE

-----------------------------------------------------------------------------
(* The scan thread. *)

\* run_stream_source for the next request.
Begin ==
  /\ session < MaxSessions /\ session' = session + 1
  /\ silent' = 0 /\ recoveries' = 0 /\ failed' = FALSE

StartView ==
  /\ pc = "sweep" /\ pc' = "tune"
  /\ Begin
  /\ UNCHANGED <<after, source, capture, ring, foreign, air>>

\* tune(): a closed source is opened, and its reader started ...
Open ==
  /\ pc = "tune" /\ pc' = "freq"
  /\ IF radio = "none"
     THEN radio' = "open" /\ stopReader' = FALSE /\ reader' = "check"
     ELSE UNCHANGED <<radio, stopReader, reader>>
  /\ UNCHANGED <<after, session, silent, recoveries, failed, freq, block, ring,
                 foreign, air>>

\* ... the radio is set to the frequency, and enabled if it was not ...
SetFrequency ==
  /\ pc = "freq" /\ pc' = "clear"
  /\ freq' = session
  /\ UNCHANGED <<after, session, silent, recoveries, failed, radio, stopReader,
                 capture, ring, foreign, air>>

Bug_NoClear ==
  /\ pc = "clear" /\ pc' = "loop"
  /\ foreign' = 0
  /\ UNCHANGED <<after, session, silent, recoveries, failed, source, capture,
                 ring, air>>

\* ... and what was captured before is dropped.
Clear ==
  /\ pc = "clear" /\ pc' = "loop"
  /\ ring' = <<>> /\ foreign' = 0
  /\ UNCHANGED <<after, session, silent, recoveries, failed, source, capture, air>>

\* The device cannot be opened or tuned, at first or in a recovery.
TuneFails ==
  /\ pc \in {"tune", "freq"} /\ (pc = "tune" => radio = "none")
  /\ pc' = "over" /\ failed' = TRUE
  /\ UNCHANGED <<after, session, silent, recoveries, source, capture, ring,
                 foreign, air>>

\* read_chunk() finds a chunk; its frames go to the encoder.
ReadChunk ==
  /\ pc = "loop" /\ Len(ring) >= ChunkBlocks
  /\ ring' = SubSeq(ring, ChunkBlocks + 1, Len(ring))
  /\ foreign' = foreign + Cardinality({i \in 1..ChunkBlocks : ring[i] # session})
  /\ silent' = 0
  /\ UNCHANGED <<pc, after, session, recoveries, failed, source, capture, air>>

\* read_chunk() times out.
ReadTimesOut ==
  /\ pc = "loop" /\ Len(ring) < ChunkBlocks
  /\ silent + 1 < SilentReads /\ silent' = silent + 1
  /\ UNCHANGED <<pc, after, session, recoveries, failed, source, capture, ring,
                 foreign, air>>

Silence == pc = "loop" /\ Len(ring) < ChunkBlocks /\ silent + 1 >= SilentReads

Bug_RecoveriesNotCounted ==
  /\ Silence /\ recoveries < StallLimit
  /\ pc' = "close" /\ after' = "tune"
  /\ silent' = 0
  /\ UNCHANGED <<session, recoveries, failed, source, capture, ring, foreign, air>>

\* Silent for too long: recover(), which closes the source and tunes it again,
Recover ==
  /\ Silence /\ recoveries < StallLimit
  /\ pc' = "close" /\ after' = "tune"
  /\ silent' = 0 /\ recoveries' = recoveries + 1
  /\ UNCHANGED <<session, failed, source, capture, ring, foreign, air>>

\* or, the attempts being spent, "capture stalled".
Stalled ==
  /\ Silence /\ recoveries >= StallLimit
  /\ pc' = "over" /\ failed' = TRUE
  /\ UNCHANGED <<after, session, silent, recoveries, source, capture, ring,
                 foreign, air>>

\* Stop event or deadline.
StreamEnds ==
  /\ pc = "loop" /\ pc' = "over"
  /\ UNCHANGED <<after, session, silent, recoveries, failed, source, capture,
                 ring, foreign, air>>

\* run_view has another request: it keeps the source, or resets it after an
\* error.
Retune ==
  /\ pc = "over"
  /\ Begin
  /\ IF failed THEN pc' = "close" /\ after' = "tune"
     ELSE pc' = "tune" /\ UNCHANGED after
  /\ UNCHANGED <<source, capture, ring, foreign, air>>

\* It has none: reset() gives the device back to the sweep.
Leave ==
  /\ pc = "over" /\ pc' = "close" /\ after' = "sweep"
  /\ UNCHANGED <<session, silent, recoveries, failed, source, capture, ring,
                 foreign, air>>

\* close(): nothing to do without a radio, else the reader is told to stop ...
Close ==
  /\ pc = "close"
  /\ IF radio = "none"
     THEN pc' = after /\ UNCHANGED <<radio, stopReader>>
     ELSE pc' = "join" /\ radio' = "closing" /\ stopReader' = TRUE
  /\ UNCHANGED <<after, session, silent, recoveries, failed, freq, capture, ring,
                 foreign, air>>

Bug_NoJoin ==
  /\ pc = "join" /\ pc' = after
  /\ radio' = "none" /\ freq' = 0
  /\ UNCHANGED <<after, session, silent, recoveries, failed, stopReader, capture,
                 ring, foreign, air>>

\* ... and waited for, and the handle released.  join() allows more time than a
\* pull can take, so it returns with the reader gone.
Join ==
  /\ pc = "join" /\ reader = "off" /\ pc' = after
  /\ radio' = "none" /\ freq' = 0
  /\ UNCHANGED <<after, session, silent, recoveries, failed, stopReader, capture,
                 ring, foreign, air>>

-----------------------------------------------------------------------------
(* The reader thread. *)

CheckStop ==
  /\ reader = "check"
  /\ reader' = IF stopReader THEN "off" ELSE "read"
  /\ block' = freq
  /\ UNCHANGED <<scan, source, ring, foreign, air>>

\* A pull that began before the module was enabled delivers what came after.
PullReturns ==
  /\ reader = "read" /\ air /\ freq # 0
  /\ reader' = "write"
  /\ block' = IF block = 0 THEN freq ELSE block
  /\ UNCHANGED <<scan, source, ring, foreign, air>>

PullFails ==
  /\ reader = "read" /\ reader' = "check"
  /\ UNCHANGED <<scan, source, block, ring, foreign, air>>

\* IqRing.write(): the oldest block goes when there is no room.
WriteBlock ==
  /\ reader = "write" /\ reader' = "check"
  /\ ring' = Append(IF Len(ring) = RingBlocks THEN Tail(ring) ELSE ring, block)
  /\ UNCHANGED <<scan, source, block, foreign, air>>

\* The device falls silent, or delivers again.
Flip ==
  /\ air' = ~air
  /\ UNCHANGED <<scan, source, capture, ring, foreign>>

-----------------------------------------------------------------------------
Serve ==
  \/ Open \/ SetFrequency \/ Clear \/ TuneFails
  \/ ReadChunk \/ ReadTimesOut \/ Recover \/ Stalled
  \/ Retune \/ Leave \/ Close \/ Join
ReaderStep == CheckStop \/ PullReturns \/ PullFails \/ WriteBlock

Next == StartView \/ StreamEnds \/ Serve \/ ReaderStep \/ Flip

Spec == Init /\ [][Next]_vars

\* Both threads run and every read and pull has its timeout; nothing is assumed
\* of the device, of the operator or of the session's deadline.
FairSpec == Spec /\ WF_vars(Serve) /\ WF_vars(ReaderStep)

-----------------------------------------------------------------------------
TypeOK ==
  /\ pc \in {"sweep", "tune", "freq", "clear", "loop", "over", "close", "join"}
  /\ after \in {"sweep", "tune"} /\ session \in 0..MaxSessions
  /\ silent \in 0..(SilentReads - 1) /\ recoveries \in 0..StallLimit
  /\ failed \in BOOLEAN /\ radio \in {"none", "open", "closing"}
  /\ freq \in 0..MaxSessions /\ stopReader \in BOOLEAN
  /\ reader \in {"off", "check", "read", "write"} /\ block \in 0..MaxSessions
  /\ ring \in Seq(Sessions) /\ Len(ring) <= RingBlocks
  /\ foreign \in Nat /\ air \in BOOLEAN

\* The radio is not released under the reader's pull, and the sweep finds the
\* device with neither.
RadioOutlivesReader ==
  /\ reader # "off" => radio # "none"
  /\ pc = "sweep" => radio = "none"

\* After a retune, the demodulator sees at most one block of the frequency it
\* has left: the one that was being pulled.
OneForeignBlock == foreign <= 1

\* A device that stays silent is given up, whatever the session's deadline.
SilenceEnds == <>[]~air => []<>(pc = "sweep")
=============================================================================
