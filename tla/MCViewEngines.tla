--------------------------- MODULE MCViewEngines ---------------------------
(***************************************************************************)
(* The view's engines for TLC: ViewCapture and ViewEncoder, the two halves *)
(* of the in-process engine, and LegacyStream.  They share no state, so    *)
(* each behaviour is of one of them, which its initial state chooses; the  *)
(* others rest in an initial state of theirs.                              *)
(***************************************************************************)
EXTENDS ViewCapture

CONSTANTS QueueMax, EncoderSessions, MaxFaults, MailboxDepth, FrameMax, MaxCalls

VARIABLES
  engine,   \* "capture", "encoder", "legacy"
  eScan, eSession, locked, saying, label, file, queue, last, eEnc, took, hand,
  ff, shown, newest, stale, faults,
  persistent, stop, call, lPc, error, cap, enc, lReader, writer, mailbox, frames,
  closed, err, fault, halted, late

E == INSTANCE ViewEncoder WITH
  MaxSessions <- EncoderSessions, scan <- eScan, session <- eSession, enc <- eEnc
L == INSTANCE LegacyStream WITH pc <- lPc, reader <- lReader

ASSUME EngineBounds == E!EncoderBounds /\ L!LegacyBounds

encoder == <<eScan, eSession, locked, saying, label, file, queue, last, eEnc, took,
             hand, ff, shown, newest, stale, faults>>
legacy == <<persistent, stop, call, lPc, error, cap, enc, lReader, writer, mailbox,
            frames, closed, err, fault, halted, late>>
all == <<engine, vars, encoder, legacy>>

MCInit ==
  /\ engine \in {"capture", "encoder", "legacy"}
  /\ Init /\ E!Init /\ L!Init
  /\ engine # "encoder" => file = 0
  /\ engine # "legacy" => persistent

MCNext ==
  \/ engine = "capture" /\ Next /\ UNCHANGED <<engine, encoder, legacy>>
  \/ engine = "encoder" /\ E!Next /\ UNCHANGED <<engine, vars, legacy>>
  \/ engine = "legacy" /\ L!Next /\ UNCHANGED <<engine, vars, encoder>>

\* The fairness of each component, while it is the one that runs.
MCSpec ==
  /\ MCInit /\ [][MCNext]_all
  /\ WF_vars(engine = "capture" /\ Serve) /\ WF_vars(engine = "capture" /\ ReaderStep)
  /\ WF_encoder(engine = "encoder" /\ E!CallStep)
  /\ WF_encoder(engine = "encoder" /\ E!WriterStep)
  /\ WF_legacy(engine = "legacy" /\ L!MainStep)
  /\ \A s \in L!Calls : /\ WF_legacy(engine = "legacy" /\ L!ReaderGoes(s))
                        /\ WF_legacy(engine = "legacy" /\ L!WriterGoes(s))

\* The properties of the components: the picture never goes back to an earlier
\* session,
NeverRewinds == E!NeverRewinds

\* the label on the stream is that of what is on the air,
LabelFollows == E!LabelFollows

\* a stop or retune of a legacy session lets one more frame out at most,
NoStaleFlush == L!NoStaleFlush

\* a legacy session blames itself for no error,
CleanEndIsClean == L!CleanEndIsClean

\* a capture that stays silent is given up,
SilentCaptureEnds == engine = "capture" => SilenceEnds

\* the encoder comes back for good,
EncoderSettles == engine = "encoder" => E!EncoderSettles

\* and the threads of a legacy session end.
ThreadsEnd == engine = "legacy" => L!ThreadsEnd
=============================================================================
