------------------------- MODULE ViewEngines_proofs -------------------------
(***************************************************************************)
(* The engines of the view, as MCViewEngines has them.                     *)
(*                                                                         *)
(* The capture source: the radio outlives its reader, and a session sees   *)
(* one block of another's at most, for every ring, chunk, stall limit and  *)
(* number of sessions.                                                     *)
(*                                                                         *)
(* The persistent encoder, E: its picture and its label, for any number of *)
(* sessions and faults and any capacity of the queue.                      *)
(*                                                                         *)
(* The subprocess engines, L: a session leaves at most one stale frame and *)
(* no error of its own making, for any number of sessions and any capacity *)
(* of the mailbox and the queue.                                           *)
(***************************************************************************)
EXTENDS MCViewEngines, TLAPS, FiniteSetTheorems, SequenceTheorems

-----------------------------------------------------------------------------
(* The capture source. *)

(***************************************************************************)
(* Where the handle is: released in the sweep, held from the moment the    *)
(* frequency is set until the stream is over, and being closed only while  *)
(* the reader is waited for.                                               *)
(***************************************************************************)
HandleHeld ==
  /\ radio \in {"none", "open", "closing"}
  /\ pc = "sweep" => radio = "none"
  /\ pc \in {"freq", "clear", "loop"} => radio = "open"
  /\ pc = "join" <=> radio = "closing"

ReaderInside == reader # "off" => radio # "none"

RadioInv == HandleHeld /\ ReaderInside /\ after \in {"sweep", "tune"}

\* The initial states satisfy the invariant.
LEMMA RadioInit == Init => RadioInv
  BY DEF Init, RadioInv, HandleHeld, ReaderInside

\* Steps of the scan thread that leave the source and the reader alone.
LEMMA StreamKeeps ==
  ASSUME RadioInv,
         \/ StartView \/ SetFrequency \/ Clear \/ ReadChunk \/ ReadTimesOut
         \/ Recover \/ Stalled \/ StreamEnds \/ Retune \/ Leave \/ TuneFails
  PROVE  RadioInv'
<1> USE DEF RadioInv, HandleHeld, ReaderInside, scan, source, capture
<1>1. CASE StartView BY <1>1 DEF StartView, Begin
<1>2. CASE SetFrequency BY <1>2 DEF SetFrequency
<1>3. CASE Clear BY <1>3 DEF Clear
<1>4. CASE ReadChunk BY <1>4 DEF ReadChunk
<1>5. CASE ReadTimesOut BY <1>5 DEF ReadTimesOut
<1>6. CASE Recover BY <1>6 DEF Recover, Silence
<1>7. CASE Stalled BY <1>7 DEF Stalled, Silence
<1>8. CASE StreamEnds BY <1>8 DEF StreamEnds
<1>9. CASE Retune BY <1>9 DEF Retune, Begin
<1>10. CASE Leave BY <1>10 DEF Leave
<1>11. CASE TuneFails BY <1>11 DEF TuneFails
<1> QED BY <1>1, <1>2, <1>3, <1>4, <1>5, <1>6, <1>7, <1>8, <1>9, <1>10, <1>11

\* Steps that open or close the source: the reader starts with the handle and
\* is gone before the handle is.
LEMMA CloseKeeps ==
  ASSUME RadioInv, Open \/ Close \/ Join
  PROVE  RadioInv'
<1> USE DEF RadioInv, HandleHeld, ReaderInside, scan, source, capture
<1>1. CASE Open BY <1>1 DEF Open
<1>2. CASE Close BY <1>2 DEF Close
<1>3. CASE Join BY <1>3 DEF Join
<1> QED BY <1>1, <1>2, <1>3

\* The reader's own steps do not touch the handle, nor does the device.
LEMMA ReaderKeeps ==
  ASSUME RadioInv, ReaderStep \/ Flip
  PROVE  RadioInv'
<1> USE DEF RadioInv, HandleHeld, ReaderInside, scan, source, capture
<1>1. CASE CheckStop BY <1>1 DEF CheckStop
<1>2. CASE PullReturns BY <1>2 DEF PullReturns
<1>3. CASE PullFails BY <1>3 DEF PullFails
<1>4. CASE WriteBlock BY <1>4 DEF WriteBlock
<1>5. CASE Flip BY <1>5 DEF Flip
<1> QED BY <1>1, <1>2, <1>3, <1>4, <1>5 DEF ReaderStep

\* Every step satisfies the invariant.
LEMMA RadioStep == RadioInv /\ [Next]_vars => RadioInv'
<1> SUFFICES ASSUME RadioInv, [Next]_vars PROVE RadioInv'
  OBVIOUS
<1>1. CASE UNCHANGED vars
  BY <1>1 DEF vars, scan, source, capture, RadioInv, HandleHeld, ReaderInside
<1>2. CASE Next
  BY <1>2, StreamKeeps, CloseKeeps, ReaderKeeps DEF Next, Serve
<1> QED BY <1>1, <1>2

\* close() joins the reader before it releases the handle (bladerf_source.py
\* close), so no pull is left without its radio, and the sweep that follows a
\* view finds the device free, whatever failed, stalled or was retuned.
THEOREM ReaderNeverOrphaned == Spec => []RadioOutlivesReader
<1>1. RadioInv => RadioOutlivesReader
  BY DEF RadioInv, HandleHeld, ReaderInside, RadioOutlivesReader
<1> QED BY <1>1, RadioInit, RadioStep, PTL DEF Spec

-----------------------------------------------------------------------------
(***************************************************************************)
(* Types, and the blocks of other sessions.                                *)
(***************************************************************************)
RingTypes ==
  /\ TypeOK
  /\ pc # "sweep" => session # 0
  /\ reader = "write" => block # 0

\* The block in the reader's hands is of another session.  A pull that began with
\* the module off takes what the session has tuned to.
OldInHand == reader \in {"read", "write"} /\ block \notin {0, session}

\* In the loop the radio is on the session's frequency, so one such block at most
\* is anywhere between the pull and the demodulator.
ForeignInv ==
  /\ foreign <= 1
  /\ pc \in {"clear", "loop"} => freq = session
  /\ pc = "loop" =>
       /\ OldInHand => foreign = 0 /\ \A m \in DOMAIN ring : ring[m] = session
       /\ \A m, n \in DOMAIN ring :
            ring[m] # session /\ ring[n] # session => m = n /\ foreign = 0

RingInv == RingTypes /\ ForeignInv

\* The ring after write(), full or not: its blocks, of which the oldest may have
\* gone, and the new one at its end.
RingAfter(q, b) == Append(IF Len(q) = RingBlocks THEN Tail(q) ELSE q, b)

LEMMA Written ==
  ASSUME NEW S, NEW q \in Seq(S), Len(q) <= RingBlocks, NEW b \in S
  PROVE  LET r == RingAfter(q, b) IN
         /\ r \in Seq(S) /\ Len(r) <= RingBlocks
         /\ \E d \in {0, 1} : \A m \in DOMAIN r :
              \/ m + d \in DOMAIN q /\ r[m] = q[m + d]
              \/ m = Len(r) /\ r[m] = b
<1> DEFINE r == RingAfter(q, b)
<1>0. r = Append(IF Len(q) = RingBlocks THEN Tail(q) ELSE q, b)
  BY DEF RingAfter
<1> HIDE DEF r
<1>1. CASE Len(q) = RingBlocks
  <2>1. q # <<>> /\ Len(q) \in Nat \ {0}
    BY <1>1, EmptySeq, CaptureBounds
  <2>2. /\ Tail(q) \in Seq(S) /\ Len(Tail(q)) = Len(q) - 1
        /\ \A m \in 1..Len(Tail(q)) : Tail(q)[m] = q[m + 1]
    BY <2>1, HeadTailProperties
  <2>3. /\ r \in Seq(S) /\ Len(r) = Len(q)
        /\ \A m \in 1..Len(Tail(q)) : r[m] = Tail(q)[m]
        /\ r[Len(q)] = b
    BY <1>0, <1>1, <2>1, <2>2, AppendProperties
  <2>4. DOMAIN r = 1..Len(q) /\ DOMAIN q = 1..Len(q)
    BY <2>3, LenProperties
  <2>5. \A m \in DOMAIN r : \/ m + 1 \in DOMAIN q /\ r[m] = q[m + 1]
                            \/ m = Len(r) /\ r[m] = b
    <3> SUFFICES ASSUME NEW m \in 1..Len(q), m # Len(q)
                 PROVE  m + 1 \in 1..Len(q) /\ r[m] = q[m + 1]
      BY <2>3, <2>4
    <3> m \in 1..(Len(q) - 1) /\ m + 1 \in 1..Len(q)
      BY <2>1
    <3> QED BY <2>2, <2>3
  <2> QED BY <1>1, <2>3, <2>5 DEF r
<1>2. CASE Len(q) # RingBlocks
  <2>1. Len(q) \in Nat /\ Len(q) + 1 <= RingBlocks
    BY <1>2, LenProperties, CaptureBounds
  <2>2. /\ r \in Seq(S) /\ Len(r) = Len(q) + 1
        /\ \A m \in 1..Len(q) : r[m] = q[m]
        /\ r[Len(q) + 1] = b
    BY <1>0, <1>2, AppendProperties
  <2>3. DOMAIN r = 1..(Len(q) + 1) /\ DOMAIN q = 1..Len(q)
    BY <2>2, LenProperties
  <2>4. \A m \in DOMAIN r : \/ m + 0 \in DOMAIN q /\ r[m] = q[m + 0]
                            \/ m = Len(r) /\ r[m] = b
    <3> SUFFICES ASSUME NEW m \in 1..Len(r), m # Len(r)
                 PROVE  m + 0 \in 1..Len(q) /\ r[m] = q[m + 0]
      BY <2>1, <2>2, <2>3
    <3> m \in 1..Len(q) /\ m + 0 = m
      BY <2>1, <2>2
    <3> QED BY <2>2
  <2> QED BY <2>1, <2>2, <2>4 DEF r
<1> QED BY <1>1, <1>2 DEF r

\* The ring after a read of n blocks is the rest of it.
LEMMA Rest ==
  ASSUME NEW S, NEW q \in Seq(S), NEW n \in Nat, n <= Len(q)
  PROVE  LET r == SubSeq(q, n + 1, Len(q)) IN
         /\ r \in Seq(S) /\ Len(r) = Len(q) - n
         /\ \A m \in DOMAIN r : m + n \in DOMAIN q /\ r[m] = q[m + n]
<1> DEFINE r == SubSeq(q, n + 1, Len(q))
<1>1. Len(q) \in Nat /\ DOMAIN q = 1..Len(q) /\ \A m \in 1..Len(q) : q[m] \in S
  BY LenProperties, ElementOfSeq
<1>2. /\ r \in Seq(S)
      /\ Len(r) = IF n + 1 <= Len(q) THEN Len(q) - (n + 1) + 1 ELSE 0
      /\ \A m \in 1..(Len(q) - (n + 1) + 1) : r[m] = q[(n + 1) + m - 1]
  BY <1>1, SubSeqProperties
<1> HIDE DEF r
<1>b. Len(r) = Len(q) - n
  <2>1. Len(r) = IF n + 1 <= Len(q) THEN Len(q) - (n + 1) + 1 ELSE 0
    BY <1>2
  <2>2. Len(q) \in Nat
    BY <1>1
  <2> QED BY <2>1, <2>2
<1>3. Len(r) = Len(q) - n /\ DOMAIN r = 1..(Len(q) - n)
  BY <1>2, <1>b, LenProperties
<1>4. ASSUME NEW m \in DOMAIN r PROVE m + n \in DOMAIN q /\ r[m] = q[m + n]
  <2>1. m \in Int /\ m + n \in 1..Len(q) /\ (n + 1) + m - 1 = m + n
        /\ m \in 1..(Len(q) - (n + 1) + 1)
    BY <1>1, <1>3
  <2> QED BY <1>1, <1>2, <2>1
<1> QED BY <1>2, <1>3, <1>4 DEF r

-----------------------------------------------------------------------------
\* The initial states satisfy it.
LEMMA RingInit == Init => RingInv
<1> SUFFICES ASSUME Init PROVE RingInv
  OBVIOUS
<1>1. ring \in Seq(Sessions) /\ Len(ring) = 0
  BY DEF Init
<1>2. {failed, stopReader, air} \subseteq BOOLEAN
  BY DEF Init
<1>3. /\ session \in 0..MaxSessions /\ silent \in 0..(SilentReads - 1)
      /\ recoveries \in 0..StallLimit /\ freq \in 0..MaxSessions /\ block \in 0..MaxSessions
      /\ foreign = 0 /\ 0 <= RingBlocks
  BY CaptureBounds DEF Init
<1>4. /\ pc = "sweep" /\ after = "sweep" /\ radio = "none" /\ reader = "off"
  BY DEF Init
<1>5. RingTypes
  BY ONLY <1>1, <1>2, <1>3, <1>4 DEF RingTypes, TypeOK
<1>6. ForeignInv
  BY <1>3, <1>4 DEF ForeignInv
<1> QED BY <1>5, <1>6 DEF RingInv

\* Steps of the scan thread but the read.
LEMMA ScanKeepsTypes ==
  ASSUME RingInv,
         \/ StartView \/ Open \/ SetFrequency \/ Clear \/ ReadTimesOut \/ Recover
         \/ Stalled \/ StreamEnds \/ Retune \/ Leave \/ TuneFails \/ Close \/ Join
  PROVE  RingInv'
<1> USE DEF RingInv, RingTypes, TypeOK, ForeignInv, OldInHand, scan, source, capture
<1>1. CASE StartView
  <2>1. session' \in 0..MaxSessions /\ session' # 0 BY <1>1, CaptureBounds DEF StartView, Begin
  <2>2. silent' \in 0..(SilentReads - 1) /\ recoveries' \in 0..StallLimit
    BY <1>1, CaptureBounds DEF StartView, Begin
  <2> QED BY <1>1, <2>1, <2>2 DEF StartView, Begin
<1>2. CASE Open BY <1>2 DEF Open
<1>3. CASE SetFrequency BY <1>3 DEF SetFrequency
<1>4. CASE Clear BY <1>4, CaptureBounds DEF Clear
<1>5. CASE ReadTimesOut BY <1>5, CaptureBounds DEF ReadTimesOut
<1>6. CASE Recover BY <1>6, CaptureBounds DEF Recover, Silence
<1>7. CASE Stalled BY <1>7, CaptureBounds DEF Stalled, Silence
<1>8. CASE StreamEnds BY <1>8 DEF StreamEnds
<1>9. CASE Retune
  <2>1. session' \in 0..MaxSessions /\ session' # 0 BY <1>9, CaptureBounds DEF Retune, Begin
  <2>2. pc' \in {"close", "tune"} /\ after' \in {"sweep", "tune"} BY <1>9 DEF Retune
  <2>3. silent' \in 0..(SilentReads - 1) /\ recoveries' \in 0..StallLimit
    BY <1>9, CaptureBounds DEF Retune, Begin
  <2> QED BY <1>9, <2>1, <2>2, <2>3 DEF Retune, Begin
<1>10. CASE Leave BY <1>10 DEF Leave
<1>11. CASE TuneFails BY <1>11 DEF TuneFails
<1>12. CASE Close BY <1>12 DEF Close
<1>13. CASE Join BY <1>13, CaptureBounds DEF Join
<1> QED
  BY <1>1, <1>2, <1>3, <1>4, <1>5, <1>6, <1>7, <1>8, <1>9, <1>10, <1>11, <1>12, <1>13

\* The read takes the one block of another session with it, or leaves it behind.
LEMMA ReadKeepsTypes == ASSUME RingInv, ReadChunk PROVE RingInv'
<1> USE DEF ReadChunk, RingInv
<1>1. /\ ring \in Seq(Sessions) /\ ChunkBlocks \in Nat /\ ChunkBlocks <= Len(ring)
      /\ ring' = SubSeq(ring, ChunkBlocks + 1, Len(ring))
      /\ Len(ring) \in Nat /\ Len(ring) <= RingBlocks /\ DOMAIN ring = 1..Len(ring)
  BY CaptureBounds, LenProperties DEF RingTypes, TypeOK
<1>2. /\ ring' \in Seq(Sessions) /\ Len(ring') <= RingBlocks
      /\ \A m \in DOMAIN ring' : m + ChunkBlocks \in DOMAIN ring /\ ring'[m] = ring[m + ChunkBlocks]
  <2> DEFINE r == SubSeq(ring, ChunkBlocks + 1, Len(ring))
  <2>1. /\ r \in Seq(Sessions) /\ Len(r) = Len(ring) - ChunkBlocks
        /\ \A m \in DOMAIN r : m + ChunkBlocks \in DOMAIN ring /\ r[m] = ring[m + ChunkBlocks]
    BY ONLY <1>1, Rest
  <2> HIDE DEF r
  <2>2. Len(r) <= RingBlocks
    BY ONLY <1>1, <2>1, CaptureBounds
  <2> QED BY ONLY <1>1, <2>1, <2>2 DEF r
<1> DEFINE Old == {m \in 1..ChunkBlocks : ring[m] # session}
<1>3. Old \subseteq DOMAIN ring
  BY <1>1
<1>4. foreign' = foreign + Cardinality(Old) /\ foreign \in Nat /\ foreign <= 1 /\ pc = "loop"
  BY DEF RingTypes, TypeOK, ForeignInv
<1>5. \A m, n \in DOMAIN ring : ring[m] # session /\ ring[n] # session => m = n /\ foreign = 0
  BY DEF ForeignInv
<1>6. DOMAIN ring' = 1..Len(ring') /\ Len(ring') \in Nat
  BY <1>2, LenProperties
<1>a. \A m \in Old : ring[m] # session /\ m \in 1..ChunkBlocks
  OBVIOUS
<1> HIDE DEF Old
<1>7. CASE Old = {}
  <2>1. foreign' = foreign
    BY ONLY <1>4, <1>7, FS_EmptySet
  <2>2. RingTypes'
    BY <1>2, <2>1, CaptureBounds DEF RingTypes, TypeOK, scan, source, capture
  <2>3. \A m, n \in DOMAIN ring' : ring'[m] # session /\ ring'[n] # session => m = n /\ foreign = 0
    <3> SUFFICES ASSUME NEW m \in DOMAIN ring', NEW n \in DOMAIN ring',
                        ring'[m] # session, ring'[n] # session
                 PROVE  m = n /\ foreign = 0
      OBVIOUS
    <3>1. m + ChunkBlocks = n + ChunkBlocks /\ foreign = 0
      BY <1>2, <1>5
    <3>2. m \in Nat /\ n \in Nat
      BY <1>6
    <3> QED BY <1>1, <3>1, <3>2
  <2>4. ForeignInv'
    BY <1>2, <2>1, <2>3 DEF ForeignInv, OldInHand, scan, source, capture
  <2> QED BY <2>2, <2>4
<1>8. ASSUME NEW k \in Old PROVE RingInv'
  <2>1. Old = {k} /\ foreign = 0 /\ ring[k] # session
    BY <1>3, <1>5, <1>a
  <2>2. foreign' = 1
    BY ONLY <1>4, <2>1, FS_Singleton
  <2>3. \A m \in DOMAIN ring' : ring'[m] = session
    <3> SUFFICES ASSUME NEW m \in DOMAIN ring', ring'[m] # session PROVE FALSE
      OBVIOUS
    <3>1. m + ChunkBlocks = k
      BY <1>2, <1>3, <1>5, <2>1
    <3>2. m \in Nat \ {0} /\ k \in 1..ChunkBlocks
      BY <1>6, <1>a
    <3> QED BY <1>1, <3>1, <3>2
  <2>4. ~OldInHand
    BY <1>3, <1>4, <2>1 DEF ForeignInv
  <2>5. RingTypes'
    BY <1>2, <2>2, CaptureBounds DEF RingTypes, TypeOK, scan, source, capture
  <2>6. ForeignInv'
    <3>1. UNCHANGED <<pc, session, freq, reader, block>>
      BY DEF source, capture
    <3>2. freq = session
      BY <1>4 DEF ForeignInv
    <3>3. ~OldInHand'
      BY <2>4, <3>1 DEF OldInHand
    <3>4. \A m, n \in DOMAIN ring' : ~(ring'[m] # session /\ ring'[n] # session)
      BY <2>3
    <3> HIDE DEF ReadChunk
    <3> QED BY <2>2, <3>1, <3>2, <3>3, <3>4 DEF ForeignInv
  <2> QED BY <2>5, <2>6
<1> QED BY <1>7, <1>8

\* The reader: in the loop only the block it had in hand can be another session's.
LEMMA ReaderKeepsTypes == ASSUME RingInv, ReaderStep \/ Flip PROVE RingInv'
<1> USE DEF RingInv, scan, source, capture
<1>1. CASE CheckStop
  <2>1. RingTypes' BY <1>1 DEF CheckStop, RingTypes, TypeOK
  <2>2. ForeignInv' BY <1>1 DEF CheckStop, ForeignInv, OldInHand
  <2> QED BY <2>1, <2>2
<1>2. CASE PullReturns
  <2>1. RingTypes' BY <1>2 DEF PullReturns, RingTypes, TypeOK
  <2>2. ForeignInv' BY <1>2 DEF PullReturns, ForeignInv, OldInHand
  <2> QED BY <2>1, <2>2
<1>3. CASE PullFails
  <2>1. RingTypes' BY <1>3 DEF PullFails, RingTypes, TypeOK
  <2>2. ForeignInv' BY <1>3 DEF PullFails, ForeignInv, OldInHand
  <2> QED BY <2>1, <2>2
<1>4. CASE WriteBlock
  <2>1. /\ ring \in Seq(Sessions) /\ Len(ring) <= RingBlocks /\ block \in Sessions
        /\ ring' = RingAfter(ring, block)
    BY <1>4 DEF WriteBlock, RingAfter, RingTypes, TypeOK, Sessions
  <2>2. /\ ring' \in Seq(Sessions) /\ Len(ring') <= RingBlocks
        /\ \E d \in {0, 1} : \A m \in DOMAIN ring' :
             \/ m + d \in DOMAIN ring /\ ring'[m] = ring[m + d]
             \/ m = Len(ring') /\ ring'[m] = block
    <3> DEFINE r == RingAfter(ring, block)
    <3>1. /\ r \in Seq(Sessions) /\ Len(r) <= RingBlocks
          /\ \E d \in {0, 1} : \A m \in DOMAIN r :
               \/ m + d \in DOMAIN ring /\ r[m] = ring[m + d]
               \/ m = Len(r) /\ r[m] = block
      BY ONLY <2>1, Written
    <3> QED BY <2>1, <3>1
  <2>3. PICK d \in {0, 1} : \A m \in DOMAIN ring' :
             \/ m + d \in DOMAIN ring /\ ring'[m] = ring[m + d]
             \/ m = Len(ring') /\ ring'[m] = block
    BY <2>2
  <2>4. DOMAIN ring' = 1..Len(ring') /\ DOMAIN ring = 1..Len(ring)
    BY <2>1, <2>2, LenProperties
  <2>5. RingTypes'
    BY <1>4, <2>2 DEF WriteBlock, RingTypes, TypeOK
  <2>6. ASSUME pc = "loop", NEW m \in DOMAIN ring', NEW n \in DOMAIN ring',
               ring'[m] # session, ring'[n] # session
        PROVE  m = n /\ foreign = 0
    BY <1>4, <2>1, <2>3, <2>4, <2>6 DEF WriteBlock, ForeignInv, OldInHand, Sessions
  <2>7. ForeignInv'
    BY <1>4, <2>6 DEF WriteBlock, ForeignInv, OldInHand
  <2> QED BY <2>5, <2>7
<1>5. CASE Flip
  <2>1. RingTypes' BY <1>5 DEF Flip, RingTypes, TypeOK
  <2>2. ForeignInv' BY <1>5 DEF Flip, ForeignInv, OldInHand
  <2> QED BY <2>1, <2>2
<1> QED BY <1>1, <1>2, <1>3, <1>4, <1>5 DEF ReaderStep

\* Every step keeps it.
LEMMA RingStep == RingInv /\ [Next]_vars => RingInv'
<1> SUFFICES ASSUME RingInv, [Next]_vars PROVE RingInv'
  OBVIOUS
<1>1. CASE UNCHANGED vars
  BY <1>1 DEF vars, scan, source, capture, RingInv, RingTypes, TypeOK, ForeignInv, OldInHand,
              Sessions
<1>2. CASE Next
  BY <1>2, ScanKeepsTypes, ReadKeepsTypes, ReaderKeepsTypes DEF Next, Serve
<1> QED BY <1>1, <1>2

\* The ring never exceeds its capacity, and recoveries never the stall limit
\* (iqring.py, stream_demod.py run_stream_source).
THEOREM CaptureTypeCorrect == Spec => []TypeOK
<1>1. RingInv => TypeOK
  BY DEF RingInv, RingTypes
<1> QED BY <1>1, RingInit, RingStep, PTL DEF Spec

\* tune() drops what the ring holds after it has set the frequency
\* (bladerf_source.py tune), so that of the old one only the block that was being
\* pulled can reach the demodulator.
THEOREM OneBlockAtMost == Spec => []OneForeignBlock
<1>1. RingInv => OneForeignBlock
  BY DEF RingInv, ForeignInv, OneForeignBlock
<1> QED BY <1>1, RingInit, RingStep, PTL DEF Spec

-----------------------------------------------------------------------------
(* The persistent encoder, E. *)

\* Beside the types: a session is counted before it has a frame, and a label is
\* in the writer's hands only while it rewrites it.
EncoderTypes ==
  /\ E!TypeOK
  /\ eScan # "off" => eSession # 0
  /\ eEnc = "rewrite" => took \in E!Labels

\* The label stored is the one called for, and the file has it unless a thread
\* is about to write.
LabelInv ==
  /\ label = E!Wanted /\ saying \in {E!NoLabel, label}
  /\ saying = E!NoLabel /\ ~stale /\ eEnc \in {"spawn", "get", "keep", "freeze", "tick"}
       => file = label

\* Frames only get newer on their way: what is shown, the freeze frame, the frame
\* in hand, and the queue from its head to its end.  A frame in hand that has yet
\* to be kept may be newer than the freeze frame.
InHand == eEnc \in {"keep", "tick"} /\ hand # 0
OrderInv ==
  /\ shown \in {0, newest}
  /\ newest <= eSession /\ last <= eSession /\ hand <= eSession
  /\ last # 0 => newest <= last
  /\ InHand => newest <= hand
  /\ InHand /\ eEnc = "tick" /\ last # 0 => hand <= last
  /\ \A m \in DOMAIN queue :
       /\ newest <= queue[m] /\ last <= queue[m] /\ queue[m] <= eSession
       /\ InHand => hand <= queue[m]
       /\ \A n \in DOMAIN queue : m <= n => queue[m] <= queue[n]

EncoderInv == EncoderTypes /\ LabelInv /\ OrderInv

-----------------------------------------------------------------------------
\* The queue of frames after submit(): no longer than before or than it may be,
\* and of the frames before and the new one, which is at its end.
QueueAfter(q, f) == Append(IF Len(q) = QueueMax THEN Tail(q) ELSE q, f)

LEMMA Submitted ==
  ASSUME E!EncoderBounds, NEW S, NEW q \in Seq(S), Len(q) <= QueueMax, NEW f \in S
  PROVE  LET r == QueueAfter(q, f) IN
         /\ r \in Seq(S) /\ Len(r) <= QueueMax
         /\ \E d \in {0, 1} : \A m \in DOMAIN r :
              \/ m + d \in DOMAIN q /\ r[m] = q[m + d]
              \/ m = Len(r) /\ r[m] = f
<1> DEFINE r == QueueAfter(q, f)
<1>0. r = Append(IF Len(q) = QueueMax THEN Tail(q) ELSE q, f)
  BY DEF QueueAfter
<1> HIDE DEF r
<1>1. CASE Len(q) = QueueMax
  <2>1. q # <<>> /\ Len(q) \in Nat \ {0}
    BY <1>1, EmptySeq DEF E!EncoderBounds
  <2>2. /\ Tail(q) \in Seq(S) /\ Len(Tail(q)) = Len(q) - 1
        /\ \A m \in 1..Len(Tail(q)) : Tail(q)[m] = q[m + 1]
    BY <2>1, HeadTailProperties
  <2>3. /\ r \in Seq(S) /\ Len(r) = Len(q)
        /\ \A m \in 1..Len(Tail(q)) : r[m] = Tail(q)[m]
        /\ r[Len(q)] = f
    BY <1>0, <1>1, <2>1, <2>2, AppendProperties
  <2>4. DOMAIN r = 1..Len(q) /\ DOMAIN q = 1..Len(q)
    BY <2>3, LenProperties
  <2>5. \A m \in DOMAIN r : \/ m + 1 \in DOMAIN q /\ r[m] = q[m + 1]
                            \/ m = Len(r) /\ r[m] = f
    <3> SUFFICES ASSUME NEW m \in 1..Len(q), m # Len(q)
                 PROVE  m + 1 \in 1..Len(q) /\ r[m] = q[m + 1]
      BY <2>3, <2>4
    <3> m \in 1..(Len(q) - 1) /\ m + 1 \in 1..Len(q)
      BY <2>1
    <3> QED BY <2>2, <2>3
  <2> QED BY <1>1, <2>3, <2>5 DEF r
<1>2. CASE Len(q) # QueueMax
  <2>1. Len(q) \in Nat /\ Len(q) + 1 <= QueueMax
    BY <1>2, LenProperties DEF E!EncoderBounds
  <2>2. /\ r \in Seq(S) /\ Len(r) = Len(q) + 1
        /\ \A m \in 1..Len(q) : r[m] = q[m]
        /\ r[Len(q) + 1] = f
    BY <1>0, <1>2, AppendProperties
  <2>3. DOMAIN r = 1..(Len(q) + 1) /\ DOMAIN q = 1..Len(q)
    BY <2>2, LenProperties
  <2>4. \A m \in DOMAIN r : \/ m + 0 \in DOMAIN q /\ r[m] = q[m + 0]
                            \/ m = Len(r) /\ r[m] = f
    <3> SUFFICES ASSUME NEW m \in 1..Len(r), m # Len(r)
                 PROVE  m + 0 \in 1..Len(q) /\ r[m] = q[m + 0]
      BY <2>1, <2>2, <2>3
    <3> m \in 1..Len(q) /\ m + 0 = m
      BY <2>1, <2>2
    <3> QED BY <2>2
  <2> QED BY <2>1, <2>2, <2>4 DEF r
<1> QED BY <1>1, <1>2 DEF r

\* The initial states satisfy the invariant.
LEMMA EncoderInit == E!Init => EncoderInv
<1> USE EngineBounds
<1> SUFFICES ASSUME E!Init PROVE EncoderInv
  OBVIOUS
<1> USE DEF E!Init
<1>1. queue \in Seq(1..EncoderSessions) /\ Len(queue) = 0 /\ DOMAIN queue = {}
  OBVIOUS
<1>2. {locked, stale, ff} \subseteq BOOLEAN
  OBVIOUS
<1>3. {0} \subseteq 0..EncoderSessions /\ 0 \in E!Labels /\ 0 \in 0..MaxFaults /\ 0 <= QueueMax
  BY DEF E!EncoderBounds, E!Labels
<1>4. EncoderTypes
  BY <1>1, <1>2, <1>3 DEF EncoderTypes, E!TypeOK
<1>5. LabelInv
  BY DEF LabelInv, E!Wanted
<1>6. OrderInv
  BY <1>1 DEF OrderInv, InHand
<1> QED BY <1>4, <1>5, <1>6 DEF EncoderInv

\* The scan thread begins a session, labels it, ends it.
LEMMA EncoderSessionKeeps ==
  ASSUME E!EncoderBounds, EncoderInv, E!Begin \/ E!Lock \/ E!Over \/ E!WriteOsd \/ E!DropFreeze
  PROVE  EncoderInv'
<1> USE DEF EncoderInv, EncoderTypes, E!TypeOK, E!SetOsd, E!session_, E!osd, E!writer, E!ffmpeg
<1>1. CASE E!Begin
  <2>1. EncoderTypes'
    <3>1. eSession' \in 1..EncoderSessions BY <1>1 DEF E!Begin, E!EncoderBounds
    <3>2. label' \in E!Labels /\ saying' = label' BY <1>1, <3>1 DEF E!Begin, E!Labels, E!EncoderBounds
    <3>3. eSession' \in 0..EncoderSessions /\ eSession' # 0
      BY ONLY <3>1, E!EncoderBounds DEF E!EncoderBounds
    <3>4. /\ UNCHANGED <<file, stale, queue, last, eEnc, took, hand, ff, shown, newest, faults>>
          /\ locked' = FALSE /\ eScan' = "live"
      BY <1>1 DEF E!Begin
    <3> QED BY <3>2, <3>3, <3>4
  <2>2. LabelInv' BY <1>1 DEF E!Begin, LabelInv, E!Wanted, E!NoLabel, E!EncoderBounds
  <2>3. OrderInv' BY <1>1 DEF E!Begin, OrderInv, InHand, E!EncoderBounds
  <2> QED BY <2>1, <2>2, <2>3
<1>2. CASE E!Lock
  <2>1. EncoderTypes' BY <1>2 DEF E!Lock, E!Labels, E!EncoderBounds
  <2>2. LabelInv' BY <1>2 DEF E!Lock, LabelInv, E!Wanted, E!NoLabel, E!EncoderBounds
  <2>3. OrderInv' BY <1>2 DEF E!Lock, OrderInv, InHand
  <2> QED BY <2>1, <2>2, <2>3
<1>3. CASE E!Over
  <2>1. EncoderTypes' BY <1>3 DEF E!Over
  <2>2. LabelInv' BY <1>3 DEF E!Over, LabelInv, E!Wanted
  <2>3. OrderInv' BY <1>3 DEF E!Over, OrderInv, InHand
  <2> QED BY <2>1, <2>2, <2>3
<1>4. CASE E!WriteOsd
  <2>1. EncoderTypes' BY <1>4 DEF E!WriteOsd
  <2>2. LabelInv' BY <1>4 DEF E!WriteOsd, LabelInv, E!Wanted
  <2>3. OrderInv' BY <1>4 DEF E!WriteOsd, OrderInv, InHand
  <2> QED BY <2>1, <2>2, <2>3
<1>5. CASE E!DropFreeze
  <2>1. EncoderTypes' BY <1>5 DEF E!DropFreeze, E!EncoderBounds
  <2>2. LabelInv' BY <1>5 DEF E!DropFreeze, LabelInv, E!Wanted
  <2>3. OrderInv' BY <1>5 DEF E!DropFreeze, OrderInv, InHand, E!EncoderBounds
  <2> QED BY <2>1, <2>2, <2>3
<1> QED BY <1>1, <1>2, <1>3, <1>4, <1>5

\* It changes the queue.
LEMMA QueueKeeps ==
  ASSUME E!EncoderBounds, EncoderInv, E!Submit \/ E!ClearQueue
  PROVE  EncoderInv'
<1> USE DEF EncoderInv, E!session_, E!osd, E!writer, E!ffmpeg
<1>1. CASE E!Submit
  <2>1. eSession \in 1..EncoderSessions
    BY <1>1 DEF E!Submit, EncoderTypes, E!TypeOK, E!EncoderBounds
  <2>2. /\ queue' \in Seq(1..EncoderSessions) /\ Len(queue') <= QueueMax
        /\ \E d \in {0, 1} : \A m \in DOMAIN queue' :
             \/ m + d \in DOMAIN queue /\ queue'[m] = queue[m + d]
             \/ m = Len(queue') /\ queue'[m] = eSession
    <3>1. /\ queue \in Seq(1..EncoderSessions) /\ Len(queue) <= QueueMax
          /\ queue' = QueueAfter(queue, eSession)
      BY <1>1 DEF E!Submit, QueueAfter, EncoderTypes, E!TypeOK
    <3> HIDE DEF EncoderInv
    <3> DEFINE r == QueueAfter(queue, eSession)
    <3>2. /\ r \in Seq(1..EncoderSessions) /\ Len(r) <= QueueMax
          /\ \E d \in {0, 1} : \A m \in DOMAIN r :
               \/ m + d \in DOMAIN queue /\ r[m] = queue[m + d]
               \/ m = Len(r) /\ r[m] = eSession
      BY ONLY E!EncoderBounds, <2>1, <3>1, Submitted
    <3> QED BY <3>1, <3>2
  <2>3. DOMAIN queue' = 1..Len(queue') /\ DOMAIN queue = 1..Len(queue)
    BY <2>2, LenProperties DEF EncoderTypes, E!TypeOK
  <2>4. EncoderTypes' BY <1>1, <2>2 DEF E!Submit, EncoderTypes, E!TypeOK
  <2>5. LabelInv' BY <1>1 DEF E!Submit, LabelInv, E!Wanted
  <2>6. PICK d \in {0, 1} : \A m \in DOMAIN queue' :
             \/ m + d \in DOMAIN queue /\ queue'[m] = queue[m + d]
             \/ m = Len(queue') /\ queue'[m] = eSession
    BY <2>2
  <2>7. ASSUME NEW m \in DOMAIN queue'
        PROVE  /\ newest <= queue'[m] /\ last <= queue'[m] /\ queue'[m] <= eSession
               /\ InHand => hand <= queue'[m]
    BY <2>1, <2>6, <2>7 DEF OrderInv, EncoderTypes, E!TypeOK
  <2>8. ASSUME NEW m \in DOMAIN queue', NEW n \in DOMAIN queue', m <= n
        PROVE  queue'[m] <= queue'[n]
    BY <2>1, <2>3, <2>6, <2>7, <2>8 DEF OrderInv
  <2>9. OrderInv'
    BY <1>1, <2>7, <2>8 DEF E!Submit, OrderInv, InHand
  <2> QED BY <2>4, <2>5, <2>9
<1>2. CASE E!ClearQueue
  <2>1. queue' \in Seq(1..EncoderSessions) /\ Len(queue') = 0 /\ DOMAIN queue' = {}
    BY <1>2 DEF E!ClearQueue
  <2>2. EncoderTypes'
    <3>1. 0 \in E!Labels /\ 0 <= QueueMax BY DEF E!Labels, E!EncoderBounds
    <3> QED BY <1>2, <2>1, <3>1 DEF E!ClearQueue, EncoderTypes, E!TypeOK, E!SetOsd
  <2>3. LabelInv'
    BY <1>2 DEF E!ClearQueue, LabelInv, E!Wanted, E!SetOsd, E!NoLabel, E!EncoderBounds
  <2>4. OrderInv' BY <1>2, <2>1 DEF E!ClearQueue, OrderInv, InHand
  <2> QED BY <2>2, <2>3, <2>4
<1> QED BY <1>1, <1>2

\* The supervisor, and ffmpeg's death.
LEMMA SupervisorKeeps ==
  ASSUME E!EncoderBounds, EncoderInv, E!ReadLabel \/ E!Rewrite \/ E!Spawn \/ E!Respawn \/ E!FfmpegDies
  PROVE  EncoderInv'
<1> USE DEF EncoderInv, EncoderTypes, E!TypeOK, E!session_, E!osd, E!writer, E!ffmpeg
<1>1. CASE E!ReadLabel
  BY <1>1 DEF E!ReadLabel, LabelInv, OrderInv, E!Wanted, InHand
<1>2. CASE E!Rewrite
  BY <1>2 DEF E!Rewrite, LabelInv, OrderInv, E!Wanted, InHand
<1>3. CASE E!Spawn
  <2>1. EncoderTypes'
    <3>1. faults' \in 0..MaxFaults BY <1>3 DEF E!Spawn, E!EncoderBounds
    <3>2. ff' \in BOOLEAN /\ eEnc' \in {"get", "backoff"} BY <1>3 DEF E!Spawn
    <3> QED BY <1>3, <3>1, <3>2 DEF E!Spawn
  <2>2. LabelInv' BY <1>3 DEF E!Spawn, LabelInv, E!Wanted
  <2>3. OrderInv' BY <1>3 DEF E!Spawn, OrderInv, InHand
  <2> QED BY <2>1, <2>2, <2>3
<1>4. CASE E!Respawn
  BY <1>4 DEF E!Respawn, LabelInv, OrderInv, E!Wanted, InHand
<1>5. CASE E!FfmpegDies
  <2>1. EncoderTypes'
    <3>1. faults' \in 0..MaxFaults BY <1>5 DEF E!FfmpegDies, E!EncoderBounds
    <3> QED BY <1>5, <3>1 DEF E!FfmpegDies
  <2>2. LabelInv' BY <1>5 DEF E!FfmpegDies, LabelInv, E!Wanted
  <2>3. OrderInv' BY <1>5 DEF E!FfmpegDies, OrderInv, InHand
  <2> QED BY <2>1, <2>2, <2>3
<1> QED BY <1>1, <1>2, <1>3, <1>4, <1>5

\* The writer: what it takes is the oldest frame of the queue.
LEMMA WriterKeeps ==
  ASSUME E!EncoderBounds, EncoderInv, E!Get \/ E!Keep \/ E!GetTimesOut \/ E!Freeze \/ E!Tick
  PROVE  EncoderInv'
<1> USE DEF EncoderInv, E!session_, E!osd, E!writer, E!ffmpeg
<1>1. CASE E!Get
  <2>1. queue \in Seq(1..EncoderSessions) /\ queue # <<>>
    BY <1>1 DEF E!Get, EncoderTypes, E!TypeOK
  <2>2. /\ Len(queue) \in Nat \ {0} /\ Head(queue) = queue[1]
        /\ queue' \in Seq(1..EncoderSessions) /\ Len(queue') = Len(queue) - 1
        /\ \A m \in 1..Len(queue') : queue'[m] = queue[m + 1]
    BY <1>1, <2>1, HeadTailProperties, EmptySeq DEF E!Get
  <2>3. DOMAIN queue = 1..Len(queue) /\ DOMAIN queue' = 1..Len(queue')
    BY <2>1, <2>2, LenProperties
  <2>4. hand' = queue[1] /\ queue[1] \in 1..EncoderSessions /\ 1 \in DOMAIN queue
    <3>1. 1 \in 1..Len(queue) BY <2>2
    <3> HIDE DEF EncoderInv
    <3>2. queue[1] \in 1..EncoderSessions BY <2>1, <3>1, ElementOfSeq
    <3> QED BY <1>1, <2>2, <2>3, <3>1, <3>2 DEF E!Get
  <2>5. EncoderTypes' BY <1>1, <2>2, <2>4 DEF E!Get, EncoderTypes, E!TypeOK, E!EncoderBounds
  <2>6. LabelInv' BY <1>1 DEF E!Get, LabelInv, E!Wanted
  <2>7. \A m \in DOMAIN queue' : m + 1 \in DOMAIN queue /\ queue'[m] = queue[m + 1]
    BY <2>2, <2>3
  <2>8. OrderInv'
    <3>1. \A m \in DOMAIN queue' :
            /\ newest <= queue'[m] /\ last <= queue'[m] /\ queue'[m] <= eSession
            /\ hand' <= queue'[m]
            /\ \A n \in DOMAIN queue' : m <= n => queue'[m] <= queue'[n]
      BY <2>2, <2>3, <2>4, <2>7 DEF OrderInv
    <3> QED BY <1>1, <2>4, <3>1 DEF E!Get, OrderInv, InHand
  <2> QED BY <2>5, <2>6, <2>8
<1>2. CASE E!Keep
  <2>1. EncoderTypes' BY <1>2 DEF E!Keep, EncoderTypes, E!TypeOK
  <2>2. LabelInv' BY <1>2 DEF E!Keep, LabelInv, E!Wanted
  <2>3. \A m \in DOMAIN queue : queue[m] \in 1..EncoderSessions
    BY LenProperties, ElementOfSeq DEF EncoderTypes, E!TypeOK
  <2>4. OrderInv' BY <1>2, <2>3 DEF E!Keep, OrderInv, InHand, EncoderTypes, E!TypeOK
  <2> QED BY <2>1, <2>2, <2>4
<1>3. CASE E!GetTimesOut
  <2>1. EncoderTypes' BY <1>3 DEF E!GetTimesOut, E!GiveUp, EncoderTypes, E!TypeOK, E!EncoderBounds
  <2>2. LabelInv' BY <1>3 DEF E!GetTimesOut, E!GiveUp, LabelInv, E!Wanted
  <2>3. OrderInv' BY <1>3 DEF E!GetTimesOut, E!GiveUp, OrderInv, InHand, EncoderTypes, E!TypeOK
  <2> QED BY <2>1, <2>2, <2>3
<1>4. CASE E!Freeze
  <2>1. EncoderTypes' BY <1>4 DEF E!Freeze, E!GiveUp, EncoderTypes, E!TypeOK
  <2>2. LabelInv' BY <1>4 DEF E!Freeze, E!GiveUp, LabelInv, E!Wanted
  <2>3. OrderInv' BY <1>4 DEF E!Freeze, E!GiveUp, OrderInv, InHand, EncoderTypes, E!TypeOK
  <2> QED BY <2>1, <2>2, <2>3
<1>5. CASE E!Tick
  <2>1. newest' \in {newest, hand}
    BY <1>5 DEF E!Tick, E!MaxOf
  <2>2. EncoderTypes' BY <1>5, <2>1 DEF E!Tick, E!GiveUp, EncoderTypes, E!TypeOK
  <2>3. LabelInv' BY <1>5 DEF E!Tick, E!GiveUp, LabelInv, E!Wanted
  <2>4. OrderInv' BY <1>5 DEF E!Tick, E!GiveUp, E!MaxOf, OrderInv, InHand, EncoderTypes, E!TypeOK
  <2> QED BY <2>2, <2>3, <2>4
<1> QED BY <1>1, <1>2, <1>3, <1>4, <1>5

\* Every step satisfies the invariant.
LEMMA EncoderStep == EncoderInv /\ [E!Next]_(E!vars) => EncoderInv'
<1> USE EngineBounds
<1> SUFFICES ASSUME EncoderInv, [E!Next]_(E!vars) PROVE EncoderInv'
  OBVIOUS
<1>1. CASE UNCHANGED E!vars
  BY <1>1 DEF E!vars, E!session_, E!osd, E!writer, E!ffmpeg, EncoderInv, EncoderTypes, E!TypeOK, LabelInv,
              E!Wanted, OrderInv, InHand
<1>2. CASE E!Next
  BY <1>2, EncoderSessionKeeps, QueueKeeps, SupervisorKeeps, WriterKeeps
  DEF E!Next, E!SessionStep, E!CallStep, E!WriterStep
<1> QED BY <1>1, <1>2

-----------------------------------------------------------------------------
\* The queue never exceeds its capacity, and no thread stores anything but a frame
\* of a session or black (view_encoder.py, FrameQueue of stream_demod.py).
THEOREM EncoderTypeCorrect == E!Spec => []E!TypeOK
<1>1. EncoderInv => E!TypeOK
  BY DEF EncoderInv, EncoderTypes
<1> QED BY <1>1, EncoderInit, EncoderStep, PTL DEF E!Spec

\* idle(), the freeze frame and the queue are each changed by two threads without a
\* common lock (view_encoder.py); still no interleaving brings back the picture of
\* an earlier session.
THEOREM PictureNeverRewinds == E!Spec => []NeverRewinds
<1>1. EncoderInv => NeverRewinds
  BY DEF EncoderInv, OrderInv, NeverRewinds, E!NeverRewinds
<1> QED BY <1>1, EncoderInit, EncoderStep, PTL DEF E!Spec

\* The supervisor writes the label again before each spawn (view_encoder.py
\* _supervise, set_osd): whatever ffmpeg dies of, the stream has its session's label.
THEOREM LabelIsKept == E!Spec => []LabelFollows
<1>1. EncoderInv => LabelFollows
  BY DEF EncoderInv, LabelInv, LabelFollows, E!LabelFollows
<1> QED BY <1>1, EncoderInit, EncoderStep, PTL DEF E!Spec

-----------------------------------------------------------------------------
(* The subprocess engines, L. *)

Places == {"idle", "spawn", "loop", "take", "kill", "close", "join", "check", "encKill"}
States == {"none", "run", "dead"}

LegacyTypes ==
  /\ persistent \in BOOLEAN /\ stop \in BOOLEAN /\ error \in BOOLEAN /\ fault \in BOOLEAN
  /\ call \in 0..MaxCalls /\ lPc \in Places
  /\ lPc # "idle" => call \in L!Calls
  /\ cap \in [L!Calls -> States] /\ enc \in [L!Calls -> States]
  /\ lReader \in [L!Calls -> {"off", "check", "read"}]
  /\ writer \in [L!Calls -> {"off", "check", "get", "write"}]
  /\ err \in [L!Calls -> BOOLEAN]
  /\ halted \subseteq 0..call
  /\ late \in [L!Calls -> Nat]

\* The ffmpeg of a session runs only within it, the persistent engine has none, and a session that is yet to
\* come has no subprocess and no error.
ProcsInv ==
  \A s \in L!Calls :
    /\ enc[s] = "run" => s = call /\ lPc \notin {"idle", "spawn"}
    /\ persistent => enc[s] = "none"
    /\ s > call => cap[s] = "none" /\ enc[s] = "none" /\ ~err[s]

\* The stop event outlives the session it was set in.  The one frame it may still
\* write leaves the writer at its check, where it finds the event; later there is
\* no ffmpeg to write to.
LateInv ==
  /\ lPc # "idle" /\ call \in halted => stop
  /\ \A s \in L!Calls :
       /\ late[s] <= 1
       /\ s \notin halted => late[s] = 0
       /\ late[s] = 1 /\ enc[s] = "run" => writer[s] \in {"off", "check"}

\* What may turn into an error of the session has a subprocess behind it that
\* failed by itself.
FaultInv ==
  /\ error => fault
  /\ lPc # "idle" => (enc[call] = "dead" \/ err[call] => fault)
  /\ lPc \in {"spawn", "loop", "take", "kill"} => (cap[call] = "dead" => fault)

LegacyInv == LegacyTypes /\ ProcsInv /\ LateInv /\ FaultInv

\* The initial states satisfy the invariant.
LEMMA LegacyInit == L!Init => LegacyInv
<1> USE EngineBounds
<1> SUFFICES ASSUME L!Init PROVE LegacyInv
  OBVIOUS
<1> USE DEF L!Init, L!Each
<1>1. cap \in [L!Calls -> States] /\ enc \in [L!Calls -> States] BY DEF States
<1>2. lReader \in [L!Calls -> {"off", "check", "read"}] OBVIOUS
<1>3. writer \in [L!Calls -> {"off", "check", "get", "write"}] OBVIOUS
<1>4. err \in [L!Calls -> BOOLEAN] /\ late \in [L!Calls -> Nat] OBVIOUS
<1>5. call \in 0..MaxCalls BY DEF L!LegacyBounds
<1>6. halted \subseteq 0..call OBVIOUS
<1>7. lPc = "idle" /\ {stop, error, fault, persistent} \subseteq BOOLEAN OBVIOUS
<1>8. LegacyTypes BY ONLY <1>1, <1>2, <1>3, <1>4, <1>5, <1>6, <1>7 DEF LegacyTypes, Places
<1>9. ProcsInv BY DEF ProcsInv
<1>10. LateInv BY DEF LateInv
<1>11. FaultInv BY DEF FaultInv
<1> QED BY <1>8, <1>9, <1>10, <1>11 DEF LegacyInv

\* The view controller's steps: the event, a session, the end of the view.
LEMMA ControllerKeeps ==
  ASSUME L!LegacyBounds, LegacyInv, L!SetStop \/ L!BeginCall \/ L!ClearStop
  PROVE  LegacyInv'
<1> USE DEF LegacyInv, Places, States, L!main, L!procs, L!histories
<1>1. CASE L!SetStop
  BY <1>1 DEF L!SetStop, LegacyTypes, ProcsInv, LateInv, FaultInv
<1>2. CASE L!BeginCall
  <2>1. call' \in L!Calls /\ call' \in 0..MaxCalls /\ 0..call \subseteq 0..call'
    BY <1>2 DEF L!BeginCall, LegacyTypes, L!LegacyBounds, L!Calls
  <2>2. LegacyTypes' BY <1>2, <2>1 DEF L!BeginCall, LegacyTypes
  <2>3. ProcsInv' BY <1>2 DEF L!BeginCall, LegacyTypes, ProcsInv, L!LegacyBounds, L!Calls
  <2>4. LateInv' BY <1>2 DEF L!BeginCall, LegacyTypes, LateInv, L!LegacyBounds, L!Calls
  <2>5. FaultInv' BY <1>2, <2>1 DEF L!BeginCall, LegacyTypes, ProcsInv, FaultInv, L!Calls
  <2> QED BY <2>2, <2>3, <2>4, <2>5
<1>3. CASE L!ClearStop
  BY <1>3 DEF L!ClearStop, LegacyTypes, ProcsInv, LateInv, FaultInv
<1> QED BY <1>1, <1>2, <1>3

\* The loop, until it is over.
LEMMA LoopKeeps ==
  ASSUME L!LegacyBounds, LegacyInv,
         \/ L!Spawn \/ L!SpawnFails \/ L!LoopEnds \/ L!LoopGoesOn
         \/ L!NoChunk \/ L!Demodulate \/ L!EncSpawnFails
  PROVE  LegacyInv'
<1> USE DEF LegacyInv, Places, States, L!main, L!procs, L!histories
<1>1. CASE L!Spawn
  BY <1>1 DEF L!Spawn, LegacyTypes, ProcsInv, LateInv, FaultInv
<1>2. CASE L!SpawnFails
  BY <1>2 DEF L!SpawnFails, LegacyTypes, ProcsInv, LateInv, FaultInv
<1>3. CASE L!LoopEnds
  BY <1>3 DEF L!LoopEnds, LegacyTypes, ProcsInv, LateInv, FaultInv
<1>4. CASE L!LoopGoesOn
  BY <1>4 DEF L!LoopGoesOn, LegacyTypes, ProcsInv, LateInv, FaultInv
<1>5. CASE L!NoChunk
  BY <1>5 DEF L!NoChunk, LegacyTypes, ProcsInv, LateInv, FaultInv
<1>6. CASE L!Demodulate
  <2>1. LegacyTypes' BY <1>6 DEF L!Demodulate, L!TakesChunk, LegacyTypes
  <2>2. ProcsInv' BY <1>6 DEF L!Demodulate, L!TakesChunk, LegacyTypes, ProcsInv
  <2>3. LateInv' BY <1>6 DEF L!Demodulate, L!TakesChunk, LegacyTypes, LateInv
  <2>4. FaultInv' BY <1>6 DEF L!Demodulate, L!TakesChunk, LegacyTypes, FaultInv
  <2> QED BY <2>1, <2>2, <2>3, <2>4
<1>7. CASE L!EncSpawnFails
  BY <1>7 DEF L!EncSpawnFails, L!TakesChunk, LegacyTypes, ProcsInv, LateInv, FaultInv
<1> QED BY <1>1, <1>2, <1>3, <1>4, <1>5, <1>6, <1>7

\* The teardown.  It kills both subprocesses itself, but ffmpeg only where its
\* death no longer counts.
LEMMA TeardownKeeps ==
  ASSUME L!LegacyBounds, LegacyInv,
         L!KillCapture \/ L!CloseQueue \/ L!JoinWriter \/ L!CheckWriter \/ L!KillEncoder
  PROVE  LegacyInv'
<1> USE DEF LegacyInv, Places, States, L!main, L!procs, L!histories
<1>1. CASE L!KillCapture
  BY <1>1 DEF L!KillCapture, LegacyTypes, ProcsInv, LateInv, FaultInv
<1>2. CASE L!CloseQueue
  BY <1>2 DEF L!CloseQueue, LegacyTypes, ProcsInv, LateInv, FaultInv
<1>3. CASE L!JoinWriter
  BY <1>3 DEF L!JoinWriter, LegacyTypes, ProcsInv, LateInv, FaultInv
<1>4. CASE L!CheckWriter
  BY <1>4 DEF L!CheckWriter, LegacyTypes, ProcsInv, LateInv, FaultInv
<1>5. CASE L!KillEncoder
  BY <1>5 DEF L!KillEncoder, LegacyTypes, ProcsInv, LateInv, FaultInv
<1> QED BY <1>1, <1>2, <1>3, <1>4, <1>5

\* The two threads of a session, which may be any session up to this one.
LEMMA ThreadsKeep ==
  ASSUME L!LegacyBounds, LegacyInv, NEW s \in L!Calls,
         L!ReaderGoes(s) \/ L!ReaderReads(s) \/ L!WriterGoes(s) \/ L!WriterWrites(s)
  PROVE  LegacyInv'
<1> USE DEF LegacyInv, Places, States, L!main, L!procs, L!histories
<1>1. CASE L!ReaderGoes(s)
  <2> USE <1>1 DEF L!ReaderGoes, L!ReaderChecks, L!ReaderSeesEof
  <2>1. LegacyTypes' BY DEF LegacyTypes
  <2>2. ProcsInv' BY DEF ProcsInv
  <2>3. LateInv' BY DEF LateInv
  <2>4. FaultInv' BY DEF FaultInv
  <2> QED BY <2>1, <2>2, <2>3, <2>4
<1>2. CASE L!ReaderReads(s)
  BY <1>2 DEF L!ReaderReads, LegacyTypes, ProcsInv, LateInv, FaultInv
<1>3. CASE L!WriterChecks(s)
  <2>1. LegacyTypes' BY <1>3 DEF L!WriterChecks, LegacyTypes
  <2>2. ProcsInv' BY <1>3 DEF L!WriterChecks, ProcsInv
  <2>3. LateInv' BY <1>3 DEF L!WriterChecks, LegacyTypes, ProcsInv, LateInv
  <2>4. FaultInv' BY <1>3 DEF L!WriterChecks, FaultInv
  <2> QED BY <2>1, <2>2, <2>3, <2>4
<1>4. CASE L!WriterGets(s)
  BY <1>4 DEF L!WriterGets, LegacyTypes, ProcsInv, LateInv, FaultInv
<1>5. CASE L!WriterGetsNone(s)
  BY <1>5 DEF L!WriterGetsNone, LegacyTypes, ProcsInv, LateInv, FaultInv
<1>6. CASE L!WriterSeesPipe(s)
  BY <1>6 DEF L!WriterSeesPipe, LegacyTypes, ProcsInv, LateInv, FaultInv
<1>7. CASE L!WriterWrites(s)
  BY <1>7 DEF L!WriterWrites, L!histories, LegacyTypes, ProcsInv, LateInv, FaultInv
<1> QED BY <1>1, <1>2, <1>3, <1>4, <1>5, <1>6, <1>7 DEF L!WriterGoes

\* Every step satisfies the invariant.
LEMMA LegacyStep == LegacyInv /\ [L!Next]_(L!vars) => LegacyInv'
<1> USE EngineBounds
<1> SUFFICES ASSUME LegacyInv, [L!Next]_(L!vars) PROVE LegacyInv'
  OBVIOUS
<1>1. CASE UNCHANGED L!vars
  BY <1>1 DEF L!vars, L!main, L!procs, L!histories, LegacyInv, LegacyTypes, ProcsInv, LateInv, FaultInv,
              L!Calls
<1>2. CASE L!CaptureDies
  BY <1>2 DEF L!CaptureDies, L!main, LegacyInv, LegacyTypes, ProcsInv, LateInv, FaultInv, States
<1>3. CASE L!EncoderDies
  BY <1>3 DEF L!EncoderDies, L!main, LegacyInv, LegacyTypes, ProcsInv, LateInv, FaultInv, States
<1>4. CASE L!MainStep
  BY <1>4, LoopKeeps, TeardownKeeps DEF L!MainStep
<1> QED
  BY <1>1, <1>2, <1>3, <1>4, ControllerKeeps, ThreadsKeep DEF L!Next

\* The subprocesses and threads keep to their states, for every number of
\* sessions (stream_demod.py run_stream, run_stream_persistent).
THEOREM LegacyTypeCorrect == L!Spec => []LegacyTypes
<1>1. LegacyInv => LegacyTypes
  BY DEF LegacyInv
<1> QED BY <1>1, LegacyInit, LegacyStep, PTL DEF L!Spec

\* writer_loop looks at the event before every frame and FrameQueue is not
\* drained on a stop (stream_demod.py), so a session told to stop or retune lets
\* at most the one frame in the writer's hands out, although the event is cleared
\* for the next session while the writer may still run.
THEOREM NothingIsFlushed == L!Spec => []NoStaleFlush
<1>1. LegacyInv => NoStaleFlush
  BY DEF LegacyInv, LateInv, NoStaleFlush, L!NoStaleFlush
<1> QED BY <1>1, LegacyInit, LegacyStep, PTL DEF L!Spec

\* run_stream kills its subprocesses in an order in which their deaths are not
\* taken for failures: an error reported at the end is one of a subprocess.
THEOREM OwnTeardownIsNoError == L!Spec => []CleanEndIsClean
<1>1. LegacyInv => CleanEndIsClean
  BY DEF LegacyInv, FaultInv, CleanEndIsClean, L!CleanEndIsClean
<1> QED BY <1>1, LegacyInit, LegacyStep, PTL DEF L!Spec

-----------------------------------------------------------------------------
(* The three together. *)

\* A behaviour of the run is one of each component, two of which rest.
LEMMA EachRuns == MCSpec => Spec /\ E!Spec /\ L!Spec
<1>1. MCInit => Init /\ E!Init /\ L!Init
  BY DEF MCInit
<1>2. [MCNext]_all => [Next]_vars
  BY DEF MCNext, all
<1>3. [MCNext]_all => [E!Next]_(E!vars)
  BY DEF MCNext, all, encoder, E!vars, E!session_, E!osd, E!writer, E!ffmpeg
<1>4. [MCNext]_all => [L!Next]_(L!vars)
  BY DEF MCNext, all, legacy, L!vars, L!main, L!procs, L!histories
<1> QED BY <1>1, <1>2, <1>3, <1>4, PTL DEF MCSpec, Spec, E!Spec, L!Spec

\* So what is proved of an engine holds where the three run side by side, as in the
\* run (bladerf_source.py; view_encoder.py; stream_demod.py).
THEOREM EnginesAreSafe ==
  MCSpec => [](/\ RadioOutlivesReader /\ OneForeignBlock
               /\ NeverRewinds /\ LabelFollows
               /\ NoStaleFlush /\ CleanEndIsClean)
  BY EachRuns, ReaderNeverOrphaned, OneBlockAtMost, PictureNeverRewinds, LabelIsKept,
     NothingIsFlushed, OwnTeardownIsNoError, PTL
=============================================================================
