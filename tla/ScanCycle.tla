----------------------------- MODULE ScanCycle -----------------------------
(***************************************************************************)
(* run_cycle of agent/scan/main.py with find_candidates (detector.py) and  *)
(* VideoEmitter.maybe_emit (video_emit.py): one sweep over the bands, the  *)
(* dwells on the strict candidates, the looser carriers, the hits for the  *)
(* relay and the detections that are reported.                             *)
(*                                                                         *)
(* One thread, into which the network thread reaches twice: a view or TX   *)
(* request may come to wait, and the thresholds may change, at any step.   *)
(* A spectrum gives each bin its level above the noise floor; a carrier is *)
(* known by the sum of its first and last bin, which is its centre.  What  *)
(* a dwell is classified as and whether a picture is found in it is open.  *)
(***************************************************************************)
EXTENDS Naturals, Sequences, FiniteSets, SequencesExt

CONSTANTS
  Spectra,       \* what a band may look like: functions from bins to levels
  Bands,         \* number of bands; they may cover the same frequencies
  Snrs,          \* settings of snr_threshold_db
  MinBandwidth,  \* min_bandwidth_mhz, in bins
  CarrierSnr,    \* rx5808_carrier_snr_db, below the strict one
  Budget,        \* max_dwells_per_cycle
  MaxExtra,      \* _MAX_CARRIER_DEMODS_PER_BAND
  MaxCycles      \* bound on the cycles

ASSUME CycleBounds ==
  /\ {Bands, MinBandwidth, CarrierSnr, Budget, MaxExtra, MaxCycles} \subseteq Nat
  /\ \A spec \in Spectra : IsFiniteSet(DOMAIN spec)

VARIABLES
  pc,       \* "rest", "band", "sweep", "strict", "dwell", "loose", "look", "write"
  cycle, band, i,
  snr,      \* the threshold in force
  cands,    \* the strict candidates of the band, loudest first
  loose,    \* its looser carriers, lowest first
  done,     \* centres the looser pass leaves out
  extra,
  cooling,  \* centres the emitter has tried less than cooldown_s ago
  hits,     \* centres with a picture, by band, for the relay
  dets,     \* centres detected, by band
  waiting,  \* a view or TX request waits
  overdue,  \* history: captures begun while it has
  tried     \* history: centres captured in this band

position == <<cycle, band, i>>
found == <<cands, loose>>
results == <<cooling, hits, dets>>
request == <<waiting, overdue>>
vars == <<pc, position, snr, found, done, extra, results, request, tried>>

-----------------------------------------------------------------------------
\* find_candidates: the maximal runs of bins above a threshold, wide enough.
Runs(spec, threshold, minBw) ==
  {r \in (DOMAIN spec) \X (DOMAIN spec) :
    /\ r[1] + minBw <= r[2]
    /\ \A b \in r[1]..r[2] : spec[b] > threshold
    /\ \A b \in {r[1] - 1, r[2] + 1} \intersect DOMAIN spec : spec[b] <= threshold}

Centre(r) == r[1] + r[2]
Power(spec, r) == CHOOSE p \in {spec[b] : b \in r[1]..r[2]} :
                    \A b \in r[1]..r[2] : spec[b] <= p
Centres(runs) == {Centre(runs[n]) : n \in DOMAIN runs}

\* In the order of the spectrum, and sorted by power; the sort is stable.
ByFrequency(runs) ==
  {q \in SetToSeqs(runs) : \A m, n \in DOMAIN q : m < n => q[m][1] < q[n][1]}
ByPower(spec, runs) ==
  {q \in SetToSeqs(runs) : \A m, n \in DOMAIN q : m < n =>
    \/ Power(spec, q[m]) > Power(spec, q[n])
    \/ Power(spec, q[m]) = Power(spec, q[n]) /\ q[m][1] < q[n][1]}

Loudest(runs, n) == SubSeq(runs, 1, IF Len(runs) < n THEN Len(runs) ELSE n)

Init ==
  /\ pc = "rest" /\ cycle = 0 /\ band = 0 /\ i = 1 /\ snr \in Snrs
  /\ cands = <<>> /\ loose = <<>> /\ done = {} /\ extra = 0
  /\ cooling = {} /\ hits = {} /\ dets = {}
  /\ waiting = FALSE /\ overdue = 0 /\ tried = {}

-----------------------------------------------------------------------------
(* The network thread, and the main loop. *)

Request ==
  /\ ~waiting /\ waiting' = TRUE /\ overdue' = 0
  /\ UNCHANGED <<pc, position, snr, found, done, extra, results, tried>>

SetThreshold ==
  /\ snr' \in Snrs \ {snr}
  /\ UNCHANGED <<pc, position, found, done, extra, results, request, tried>>

Serve ==
  /\ pc = "rest" /\ waiting /\ waiting' = FALSE
  /\ UNCHANGED <<pc, position, snr, found, done, extra, results, overdue, tried>>

\* One timestamp serves the whole cycle, so no cooldown ends within it.
BeginCycle ==
  /\ pc = "rest" /\ ~waiting /\ pc' = "band"
  /\ cycle < MaxCycles /\ cycle' = cycle + 1 /\ band' = 1 /\ i' = 1
  /\ cooling' \in SUBSET cooling /\ hits' = {} /\ dets' = {}
  /\ UNCHANGED <<snr, found, done, extra, request, tried>>

-----------------------------------------------------------------------------
(* A band. *)

Capture == overdue' = (IF waiting THEN overdue + 1 ELSE overdue) /\ UNCHANGED waiting

\* abort() is asked before each band, candidate and carrier.
Abort ==
  /\ waiting
  /\ \/ pc = "band" /\ band <= Bands
     \/ pc = "strict" /\ i <= Len(cands)
     \/ pc = "loose" /\ i <= Len(loose)
  /\ pc' = "rest"
  /\ UNCHANGED <<position, snr, found, done, extra, results, request, tried>>

CheckBand ==
  /\ pc = "band" /\ band <= Bands /\ ~waiting /\ pc' = "sweep"
  /\ UNCHANGED <<position, snr, found, done, extra, results, request, tried>>

\* The device fails in the sweep or in a strict dwell: the cycle fails.
CaptureFails ==
  /\ pc \in {"sweep", "dwell"} /\ pc' = "rest"
  /\ Capture
  /\ UNCHANGED <<position, snr, found, done, extra, results, tried>>

SweepBand ==
  /\ pc = "sweep" /\ pc' = "strict" /\ i' = 1
  /\ Capture
  /\ \E spec \in Spectra :
       /\ cands' \in ByPower(spec, Runs(spec, snr, MinBandwidth))
       /\ loose' \in ByFrequency(Runs(spec, CarrierSnr, 0))
  /\ tried' = {}
  /\ UNCHANGED <<cycle, band, snr, done, extra, results>>

CheckCandidate ==
  /\ pc = "strict" /\ i <= Len(cands) /\ ~waiting /\ i <= Budget
  /\ pc' = "dwell"
  /\ UNCHANGED <<position, snr, found, done, extra, results, request, tried>>

\* maybe_emit: once per cooldown, whatever comes of it.
Emit(centre) ==
  IF centre \in cooling THEN UNCHANGED <<cooling, hits>>
  ELSE /\ cooling' = cooling \union {centre}
       /\ hits' \in {hits, hits \union {<<band, centre>>}}

\* The dwell is a detection of some class; analog video goes to the emitter.
Dwell ==
  /\ pc = "dwell" /\ pc' = "strict" /\ i' = i + 1
  /\ Capture
  /\ LET centre == Centre(cands[i]) IN
       /\ tried' = tried \union {centre}
       /\ dets' = dets \union {<<band, centre>>}
       /\ Emit(centre) \/ UNCHANGED <<cooling, hits>>
  /\ UNCHANGED <<cycle, band, snr, found, done, extra>>

Bug_DeferredAreDone ==
  /\ pc = "strict"
  /\ i > Len(cands) \/ (i > Budget /\ ~waiting)
  /\ pc' = "loose" /\ i' = 1
  /\ done' = Centres(cands) /\ extra' = 0
  /\ UNCHANGED <<cycle, band, snr, found, results, request, tried>>

\* The candidates are through, or the budget is: the rest is deferred.
StartLoose ==
  /\ pc = "strict"
  /\ i > Len(cands) \/ (i > Budget /\ ~waiting)
  /\ pc' = "loose" /\ i' = 1
  /\ done' = Centres(Loudest(cands, Budget)) /\ extra' = 0
  /\ UNCHANGED <<cycle, band, snr, found, results, request, tried>>

SkipCarrier ==
  /\ pc = "loose" /\ i <= Len(loose) /\ ~waiting /\ extra < MaxExtra
  /\ Centre(loose[i]) \in done /\ i' = i + 1
  /\ UNCHANGED <<pc, cycle, band, snr, found, done, extra, results, request, tried>>

Bug_NoAbortInLoose ==
  /\ pc = "loose" /\ i <= Len(loose) /\ extra < MaxExtra
  /\ Centre(loose[i]) \notin done
  /\ pc' = "look"
  /\ done' = done \union {Centre(loose[i])} /\ extra' = extra + 1
  /\ UNCHANGED <<position, snr, found, results, request, tried>>

CheckCarrier ==
  /\ pc = "loose" /\ i <= Len(loose) /\ ~waiting /\ extra < MaxExtra
  /\ Centre(loose[i]) \notin done
  /\ pc' = "look"
  /\ done' = done \union {Centre(loose[i])} /\ extra' = extra + 1
  /\ UNCHANGED <<position, snr, found, results, request, tried>>

Looked ==
  /\ pc = "look" /\ pc' = "loose" /\ i' = i + 1
  /\ Capture
  /\ tried' = tried \union {Centre(loose[i])}
  /\ Emit(Centre(loose[i])) \/ UNCHANGED <<cooling, hits>>
  /\ UNCHANGED <<cycle, band, snr, found, done, extra>>

Bug_HitNotDetected == Looked /\ UNCHANGED dets

\* A picture in a looser carrier is an analog detection.  A failure of the
\* device is passed over here.
Look == Looked /\ dets' = dets \union (hits' \ hits)

NextBand ==
  /\ pc = "loose" /\ (i > Len(loose) \/ (extra >= MaxExtra /\ ~waiting))
  /\ pc' = "band" /\ band' = band + 1
  /\ UNCHANGED <<cycle, i, snr, found, done, extra, results, request, tried>>

\* After the last band the hits go to the relay and the looser carriers to the
\* receivers ...
HandOver ==
  /\ pc = "band" /\ band > Bands /\ pc' = "write"
  /\ UNCHANGED <<position, snr, found, done, extra, results, request, tried>>

\* ... and the detections to the state file, which may fail, and to MQTT.
Report ==
  /\ pc = "write" /\ pc' = "rest"
  /\ UNCHANGED <<position, snr, found, done, extra, results, request, tried>>

-----------------------------------------------------------------------------
CycleStep ==
  \/ Abort \/ CheckBand \/ CaptureFails \/ SweepBand
  \/ CheckCandidate \/ Dwell \/ StartLoose
  \/ SkipCarrier \/ CheckCarrier \/ Look \/ NextBand
  \/ HandOver \/ Report

Next == Request \/ SetThreshold \/ Serve \/ BeginCycle \/ CycleStep

Spec == Init /\ [][Next]_vars

-----------------------------------------------------------------------------
\* While a view or TX request waits, the sweep begins at most the one capture it
\* had already decided on.
AbortPrompt == overdue <= 1

\* What the relay may be pointed at is among the detections of the cycle.
HitsAreReported == hits \subseteq dets

\* A band is left only when every carrier in it was looked at, by the strict pass
\* or the looser one, or the looser one has used up its allowance.  So a deferred
\* candidate has its second chance.
CarriersCovered ==
  [][pc = "loose" /\ pc' = "band" => Centres(loose) \subseteq tried \/ extra = MaxExtra]_vars
=============================================================================
