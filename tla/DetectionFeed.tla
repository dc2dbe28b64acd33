--------------------------- MODULE DetectionFeed ---------------------------
(***************************************************************************)
(* What becomes of the scanners' detections: lib/detection-journal.js,     *)
(* which logs what appears and goes, as dashboard/server.js feeds it, and  *)
(* the list of dashboard/public/viewer.js, which a page builds from the    *)
(* same messages and, after a reload, from the journal.                    *)
(*                                                                         *)
(* A payload is the set of keys a scanner sees and its timestamp; the      *)
(* broker retains the last of each scanner.  Server and page each take the *)
(* newest one they have not had, so either may miss one in between.        *)
(***************************************************************************)
EXTENDS Naturals, Sequences, FiniteSets, SequencesExt

CONSTANTS
  Scanners, Keys,
  MaxScanners,  \* _maxScanners, of the baselines
  MaxEvents,    \* _max, of the ring
  MaxListed,    \* how many events a page asks for
  RecentTtl,    \* RECENT_TTL_S
  LiveStale,    \* LIVE_STALE_S
  MaxTime,      \* bound on the clock
  MaxCrashes    \* bound on the restarts of the server

FeedBounds ==
  /\ {MaxScanners, MaxEvents, MaxListed} \subseteq Nat \ {0}
  /\ {RecentTtl, LiveStale, MaxTime, MaxCrashes} \subseteq Nat
  /\ LiveStale <= RecentTtl
  /\ IsFiniteSet(Keys)

Nothing == [ts |-> 0, keys |-> {}]

VARIABLES
  now,
  retained,  \* the last payload of each scanner
  logged,    \* the last one the server has had, by scanner
  baseline,  \* _byScanner: a sequence of scanners and keys, oldest first
  events,    \* _events: the ring, oldest first
  page,      \* vs.entries: by key, the claims of the scanners and last_seen
  seen,      \* vs.seenTs
  gap,       \* history: the journal may lack an event: the server missed a
             \* payload, lost a baseline or has dropped an event from the ring
  crashes

server == <<logged, baseline, events, gap>>
browser == <<page, seen>>
vars == <<now, retained, server, browser, crashes>>

EmptyPage == [k \in {} |-> Nothing]

Init ==
  /\ now = 1 /\ retained = [s \in Scanners |-> Nothing]
  /\ logged = retained /\ baseline = <<>> /\ events = <<>> /\ gap = FALSE
  /\ page = EmptyPage /\ seen = [s \in Scanners |-> 0] /\ crashes = 0

-----------------------------------------------------------------------------
Tick ==
  /\ now < MaxTime /\ now' = now + 1
  /\ UNCHANGED <<retained, server, browser, crashes>>

\* A cycle ends.  It begins a second or more after the one before.
Publish(s, keys) ==
  /\ retained[s].ts < now
  /\ retained' = [retained EXCEPT ![s] = [ts |-> now, keys |-> keys]]
  /\ gap' = (gap \/ logged[s] # retained[s])
  /\ UNCHANGED <<now, logged, baseline, events, browser, crashes>>

-----------------------------------------------------------------------------
(* The journal. *)

Known(s) == {n \in DOMAIN baseline : baseline[n].scanner = s}

Event(s, key, kind) == [ts |-> retained[s].ts, key |-> key, event |-> kind]

Bug_OnlyChanges(s) ==
  IF Known(s) = {} THEN <<>>
  ELSE LET prev == baseline[CHOOSE n \in Known(s) : TRUE].keys
           cur == retained[s].keys IN
       SetToSeq({Event(s, k, "appeared") : k \in cur \ prev}
                \union {Event(s, k, "gone") : k \in IF cur = {} THEN {} ELSE prev \ cur})

\* diffDetections: nothing for the first payload of a scanner, else what has
\* appeared, then what is gone.
Diff(s) ==
  IF Known(s) = {} THEN <<>>
  ELSE LET prev == baseline[CHOOSE n \in Known(s) : TRUE].keys
           cur == retained[s].keys IN
       SetToSeq({Event(s, k, "appeared") : k \in cur \ prev})
         \o SetToSeq({Event(s, k, "gone") : k \in prev \ cur})

\* The baselines without that of scanner s.
Without(s) ==
  IF Known(s) = {} THEN baseline ELSE RemoveAt(baseline, CHOOSE n \in Known(s) : TRUE)

Newest(seq, n) == IF Len(seq) > n THEN SubSeq(seq, Len(seq) - n + 1, Len(seq)) ELSE seq

\* ingest(): the scanner moves to the end of the baselines, of which the first is
\* evicted when there are too many; the ring drops its oldest events.
Ingest(s) ==
  /\ retained[s] # logged[s]
  /\ logged' = [logged EXCEPT ![s] = retained[s]]
  /\ LET others == Without(s)
         all == events \o Diff(s) IN
       /\ baseline' = Newest(Append(others, [scanner |-> s, keys |-> retained[s].keys]),
                             MaxScanners)
       /\ events' = Newest(all, MaxEvents)
       /\ gap' = (gap \/ Len(others) = MaxScanners \/ Len(all) > MaxEvents)
  /\ UNCHANGED <<now, retained, browser, crashes>>

\* The events are read back from their file, the baselines are not.  The first
\* payload of a scanner that is not known logs nothing.
Restart ==
  /\ crashes < MaxCrashes /\ crashes' = crashes + 1
  /\ baseline' = <<>> /\ gap' = TRUE
  /\ logged' = [s \in Scanners |-> Nothing]
  /\ UNCHANGED <<now, retained, events, browser>>

-----------------------------------------------------------------------------
(* The page. *)

Live(e) == \E s \in DOMAIN e.claims : now - e.claims[s] <= LiveStale
Expired(e) == ~Live(e) /\ now - e.last > RecentTtl

\* What prune() leaves.
Rows(entries) == {k \in DOMAIN entries : ~Expired(entries[k])}
Prune(entries) == [k \in Rows(entries) |-> entries[k]]

\* What a row is without a scanner that claims it.
NoClaim == [claims |-> [x \in {} |-> 0], last |-> 0]

Max2(a, b) == IF a > b THEN a ELSE b

Bug_DropsAllClaims(entries, s) ==
  [k \in DOMAIN entries \union retained[s].keys |->
    LET e == IF k \in DOMAIN entries THEN entries[k] ELSE NoClaim IN
    IF k \in retained[s].keys
    THEN [claims |-> [x \in DOMAIN e.claims \union {s} |->
                       IF x = s THEN retained[s].ts ELSE e.claims[x]],
          last |-> Max2(e.last, retained[s].ts)]
    ELSE [e EXCEPT !.claims = NoClaim.claims]]

\* The claims of scanner s are those of its payload; those of others stay.
Claim(entries, s) ==
  [k \in DOMAIN entries \union retained[s].keys |->
    LET e == IF k \in DOMAIN entries THEN entries[k] ELSE NoClaim IN
    IF k \in retained[s].keys
    THEN [claims |-> [x \in DOMAIN e.claims \union {s} |->
                       IF x = s THEN retained[s].ts ELSE e.claims[x]],
          last |-> Max2(e.last, retained[s].ts)]
    ELSE [e EXCEPT !.claims = [x \in DOMAIN @ \ {s} |-> @[x]]]]

\* applyDetections: once per timestamp of a scanner.
Apply(s) ==
  /\ retained[s].ts # seen[s]
  /\ seen' = [seen EXCEPT ![s] = retained[s].ts]
  /\ page' = Prune(Claim(page, s))
  /\ UNCHANGED <<now, retained, server, crashes>>

\* seedFromJournal: of the newest events, the keys that went not long ago, unless they
\* are listed.  The journal is newest first.
Gone == {n \in DOMAIN events :
  n + MaxListed > Len(events) /\ events[n].event = "gone" /\ now - events[n].ts <= RecentTtl}
Seed(entries) ==
  LET late(k) == {n \in Gone : events[n].key = k}
      new == {events[n].key : n \in Gone} \ DOMAIN entries IN
  [k \in DOMAIN entries \union new |->
    IF k \in DOMAIN entries THEN entries[k]
    ELSE [NoClaim EXCEPT !.last =
            events[CHOOSE n \in late(k) : \A m \in late(k) : m <= n].ts]]

\* The page is loaded again, and asks for the journal before it connects to the
\* broker; the request may fail.
Reload ==
  /\ seen' = [s \in Scanners |-> 0] /\ page' \in {EmptyPage, Seed(EmptyPage)}
  /\ UNCHANGED <<now, retained, server, crashes>>

-----------------------------------------------------------------------------
Next ==
  \/ Tick \/ Restart \/ Reload
  \/ \E s \in Scanners : Ingest(s) \/ Apply(s) \/ \E keys \in SUBSET Keys : Publish(s, keys)

Spec == Init /\ [][Next]_vars

-----------------------------------------------------------------------------
\* A scanner claims on the page what its last applied payload says, whatever the
\* other scanners and the journal say; only rows that have expired are missing.
ClaimsMatch ==
  \A s \in Scanners :
    LET claimed == {k \in DOMAIN page : s \in DOMAIN page[k].claims}
        current == seen[s] # 0 /\ seen[s] = retained[s].ts IN
    /\ current => claimed \subseteq retained[s].keys
    /\ current /\ now - seen[s] <= RecentTtl => retained[s].keys \subseteq claimed

\* A reload loses no row, if the journal has seen all, lacks nothing and is listed
\* whole: the page gets it again from the journal or from a retained payload.
ReloadKeepsRows ==
  ~gap /\ Len(events) <= MaxListed /\ logged = retained =>
    Rows(page) \subseteq Rows(Seed(EmptyPage)) \union
                          UNION {Rows(Claim(EmptyPage, s)) : s \in Scanners}
=============================================================================
