---------------------------- MODULE EmscAdapter ----------------------------
(***************************************************************************)
(* The EMSC adapter (emsc_adapter/app): FDSN backfill, WebSocket stream,   *)
(* and gap-fill from the greatest lastupdate delivered so far.             *)
(*                                                                         *)
(* An event is its lastupdate, in ticks of EMSC's clock.  The FDSN service *)
(* answers with an event as soon as it exists; the stream carries it up to *)
(* Skew ticks later.  That an event has been deleted is a message of the   *)
(* stream only, with a lastupdate of its own.  Subscriber, batcher and     *)
(* sender are goroutines with channels between them.                       *)
(***************************************************************************)
EXTENDS Integers, Sequences, FiniteSets

CONSTANTS
    MaxTime,         \* bound on the clock
    Skew,            \* how late the stream may carry an event
    GapFillLookback, \* gapFillLookback, in ticks
    FdsnPageLimit,   \* fdsnPageLimit
    LiveChannelSize, \* capacity of the raw channel
    LiveBatchSize,   \* Batcher.Size
    Garbled,         \* messages on the stream may be unparseable
    MaxDrops,        \* bound on the number of lost connections
    MaxRestarts      \* bound on the number of restarts

ASSUME SkewAssumption == Skew \in Nat /\ GapFillLookback \in Nat /\ Skew < GapFillLookback
ASSUME SizesAssumption == /\ FdsnPageLimit \in Nat \ {0} /\ LiveChannelSize \in Nat \ {0}
                          /\ LiveBatchSize \in Nat \ {0}
ASSUME GarbledAssumption == Garbled \in BOOLEAN
ASSUME BoundsAssumption == MaxTime \in Nat /\ MaxDrops \in Nat /\ MaxRestarts \in Nat

VARIABLES
    \* EMSC
    clock,
    published,  \* events that exist, and deletions
    unpushed,   \* those the stream has still to carry
    deletions,  \* the messages that delete an event
    withdrawn,  \* the events that have been deleted
    wire,       \* sent on the connection and not yet read
    \* the adapter
    pc,         \* of run: "sync" (runFDSNSync), "live" (runLive), "pause"
    until,      \* endtime of the sync's queries
    after,      \* updatedafter of the sync's queries; 0: not given
    synced,     \* events on the pages accepted so far
    conn,       \* the subscription: "dial", "open", "closed"
    raw, buf,   \* the channel of messages; the batcher's buffer
    sending,    \* the batch being sent
    maxLastUpdate,  \* 0: none yet
    \* the core
    core,
    \* bounds and history
    drops, restarts,
    heard, posted,  \* messages read from this connection; those acknowledged
    blind           \* what no later query brings: events the stream carried after a
                    \* sync's endtime to nobody, or in a message that could not be
                    \* parsed; deletions lost on the stream; what has been deleted

emsc == <<clock, published, unpushed, deletions, withdrawn>>
sync == <<until, after, synced>>
live == <<conn, raw, buf, sending>>
log == <<heard, posted>>
bounds == <<drops, restarts>>
vars == <<emsc, wire, pc, sync, live, maxLastUpdate, core, bounds, log, blind>>

Times == 1..MaxTime
Members(s) == {s[k] : k \in DOMAIN s}

TypeOK ==
    /\ clock \in 0..MaxTime /\ published \subseteq Times /\ unpushed \subseteq published
    /\ deletions \subseteq published /\ withdrawn \subseteq published
    /\ pc \in {"sync", "live", "pause"} /\ until \in 0..MaxTime /\ after \in Nat
    /\ synced \subseteq published /\ conn \in {"dial", "open", "closed"}
    /\ wire \in Seq(Times) /\ raw \in Seq(Times) /\ Len(raw) <= LiveChannelSize
    /\ buf \in Seq(Times) /\ Len(buf) <= LiveBatchSize /\ sending \in Seq(Times)
    /\ maxLastUpdate \in 0..MaxTime /\ core \subseteq published
    /\ drops \in 0..MaxDrops /\ restarts \in 0..MaxRestarts
    /\ heard \in Seq(Times) /\ posted \in Seq(Times) /\ blind \subseteq published

\* A process that has just started begins with the backfill.
Idle == /\ conn = "closed" /\ raw = <<>> /\ buf = <<>> /\ sending = <<>>
Init ==
    /\ clock = 0 /\ published = {} /\ unpushed = {} /\ wire = <<>>
    /\ deletions = {} /\ withdrawn = {}
    /\ pc = "sync" /\ until = 0 /\ after = 0 /\ synced = {}
    /\ Idle /\ maxLastUpdate = 0 /\ core = {}
    /\ drops = 0 /\ restarts = 0 /\ heard = <<>> /\ posted = <<>> /\ blind = {}

----------------------------------------------------------------------------
(* EMSC.                                                                   *)

\* Time passes; the stream is not later than Skew.
Pass(new) ==
    /\ clock < MaxTime /\ \A u \in unpushed : clock < u + Skew
    /\ clock' = clock + 1
    /\ published' = published \cup new /\ unpushed' = unpushed \cup new
    /\ UNCHANGED <<wire, pc, sync, live, maxLastUpdate, core, bounds, log>>

\* ... with or without a new event.
Tick == /\ \E new \in {{}, {clock + 1}} : Pass(new)
        /\ UNCHANGED <<deletions, withdrawn, blind>>

\* An event is deleted.
Delete(v) ==
    /\ v \in published \ (deletions \cup withdrawn) /\ Pass({clock + 1})
    /\ deletions' = deletions \cup {clock + 1} /\ withdrawn' = withdrawn \cup {v}
    /\ blind' = blind \cup {v}

\* The stream carries an event to whoever is connected.
Push(u) ==
    /\ u \in unpushed /\ unpushed' = unpushed \ {u}
    /\ wire' = IF conn = "open" THEN Append(wire, u) ELSE wire
    /\ blind' = IF \/ u > until /\ (pc = "sync" \/ conn = "dial")
                   \/ u \in deletions /\ conn # "open"
                THEN blind \cup {u} ELSE blind
    /\ UNCHANGED <<clock, published, deletions, withdrawn, pc, sync, live, maxLastUpdate, core,
                   bounds, log>>

----------------------------------------------------------------------------
(* runFDSNSync.                                                            *)

Greatest(S) == CHOOSE m \in S : \A u \in S : u <= m

\* maxLastUpdate after a page or a batch of events has been accepted.
Advance(S) == maxLastUpdate' = Greatest(S \cup {maxLastUpdate})

\* The events a query may return, and those it must: FDSN knows no deletions,
\* and whether it lists an event that has been deleted is left open; one newer
\* than endtime is on the page when it updates an earthquake of before.
Rows == {u \in published \ deletions : u > after}
Due == {u \in Rows \ withdrawn : u <= until}

\* A page of the events not yet paged: a full one, or the last one.
Page(P) ==
    /\ P \subseteq Rows \ synced /\ Cardinality(P) <= FdsnPageLimit
    /\ Cardinality(P) < FdsnPageLimit => Due \subseteq synced \cup P

\* The query failed, or the core did not take the page or its answer was lost:
\* the same offset is asked for again.
SyncFails(P) ==
    /\ pc = "sync" /\ Page(P)
    /\ core' = core \/ core' = core \cup P
    /\ UNCHANGED <<emsc, wire, pc, sync, live, maxLastUpdate, bounds, log, blind>>

\* The page was accepted; one that is not full is the last.
SyncPage(P) ==
    /\ pc = "sync" /\ Page(P)
    /\ core' = core \cup P /\ Advance(P) /\ synced' = synced \cup P
    /\ IF Cardinality(P) < FdsnPageLimit
       THEN pc' = "live" /\ conn' = "dial" /\ heard' = <<>> /\ posted' = <<>>
       ELSE UNCHANGED <<pc, conn, log>>
    /\ UNCHANGED <<emsc, wire, until, after, raw, buf, sending, bounds, blind>>

----------------------------------------------------------------------------
(* runLive: Subscribe, Batcher.Run and the send loop.                      *)

DialOk ==
    /\ pc = "live" /\ conn = "dial" /\ conn' = "open"
    /\ UNCHANGED <<emsc, wire, pc, sync, raw, buf, sending, maxLastUpdate, core, bounds,
                   log, blind>>

\* The connection cannot be made, or is lost with what is on it.
Disconnect ==
    /\ pc = "live" /\ conn \in {"dial", "open"} /\ drops < MaxDrops
    /\ conn' = "closed" /\ wire' = <<>> /\ drops' = drops + 1
    /\ blind' = blind \cup (deletions \cap Members(wire))
    /\ UNCHANGED <<emsc, pc, sync, raw, buf, sending, maxLastUpdate, core, restarts, log>>

\* A message is read and goes into the raw channel.
Read ==
    /\ conn = "open" /\ wire # <<>> /\ Len(raw) < LiveChannelSize
    /\ wire' = Tail(wire) /\ raw' = Append(raw, Head(wire))
    /\ heard' = Append(heard, Head(wire))
    /\ UNCHANGED <<emsc, pc, sync, conn, buf, sending, maxLastUpdate, core, bounds,
                   posted, blind>>

\* parseLiveMessage fails: the message is dropped.
ReadGarbled ==
    /\ Garbled /\ conn = "open" /\ wire # <<>>
    /\ wire' = Tail(wire) /\ blind' = blind \cup {Head(wire)}
    /\ UNCHANGED <<emsc, pc, sync, live, maxLastUpdate, core, bounds, log>>

Collect ==
    /\ raw # <<>> /\ Len(buf) < LiveBatchSize
    /\ raw' = Tail(raw) /\ buf' = Append(buf, Head(raw))
    /\ UNCHANGED <<emsc, wire, pc, sync, conn, sending, maxLastUpdate, core, bounds, log,
                   blind>>

\* Mutant: a batch that is not full has no timer.
FlushFull ==
    /\ Len(buf) = LiveBatchSize \/ (buf # <<>> /\ conn = "closed" /\ raw = <<>>)
    /\ sending = <<>> /\ sending' = buf /\ buf' = <<>>
    /\ UNCHANGED <<emsc, wire, pc, sync, conn, raw, maxLastUpdate, core, bounds, log, blind>>

\* The batch is full, its timer has run out, or the channel is closed; the
\* sender takes it when it has finished the one before.
Flush ==
    /\ buf # <<>> /\ sending = <<>>
    /\ sending' = buf /\ buf' = <<>>
    /\ UNCHANGED <<emsc, wire, pc, sync, conn, raw, maxLastUpdate, core, bounds, log, blind>>

SendOk ==
    /\ sending # <<>> /\ sending' = <<>>
    /\ core' = core \cup Members(sending) /\ Advance(Members(sending))
    /\ posted' = posted \o sending
    /\ UNCHANGED <<emsc, wire, pc, sync, conn, raw, buf, bounds, heard, blind>>

\* The core did not take the batch, or its answer was lost: it is sent again.
SendFails ==
    /\ sending # <<>> /\ core' = core \cup Members(sending)
    /\ UNCHANGED <<emsc, wire, pc, sync, live, maxLastUpdate, bounds, log, blind>>

\* Mutant: a lost connection ends runLive at once.
RunLiveReturnsEarly ==
    /\ pc = "live" /\ conn = "closed"
    /\ pc' = "pause" /\ raw' = <<>> /\ buf' = <<>> /\ sending' = <<>>
    /\ UNCHANGED <<emsc, wire, sync, conn, maxLastUpdate, core, bounds, log, blind>>

\* The batches channel is closed once the batcher has passed everything on.
RunLiveReturns ==
    /\ pc = "live" /\ Idle /\ pc' = "pause"
    /\ UNCHANGED <<emsc, wire, sync, live, maxLastUpdate, core, bounds, log, blind>>

\* Mutant: no lookback.
GapFillExact == maxLastUpdate

\* gapFillUpdatedAfter
GapFillUpdatedAfter ==
    IF maxLastUpdate > GapFillLookback THEN maxLastUpdate - GapFillLookback ELSE 0

\* The pause is over and the gap-fill starts: its endtime is fixed here.
GapFill ==
    /\ pc = "pause" /\ pc' = "sync" /\ synced' = {}
    /\ until' = clock /\ after' = GapFillUpdatedAfter
    /\ UNCHANGED <<emsc, wire, live, maxLastUpdate, core, bounds, log, blind>>

\* What the process holds, from the socket to the POST.
Held == Members(sending) \cup Members(buf) \cup Members(raw) \cup Members(wire)

\* The process ends and starts again with the backfill.
Restart ==
    /\ restarts < MaxRestarts /\ restarts' = restarts + 1
    /\ pc' = "sync" /\ until' = clock /\ after' = 0 /\ synced' = {} /\ wire' = <<>>
    /\ conn' = "closed" /\ raw' = <<>> /\ buf' = <<>> /\ sending' = <<>>
    /\ maxLastUpdate' = 0 /\ heard' = <<>> /\ posted' = <<>>
    /\ blind' = blind \cup ((deletions \cap Held) \ core)
    /\ UNCHANGED <<emsc, core, drops>>

----------------------------------------------------------------------------
Next ==
    \/ Tick \/ \E u \in Times : Delete(u) \/ Push(u)
    \/ \E P \in SUBSET published : SyncFails(P) \/ SyncPage(P)
    \/ DialOk \/ Disconnect \/ Read \/ ReadGarbled \/ Collect \/ Flush
    \/ SendOk \/ SendFails \/ RunLiveReturns \/ GapFill \/ Restart
Spec == Init /\ [][Next]_vars

(* The goroutines run, EMSC's stream carries what exists, and a request that *)
(* is made again and again is answered once.                                 *)
Fairness ==
    /\ WF_vars(\E u \in Times : Push(u))
    /\ SF_vars(\E P \in SUBSET published : SyncPage(P)) /\ SF_vars(DialOk)
    /\ SF_vars(SendOk)
    /\ WF_vars(Read \/ Collect \/ Flush \/ RunLiveReturns \/ GapFill)
LiveSpec == Spec /\ Fairness

----------------------------------------------------------------------------
\* Between the socket and the core nothing is dropped or reordered, whatever
\* the core refuses and whenever the connection is lost (runLive: "without
\* dropping or reordering it"; Batcher.Run: "a disconnect never drops buffered
\* messages").
LiveInOrder == heard = posted \o sending \o buf \o raw

\* What no gap-fill will ask for any more has been delivered, unless no query
\* could bring it: an event that fell into the blind spot between a sync's
\* endtime and the subscription or whose message was garbled, an event that has
\* been deleted, a deletion that was lost with the connection or the process.
GapFillSound ==
    pc # "sync" => \A u \in published \ blind :
                      u <= maxLastUpdate - GapFillLookback => u \in core

\* Everything else reaches the core in the end, deletions that the connection
\* carried among them.
Delivered == \A u \in Times : u \in published ~> u \in core \cup blind

=============================================================================
