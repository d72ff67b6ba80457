----------------------------- MODULE AlertStream -----------------------------
(***************************************************************************)
(* From a committed alert to the browser: the core's writers publish to    *)
(* the alert hub and invalidate the response cache (alert_hub.gleam,       *)
(* response_cache.gleam), the bridge of a connection carries the hub's     *)
(* messages to its event stream (live_stream.gleam), and the alert store   *)
(* of the page (liveStream.ts, alerts/store.svelte.ts) joins that stream   *)
(* with a snapshot it fetches when the stream opens.  A connection that    *)
(* the page has left no longer matters to it and is forgotten here.        *)
(* Handlers that overlap commit in the order of their clocks (last_seen_at)*)
(* and then publish and invalidate in any order, or fail and do neither.   *)
(*                                                                         *)
(* Hub and cache are actors.  A message is handled where it is sent: what  *)
(* an actor does with a message is to change its own state and to send     *)
(* messages, and those may wait on the wire as long as they like.          *)
(***************************************************************************)
EXTENDS Naturals, Sequences, FiniteSets

CONSTANTS
    Alerts,       \* alerts of one source
    Posters,      \* request handlers that write at the same time
    Others,       \* other readers of the snapshot, aborted requests of the page included
    MaxPosts,     \* bound on the batches posted by the adapter
    MaxConns,     \* bound on the connections the page opens
    MaxFaults     \* bound on failed writers and failed snapshot requests

ASSUME AlertsAssumption == IsFiniteSet(Alerts)
ASSUME PostersAssumption == "sweep" \notin Posters
ASSUME OthersAssumption == "page" \notin Others
ASSUME BoundsAssumption == /\ MaxPosts \in Nat /\ MaxFaults \in Nat
                           /\ MaxConns \in Nat \ {0}

VARIABLES
    \* the core
    db,        \* sea.alert
    writer,    \* the request handlers that post, and the expiry job
    posts,     \* batches posted so far: the clock of last_seen_at and sent
    cache,     \* State of the response cache, with one key
    req,       \* snapshot requests, one per reader
    wire,      \* messages between the hub and the page
    \* the page
    es,        \* connections so far
    link,      \* state of the last one
    cursor,    \* the EventSource knows a last event id
    buffering, buffer,   \* #streamBuffer
    pending,   \* #pendingApply
    view,      \* activeAlerts
    faults,
    \* history: ways in which the page may be left behind
    overtaken, \* the snapshot was cached before a change published before it
    misled,    \* alerts whose last published change is not their last change
    spared,    \* alerts of failed writers, with nothing invalidated since
    leftover,  \* a snapshot was taken over events that still waited for a frame
    failed     \* the last snapshot request failed

core == <<db, writer, posts>>
page == <<es, link, cursor>>
store == <<buffering, buffer, pending, view>>
excuses == <<overtaken, misled, spared, leftover, failed>>
vars == <<core, cache, req, wire, page, store, faults, excuses>>

Writers == Posters \cup {"sweep"}
Readers == Others \cup {"page"}

Statuses == {"absent", "active", "due", "withdrawn", "expired"}
NoRow == [rev |-> 0, seen |-> 0]
Rows == [rev : 0..MaxPosts, seen : 0..MaxPosts]
Bodies == [Alerts -> Rows]
NoBody == <<>>

Event(kind, a, row) == [kind |-> kind, alert |-> a, row |-> [rev |-> row.rev, seen |-> row.seen]]
Resync == [kind |-> "resync"]
Events == [kind : {"new", "update", "ended"}, alert : Alerts, row : Rows]
Messages == Events \cup {Resync}

Idle == [pc |-> "idle", diff |-> <<>>, wrote |-> {}, behind |-> {}, late |-> {}]
NoReq == [pc |-> "idle", gen |-> 0, body |-> NoBody]
Asking == [pc |-> "sent", gen |-> 0, body |-> NoBody]

----------------------------------------------------------------------------
Init ==
    /\ db = [a \in Alerts |-> [st |-> "absent", rev |-> 0, seen |-> 0]]
    /\ writer = [w \in Writers |-> Idle]
    /\ posts = 0
    /\ cache = [gen |-> 1, entry |-> NoBody]
    /\ req = [r \in Readers |-> IF r = "page" THEN NoReq ELSE Asking]
    /\ wire = <<>>
    /\ es = 1 /\ link = "connecting"
    /\ cursor = FALSE
    /\ buffering = TRUE /\ buffer = <<>> /\ pending = <<>>
    /\ view = [a \in Alerts |-> [row |-> NoRow, fading |-> FALSE]]
    /\ faults = 0
    /\ overtaken = FALSE /\ misled = {} /\ spared = {} /\ leftover = FALSE /\ failed = FALSE

----------------------------------------------------------------------------
(* Writers: commit, publish to the hub, invalidate the cache.              *)

\* A transaction leaves the rows and the events of its diff; it is behind those that have
\* committed before it and not yet published.
Commit(w, rows, diff) ==
    /\ writer[w].pc = "idle"
    /\ db' = rows
    /\ writer' = [writer EXCEPT ![w] =
                    [pc |-> "publish", diff |-> diff,
                     wrote |-> {a \in Alerts : rows[a] # db[a]},
                     behind |-> {o \in Writers \ {w} : writer[o].pc = "publish"},
                     late |-> {}]]

Present(a) == db[a].st # "absent"

\* write_batch with a row that is new or a later revision; the row ends at once
\* when its active_until has passed.
PostRow(w, a) ==
    /\ posts < MaxPosts
    /\ posts' = posts + 1
    /\ \E st \in {"active", "expired"} :
         LET row == [st |-> st, rev |-> posts + 1, seen |-> posts + 1]
             kind == IF st = "expired" THEN "ended"
                     ELSE IF Present(a) THEN "update" ELSE "new"
         IN  Commit(w, [db EXCEPT ![a] = row], <<Event(kind, a, row)>>)
    /\ UNCHANGED <<cache, req, wire, page, store, faults, excuses>>

\* write_batch with a row it has already: touch, and revive what had been withdrawn if
\* its time has not run out.
PostSame(w, a) ==
    /\ posts < MaxPosts /\ Present(a)
    /\ posts' = posts + 1
    /\ \E revived \in {db[a].st = "withdrawn", FALSE} :
         LET row == [db[a] EXCEPT !.seen = posts + 1, !.st = IF revived THEN "active" ELSE @]
         IN  Commit(w, [db EXCEPT ![a] = row],
                    IF revived THEN <<Event("update", a, row)>> ELSE <<>>)
    /\ UNCHANGED <<cache, req, wire, page, store, faults, excuses>>

\* sweep_missing: a row the source no longer lists.
PostWithout(w, a) ==
    /\ posts < MaxPosts /\ db[a].st \in {"active", "due"}
    /\ posts' = posts + 1
    /\ Commit(w, [db EXCEPT ![a].st = "withdrawn"], <<Event("ended", a, db[a])>>)
    /\ UNCHANGED <<cache, req, wire, page, store, faults, excuses>>

\* active_until passes.
Expires(a) ==
    /\ db[a].st = "active"
    /\ db' = [db EXCEPT ![a].st = "due"]
    /\ UNCHANGED <<writer, posts, cache, req, wire, page, store,
                   faults, excuses>>

Due == {a \in Alerts : db[a].st = "due"}

\* expire_due, run by sweep_and_clean_alerts; one that finds nothing due only empties
\* the cache.
Sweep ==
    /\ Due # {}
    /\ \E order \in [1..Cardinality(Due) -> Due] :
         /\ \A i, j \in DOMAIN order : i # j => order[i] # order[j]
         /\ Commit("sweep", [a \in Alerts |-> IF a \in Due THEN [db[a] EXCEPT !.st = "expired"]
                                              ELSE db[a]],
                   [i \in DOMAIN order |-> Event("ended", order[i], db[order[i]])])
    /\ UNCHANGED <<posts, cache, req, wire, page, store, faults, excuses>>

Changed(w) == {writer[w].diff[i].alert : i \in DOMAIN writer[w].diff}

\* A writer is done with its diff; those it was behind come too late with theirs.
Done(w, state) ==
    writer' = [o \in Writers |->
                 IF o = w THEN state
                 ELSE [writer[o] EXCEPT !.behind = @ \ {w},
                                        !.late = IF o \in writer[w].behind
                                                 THEN @ \cup (Changed(o) \cap Changed(w))
                                                 ELSE @]]

\* alert_hub.publish: every subscriber is sent the diff.
Publish(w) ==
    /\ writer[w].pc = "publish"
    /\ Done(w, [writer[w] EXCEPT !.pc = "invalidate", !.behind = {}])
    /\ wire' = IF link = "connecting" THEN wire ELSE wire \o writer[w].diff
    /\ misled' = (misled \ Changed(w)) \cup writer[w].late
    /\ UNCHANGED <<db, posts, cache, req, page, store, faults,
                   overtaken, spared, leftover, failed>>

\* A later chunk of the handler fails, or the answer to a commit is lost: neither a
\* publication nor an invalidation follows what has been committed.
Abandon(w) ==
    /\ writer[w].pc = "publish" /\ faults < MaxFaults
    /\ faults' = faults + 1
    /\ Done(w, Idle)
    /\ misled' = misled \cup Changed(w)
    /\ spared' = spared \cup writer[w].wrote
    /\ UNCHANGED <<db, posts, cache, req, wire, page, store, overtaken, leftover, failed>>

\* response_cache.invalidate.
Invalidate(w) ==
    /\ writer[w].pc = "invalidate"
    /\ writer' = [writer EXCEPT ![w] = Idle]
    /\ cache' = [gen |-> cache.gen + 1, entry |-> NoBody]
    /\ spared' = {}
    /\ UNCHANGED <<db, posts, req, wire, page, store, faults,
                   overtaken, misled, leftover, failed>>

----------------------------------------------------------------------------
(* Snapshot requests: cached_json_response over response_cache.            *)

\* list_active.
Active == [a \in Alerts |-> IF db[a].st = "active" THEN [rev |-> db[a].rev, seen |-> db[a].seen]
                            ELSE NoRow]

\* The page has its answer; others have theirs and may ask again.
Answer(r, body) == IF r = "page" THEN [pc |-> "done", gen |-> 0, body |-> body] ELSE Asking

\* response_cache.get: a hit, a miss (there is no entry, or it has outlived its ttl),
\* or no answer in time.
CacheGet(r) ==
    /\ req[r].pc = "sent"
    /\ \/ /\ cache.entry # NoBody
          /\ req' = [req EXCEPT ![r] = Answer(r, cache.entry)]
          /\ overtaken' = IF r = "page" THEN \E w \in Writers : writer[w].pc = "invalidate"
                          ELSE overtaken
       \/ /\ \E g \in {cache.gen, 0} :
               req' = [req EXCEPT ![r] = [pc |-> "build", gen |-> g, body |-> NoBody]]
          /\ overtaken' = (r # "page" /\ overtaken)
    /\ UNCHANGED <<core, cache, wire, page, store, faults, misled, spared, leftover, failed>>

ReadDb(r) ==
    /\ req[r].pc = "build"
    /\ req' = [req EXCEPT ![r] = [pc |-> "put", gen |-> @.gen, body |-> Active]]
    /\ UNCHANGED <<core, cache, wire, page, store, faults, excuses>>

\* Mutant of CachePut: the generation is not compared.
PutAlways(r) ==
    /\ req[r].pc = "put"
    /\ cache' = [cache EXCEPT !.entry = req[r].body]
    /\ req' = [req EXCEPT ![r] = Answer(r, @.body)]
    /\ UNCHANGED <<core, wire, page, store, faults, excuses>>

\* response_cache.put: kept only when nothing was invalidated since the get.
CachePut(r) ==
    /\ req[r].pc = "put"
    /\ cache' = IF req[r].gen = cache.gen THEN [cache EXCEPT !.entry = req[r].body] ELSE cache
    /\ req' = [req EXCEPT ![r] = Answer(r, @.body)]
    /\ UNCHANGED <<core, wire, page, store, faults, excuses>>

----------------------------------------------------------------------------
(* The stream on the server: stream_response and its bridge.               *)

\* start_bridge: the bridge subscribes to the hub before anything is sent.
StartBridge ==
    /\ link = "connecting"
    /\ link' = "subscribed"
    /\ UNCHANGED <<core, cache, req, wire, es, cursor, store, faults, excuses>>

\* The bridge is attached and sends what it had buffered; the resync that answers
\* Last-Event-ID races with that.
Attached ==
    IF cursor
    THEN {SubSeq(wire, 1, k) \o <<Resync>> \o SubSeq(wire, k + 1, Len(wire)) :
            k \in 0..Len(wire)}
    ELSE {wire}

----------------------------------------------------------------------------
(* The page: SharedLiveStreamManager and AlertStore.                       *)

\* applyNew, applyUpdate, applyEnded.
Apply(v, e) ==
    IF e.kind = "ended"
    THEN IF v[e.alert].row = NoRow THEN v
         ELSE [v EXCEPT ![e.alert] = [row |-> e.row, fading |-> TRUE]]
    ELSE [v EXCEPT ![e.alert] = [row |-> e.row, fading |-> FALSE]]

\* The replay of the stream buffer skips what the view has seen later.
Replay(v, e) == IF v[e.alert].row # NoRow /\ e.row.seen < v[e.alert].row.seen THEN v
                ELSE Apply(v, e)

Fold(Op(_, _), v, s) ==
    LET f[i \in 0..Len(s)] == IF i = 0 THEN v ELSE Op(f[i - 1], s[i])
    IN  f[Len(s)]

\* loadSnapshot, when none is in flight.
Load == req' = [req EXCEPT !["page"] = Asking]

\* Mutant of Open: a request in flight from before is taken for the new snapshot.
OpenReusing ==
    /\ link = "subscribed"
    /\ link' = "open"
    /\ wire' \in Attached
    /\ buffering' = TRUE
    /\ IF req["page"].pc = "idle" THEN Load /\ buffer' = <<>> ELSE UNCHANGED <<req, buffer>>
    /\ UNCHANGED <<core, cache, es, cursor, pending, view, faults, excuses>>

\* onopen of the shared stream: abort the request in flight, buffer anew, fetch the
\* snapshot.
Open ==
    /\ link = "subscribed"
    /\ link' = "open"
    /\ wire' \in Attached
    /\ buffering' = TRUE /\ buffer' = <<>>
    /\ Load
    /\ UNCHANGED <<core, cache, es, cursor, pending, view, faults, excuses>>

\* handleNew, handleUpdate, handleEnded, handleResync.
Deliver ==
    /\ link = "open" /\ wire # <<>>
    /\ wire' = Tail(wire)
    /\ cursor' = TRUE
    /\ LET m == Head(wire)
       IN  \/ /\ m \in Events
              /\ IF buffering THEN buffer' = Append(buffer, m) /\ UNCHANGED pending
                 ELSE pending' = Append(pending, m) /\ UNCHANGED buffer
              /\ UNCHANGED <<req, buffering>>
           \/ /\ m = Resync
              /\ IF req["page"].pc = "idle" THEN Load /\ buffering' = TRUE
                 ELSE UNCHANGED <<req, buffering>>
              /\ UNCHANGED <<buffer, pending>>
    /\ UNCHANGED <<core, cache, es, link, view, faults, excuses>>

\* A heartbeat carries an id and nothing else.
Heartbeat ==
    /\ link = "open" /\ ~cursor
    /\ cursor' = TRUE
    /\ UNCHANGED <<core, cache, req, wire, es, link, store, faults, excuses>>

\* requestAnimationFrame: flushPendingApply.
Frame ==
    /\ pending # <<>>
    /\ view' = Fold(Apply, view, pending)
    /\ pending' = <<>>
    /\ UNCHANGED <<core, cache, req, wire, page, buffering, buffer, faults, excuses>>

\* The timer of an ended alert.
FadeOut(a) ==
    /\ view[a].fading
    /\ view' = [view EXCEPT ![a] = [row |-> NoRow, fading |-> FALSE]]
    /\ UNCHANGED <<core, cache, req, wire, page, buffering, buffer, pending,
                   faults, excuses>>

SnapshotEnds(v) ==
    /\ view' = Fold(Replay, v, buffer)
    /\ buffering' = FALSE /\ buffer' = <<>>
    /\ req' = [req EXCEPT !["page"] = NoReq]

\* doLoadSnapshot: the view is replaced, then the buffer replayed.
SnapshotOk ==
    /\ req["page"].pc = "done"
    /\ SnapshotEnds([a \in Alerts |-> [row |-> req["page"].body[a], fading |-> FALSE]])
    /\ failed' = FALSE
    /\ leftover' = (pending # <<>>)
    /\ UNCHANGED <<core, cache, wire, page, pending, faults, overtaken, misled, spared>>

\* Mutant of SnapshotFails: the buffer is kept for the next snapshot.
FailBuffering ==
    /\ req["page"].pc # "idle" /\ faults < MaxFaults
    /\ faults' = faults + 1
    /\ req' = [req EXCEPT !["page"] = NoReq]
    /\ failed' = TRUE
    /\ UNCHANGED <<core, cache, wire, page, store, overtaken, misled, spared, leftover>>

SnapshotFails ==
    /\ req["page"].pc # "idle" /\ faults < MaxFaults
    /\ faults' = faults + 1
    /\ SnapshotEnds(view)
    /\ failed' = TRUE
    /\ UNCHANGED <<core, cache, wire, page, pending, overtaken, misled, spared, leftover>>

\* retrySnapshot, a button.
RetrySnapshot ==
    /\ failed /\ req["page"].pc = "idle"
    /\ Load
    /\ buffering' = TRUE
    /\ UNCHANGED <<core, cache, wire, page, buffer, pending, view, faults, excuses>>

NextConn ==
    /\ es < MaxConns
    /\ es' = es + 1 /\ link' = "connecting" /\ wire' = <<>>
    /\ UNCHANGED <<core, cache, req, store, faults, excuses>>

\* The connection is lost or refused (onerror) and the browser connects the same
\* EventSource again, with Last-Event-ID if it has one.
Lose == NextConn /\ UNCHANGED cursor

\* No heartbeat in time: restart with a fresh EventSource.
Watchdog == NextConn /\ cursor' = FALSE

----------------------------------------------------------------------------
Next ==
    \/ \E w \in Posters, a \in Alerts : PostRow(w, a) \/ PostSame(w, a) \/ PostWithout(w, a)
    \/ \E a \in Alerts : Expires(a) \/ FadeOut(a)
    \/ Sweep
    \/ \E w \in Writers : Publish(w) \/ Abandon(w) \/ Invalidate(w)
    \/ \E r \in Readers : CacheGet(r) \/ ReadDb(r) \/ CachePut(r)
    \/ StartBridge
    \/ Open \/ Deliver \/ Heartbeat \/ Frame
    \/ SnapshotOk \/ SnapshotFails \/ RetrySnapshot
    \/ Lose \/ Watchdog

Spec == Init /\ [][Next]_vars

----------------------------------------------------------------------------
(* Properties.                                                             *)

TypeOK ==
    /\ db \in [Alerts -> [st : Statuses, rev : 0..MaxPosts, seen : 0..MaxPosts]]
    /\ writer \in [Writers -> [pc : {"idle", "publish", "invalidate"}, diff : Seq(Events),
                               wrote : SUBSET Alerts, behind : SUBSET Writers,
                               late : SUBSET Alerts]]
    /\ posts \in 0..MaxPosts
    /\ cache \in [gen : Nat \ {0}, entry : Bodies \cup {NoBody}]
    /\ req \in [Readers -> [pc : {"idle", "sent", "build", "put", "done"}, gen : Nat,
                            body : Bodies \cup {NoBody}]]
    /\ wire \in Seq(Messages)
    /\ es \in 1..MaxConns
    /\ link \in {"connecting", "subscribed", "open"}
    /\ cursor \in BOOLEAN
    /\ buffering \in BOOLEAN /\ buffer \in Seq(Events) /\ pending \in Seq(Events)
    /\ view \in [Alerts -> [row : Rows, fading : BOOLEAN]]
    /\ faults \in 0..MaxFaults
    /\ overtaken \in BOOLEAN /\ misled \subseteq Alerts /\ spared \subseteq Alerts
    /\ leftover \in BOOLEAN /\ failed \in BOOLEAN

\* What an unfinished writer has written, and will invalidate, or a failed one.
Doubtful == spared \cup UNION {writer[w].wrote : w \in Writers}

\* A cached body says of every alert what the database would answer now (rows whose time
\* has run out since aside), unless a writer that has committed a change of it has yet to
\* invalidate the cache or has failed before it did: the generation check of
\* response_cache.put keeps out a body that was read before a commit.
CacheFresh ==
    cache.entry # NoBody =>
        \A a \in Alerts \ Doubtful : cache.entry[a] = Active[a] \/ db[a].st = "due"

\* Nothing is under way between the core and the page.
Quiet ==
    /\ \A w \in Writers : writer[w].pc = "idle"
    /\ Due = {}
    /\ link = "open" /\ req["page"].pc = "idle" /\ ~buffering
    /\ wire = <<>> /\ pending = <<>>
    /\ \A a \in Alerts : ~view[a].fading

\* Once everything has arrived the page shows the alerts in force, in their latest
\* revision, unless one of five things happened: the snapshot came from the cache in
\* the moment between a publication and its invalidation, two writers published in the
\* other order than they committed, a writer failed after a commit and published nothing,
\* an animation frame applied events older than the snapshot, or the snapshot request
\* failed.
InSync ==
    (Quiet /\ ~overtaken /\ ~leftover /\ ~failed) =>
        \A a \in Alerts \ misled : view[a].row.rev = Active[a].rev

\* While the stream is open, events wait in the buffer only for a snapshot that is on
\* its way: neither an abort nor a failure leaves the page buffering for ever.
BufferDrains == (link = "open" /\ buffering) => req["page"].pc # "idle"

==============================================================================
