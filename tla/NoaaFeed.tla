------------------------------ MODULE NoaaFeed ------------------------------
(***************************************************************************)
(* NOAA's list of active alerts on its way into the core: the polling loop *)
(* of noaa_adapter (controller.go), and the core's intake of a POST        *)
(* (noaa_reciever, noaa_controller, intake/pipeline.gleam, alert_writer).  *)
(*                                                                         *)
(* A POST is one complete list.  The pipeline drops the revisions it has   *)
(* seen, writes the rest in chunks, one transaction each, and publishes    *)
(* the joint diff after the last.  The adapter's client gives up after a   *)
(* minute and the core does not notice, so two lists may be in hand.       *)
(*                                                                         *)
(* Alerts whose time has run out are the subject of AlertStream.           *)
(***************************************************************************)
EXTENDS Naturals, FiniteSets

CONSTANTS
    Alerts,       \* alerts NOAA may list
    Handlers,     \* requests the core can have in hand
    ChunkSize,    \* chunk_size
    MaxRev,       \* bound on the revisions of an alert
    MaxVersions,  \* bound on the versions of the list
    MaxFaults     \* bound on failures, of whatever kind

Nobody == "nobody"

ASSUME SetsAssumption == IsFiniteSet(Alerts) /\ IsFiniteSet(Handlers) /\ Nobody \notin Handlers
ASSUME BoundsAssumption == /\ ChunkSize \in Nat \ {0} /\ MaxRev \in Nat \ {0}
                           /\ MaxVersions \in Nat /\ MaxFaults \in Nat

VARIABLES
    feed,      \* revision listed for an alert, 0 for none
    latest,    \* the last revision issued of an alert
    version,   \* what ETag and Last-Modified identify
    validator, \* etag and lastModified of the adapter
    phase,     \* of the polling loop
    got,       \* the list it has in hand
    owner,     \* the handler it waits for
    job,       \* requests in hand
    db,        \* sea.alert, rows of NOAA
    seen,      \* SeenSet
    told,      \* revision shown to the subscribers of the hub
    faults,
    \* history
    mirrored,  \* the list that was last taken without interference, if any
    raced,     \* alerts whose insert lost to that of another transaction
    behind     \* alerts of which subscribers may have missed a change

source == <<feed, latest, version>>
adapter == <<validator, phase, got, owner>>
vars == <<source, adapter, job, db, seen, told, faults, mirrored, raced, behind>>

Revs == 0..MaxRev
Lists == [Alerts -> Revs]
NoList == <<>>

\* A diff gives the alerts it names their new revision, 0 to those that ended.
Diffs == UNION {[d -> Revs] : d \in SUBSET Alerts}
NoDiff == <<>>

Idle == [pc |-> "idle", list |-> [a \in Alerts |-> 0], left |-> {}, chunk |-> {},
         present |-> {}, diff |-> NoDiff, wrote |-> FALSE, alone |-> FALSE]

----------------------------------------------------------------------------
Init ==
    /\ feed = [a \in Alerts |-> 0] /\ latest = feed /\ version = 1
    /\ validator = 0 /\ phase = "poll" /\ got = feed /\ owner = Nobody
    /\ job = [h \in Handlers |-> Idle]
    /\ db = [a \in Alerts |-> [st |-> "absent", rev |-> 0]]
    /\ seen = {}
    /\ told = [a \in Alerts |-> 0]
    /\ faults = 0
    /\ mirrored = NoList /\ raced = {} /\ behind = {}

Fault == faults < MaxFaults /\ faults' = faults + 1

----------------------------------------------------------------------------
(* NOAA.                                                                   *)

\* An alert is issued, revised, taken from the list, or listed again.
Change(a) ==
    /\ version < MaxVersions
    /\ version' = version + 1
    /\ \E r \in {0, latest[a], latest[a] + 1} \cap Revs :
         /\ r # feed[a]
         /\ feed' = [feed EXCEPT ![a] = r]
         /\ latest' = [latest EXCEPT ![a] = IF r = 0 THEN @ ELSE r]
    /\ UNCHANGED <<adapter, job, db, seen, told, faults, mirrored, raced, behind>>

----------------------------------------------------------------------------
(* The adapter.                                                            *)

\* A 200 answer: the validators are kept before the list is sent.  A failed request is
\* repeated after a delay; a 304 is forwarded as an empty list that changes nothing.
Poll ==
    /\ phase = "poll" /\ validator # version
    /\ validator' = version
    /\ got' = feed
    /\ phase' = "post"
    /\ UNCHANGED <<source, owner, job, db, seen, told, faults, mirrored, raced, behind>>

\* The POST does not reach the core.  It is logged and not repeated.
Refused ==
    /\ phase = "post" /\ Fault
    /\ phase' = "poll"
    /\ mirrored' = NoList
    /\ UNCHANGED <<source, validator, got, owner, job, db, seen, told, raced, behind>>

\* The client gives up on an answer.
TimeOut ==
    /\ phase = "wait" /\ Fault
    /\ phase' = "poll" /\ owner' = Nobody
    /\ UNCHANGED <<source, validator, got, job, db, seen, told, mirrored, raced, behind>>

AdapterRestart ==
    /\ Fault
    /\ validator' = 0 /\ phase' = "poll" /\ owner' = Nobody
    /\ UNCHANGED <<source, got, job, db, seen, told, mirrored, raced, behind>>

\* The adapter hears from handler h, if it still listens.
Answer(h) ==
    IF owner = h THEN phase' = "poll" /\ owner' = Nobody /\ UNCHANGED <<validator, got>>
    ELSE UNCHANGED adapter

----------------------------------------------------------------------------
(* The core.                                                               *)

Listed(l) == {a \in Alerts : l[a] # 0}
Unseen(l) == {a \in Listed(l) : <<a, l[a]>> \notin seen}

Begin(h, l) ==
    job' = [o \in Handlers |->
              IF o = h THEN [Idle EXCEPT !.pc = IF Unseen(l) = {} THEN "publish" ELSE "load",
                                         !.list = l, !.left = Unseen(l),
                                         !.alone = \A p \in Handlers \ {h} : job[p].pc = "idle"]
              ELSE [job[o] EXCEPT !.alone = FALSE]]

\* Mutant of Receive: the revisions are marked when they are received.
ReceiveMarking(h) ==
    /\ phase = "post" /\ job[h].pc = "idle"
    /\ phase' = "wait" /\ owner' = h
    /\ Begin(h, got)
    /\ seen' = seen \cup {<<a, got[a]>> : a \in Listed(got)}
    /\ mirrored' = NoList
    /\ UNCHANGED <<source, validator, got, db, told, faults, raced, behind>>

\* noaa_data_handler up to the first chunk.  A feature that cannot be decoded is not
\* in the list as the core sees it.
Receive(h) ==
    /\ phase = "post" /\ job[h].pc = "idle"
    /\ phase' = "wait" /\ owner' = h
    /\ \/ Begin(h, got) /\ UNCHANGED faults
       \/ /\ Fault
          /\ \E a \in Listed(got) : Begin(h, [got EXCEPT ![a] = 0])
    /\ mirrored' = NoList
    /\ UNCHANGED <<source, validator, got, db, seen, told, raced, behind>>

Present == {a \in Alerts : db[a].st # "absent"}
Active == {a \in Alerts : db[a].st = "active"}

\* Rows that a transaction locks when it loads, and when it writes.
Locked(h) == IF job[h].pc = "write" THEN job[h].present ELSE {}
Free(h, rows) == \A o \in Handlers \ {h} : Locked(o) \cap rows = {}
ToWrite(h) == (Listed(job[h].list) \cap Present) \cup (Active \ Listed(job[h].list))

Chunks(h) == {c \in SUBSET job[h].left :
                Cardinality(c) = IF Cardinality(job[h].left) < ChunkSize
                                 THEN Cardinality(job[h].left) ELSE ChunkSize}

\* Mutant of Load: everything in one transaction.
LoadAll(h) ==
    /\ job[h].pc = "load"
    /\ LET present == Listed(job[h].list) \cap Present
       IN  /\ Free(h, present)
           /\ job' = [job EXCEPT ![h].pc = "write", ![h].chunk = job[h].left, ![h].present = present]
    /\ UNCHANGED <<source, adapter, db, seen, told, faults, mirrored, raced, behind>>

\* load_current: SELECT ... FOR UPDATE of all rows the list names.
Load(h) ==
    /\ job[h].pc = "load"
    /\ LET present == Listed(job[h].list) \cap Present
       IN  /\ Free(h, present)
           /\ \E c \in Chunks(h) :
                job' = [job EXCEPT ![h].pc = "write", ![h].chunk = c, ![h].present = present]
    /\ UNCHANGED <<source, adapter, db, seen, told, faults, mirrored, raced, behind>>

\* insert_new: ON CONFLICT DO NOTHING.
Inserted(h) == job[h].chunk \ (job[h].present \cup Present)
Lost(h) == (job[h].chunk \ job[h].present) \cap Present
\* update_existing.
Updated(h) == {a \in job[h].chunk \cap job[h].present : job[h].list[a] > db[a].rev}
\* revive, of all that are listed, and sweep_missing, of all that are not.
Revived(h) == {a \in Listed(job[h].list) \ Updated(h) : db[a].st = "withdrawn"}
Missing(h) == Active \ Listed(job[h].list)

Written(h, missing) ==
    [a \in Alerts |->
       IF a \in Inserted(h) \cup Updated(h) THEN [st |-> "active", rev |-> job[h].list[a]]
       ELSE IF a \in Revived(h) THEN [db[a] EXCEPT !.st = "active"]
       ELSE IF a \in missing THEN [db[a] EXCEPT !.st = "withdrawn"]
       ELSE db[a]]

Joined(h, revived, missing) ==
    LET written == Inserted(h) \cup Updated(h)
    IN  [a \in DOMAIN job[h].diff \cup written \cup revived \cup missing |->
           IF a \in written THEN job[h].list[a]
           ELSE IF a \in revived THEN db[a].rev
           ELSE IF a \in missing THEN 0
           ELSE job[h].diff[a]]

\* write_batch_tx commits and the chunk is marked as seen.
Transact(h, revived, missing) ==
    /\ job[h].pc = "write"
    /\ Free(h, ToWrite(h))
    /\ db' = Written(h, missing)
    /\ seen' = seen \cup {<<a, job[h].list[a]>> : a \in job[h].chunk}
    /\ raced' = raced \cup Lost(h)
    /\ LET left == job[h].left \ job[h].chunk
       IN  job' = [job EXCEPT ![h].pc = IF left = {} THEN "publish" ELSE "load",
                              ![h].left = left, ![h].chunk = {}, ![h].present = {},
                              ![h].diff = Joined(h, revived, missing), ![h].wrote = TRUE]
    /\ UNCHANGED <<source, adapter, told, faults, mirrored, behind>>

\* Mutants of Write: the sweep knows only the chunk; a revival is not in the diff.
WriteSweepingChunk(h) == Transact(h, Revived(h), Active \ job[h].chunk)
WriteSilently(h) == Transact(h, {}, Missing(h))

Write(h) == Transact(h, Revived(h), Missing(h))

Differs(h) == DOMAIN job[h].diff

\* A transaction fails, by itself or as the victim of a deadlock: no later chunk is
\* tried, and the diff of the earlier ones is not published.
WriteFails(h) ==
    /\ job[h].pc \in {"load", "write"}
    /\ \/ Fault
       \/ /\ \E o \in Handlers \ {h} : /\ Locked(o) \cap ToWrite(h) # {}
                                       /\ Locked(h) \cap ToWrite(o) # {}
          /\ UNCHANGED faults
    /\ job' = [job EXCEPT ![h] = Idle]
    /\ behind' = behind \cup Differs(h)
    /\ Answer(h)
    /\ UNCHANGED <<source, db, seen, told, mirrored, raced>>

\* alert_hub.publish of what all chunks have changed, and the answer.
Publish(h) ==
    /\ job[h].pc = "publish"
    /\ told' = [a \in Alerts |-> IF a \in Differs(h) THEN job[h].diff[a] ELSE told[a]]
    /\ behind' = IF job[h].alone THEN behind \ Differs(h) ELSE behind \cup Differs(h)
    /\ mirrored' = IF owner = h /\ job[h].alone /\ job[h].wrote THEN job[h].list ELSE NoList
    /\ job' = [job EXCEPT ![h] = Idle]
    /\ Answer(h)
    /\ UNCHANGED <<source, db, seen, faults, raced>>

\* The entry's time to live is over.
SeenExpires(a, r) ==
    /\ <<a, r>> \in seen
    /\ seen' = seen \ {<<a, r>>}
    /\ UNCHANGED <<source, adapter, job, db, told, faults, mirrored, raced, behind>>

\* The seen set is in memory; subscribers come back and read the table.
CoreRestart ==
    /\ Fault
    /\ job' = [h \in Handlers |-> Idle]
    /\ seen' = {}
    /\ told' = [a \in Alerts |-> IF a \in Active THEN db[a].rev ELSE 0]
    /\ behind' = {}
    /\ IF phase = "wait" THEN phase' = "poll" /\ owner' = Nobody /\ UNCHANGED <<validator, got>>
       ELSE UNCHANGED adapter
    /\ UNCHANGED <<source, db, mirrored, raced>>

----------------------------------------------------------------------------
Next ==
    \/ \E a \in Alerts : Change(a) \/ \E r \in 1..MaxRev : SeenExpires(a, r)
    \/ Poll \/ Refused \/ TimeOut \/ AdapterRestart
    \/ \E h \in Handlers : Receive(h) \/ Load(h) \/ Write(h) \/ WriteFails(h) \/ Publish(h)
    \/ CoreRestart

Spec == Init /\ [][Next]_vars

----------------------------------------------------------------------------
(* Properties.                                                             *)

JobOK(j) ==
    /\ j.pc \in {"idle", "load", "write", "publish"}
    /\ j.list \in Lists /\ j.diff \in Diffs
    /\ j.left \subseteq Listed(j.list) /\ j.chunk \subseteq j.left
    /\ Cardinality(j.chunk) <= ChunkSize
    /\ j.present \subseteq Listed(j.list)
    /\ j.wrote \in BOOLEAN /\ j.alone \in BOOLEAN

TypeOK ==
    /\ feed \in Lists /\ latest \in Lists /\ got \in Lists
    /\ version \in 1..(MaxVersions + 1) /\ validator \in 0..version
    /\ phase \in {"poll", "post", "wait"} /\ owner \in Handlers \cup {Nobody}
    /\ DOMAIN job = Handlers /\ \A h \in Handlers : JobOK(job[h])
    /\ db \in [Alerts -> [st : {"absent", "active", "withdrawn"}, rev : Revs]]
    /\ seen \subseteq Alerts \X (1..MaxRev)
    /\ told \in Lists
    /\ faults \in 0..MaxFaults
    /\ mirrored \in Lists \cup {NoList}
    /\ raced \subseteq Alerts /\ behind \subseteq Alerts

\* A revision counts as seen only when the table has it or a later one, whatever chunk
\* failed in between (pipeline.gleam marks a chunk after its write); an insert that lost
\* the race with another one's is the exception.
SeenStored == \A a \in Alerts \ raced, r \in 1..MaxRev : <<a, r>> \in seen => db[a].rev >= r

\* When the core has taken a list of which it had to write anything, with no other list in
\* hand, the table is that list: what is listed is active in the revision listed, also
\* what the seen set had filtered out, and nothing else is.
MirrorsList ==
    mirrored # NoList =>
        \A a \in Alerts \ raced :
            /\ db[a].st = "active" <=> mirrored[a] # 0
            /\ mirrored[a] # 0 => db[a].rev = mirrored[a]

\* With nothing in hand, subscribers have been told of every row as it is, except those
\* that were written by two lists at once or by chunks before one that failed.
SubscribersTold ==
    (\A h \in Handlers : job[h].pc = "idle") =>
        \A a \in Alerts \ behind : told[a] = IF a \in Active THEN db[a].rev ELSE 0

=============================================================================
