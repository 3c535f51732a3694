---------------------------- MODULE MeterEmitter ----------------------------
(***************************************************************************)
(* The metering pipeline up to the database: src/src/metering/emitter.ts   *)
(* (DrizzleMeterEmitter) with its write-ahead log (wal.ts), dead-letter    *)
(* queue (dlq.ts) and event table (meter-event-repository.ts).             *)
(*                                                                         *)
(* An action is what the event loop runs between two awaits.  Batches are  *)
(* sets of event ids: the order of the rows of a batch is not observable.  *)
(* Several flush() calls (timer, full buffer, replay, close) may be in     *)
(* flight; each is a member of Flushers.  A promise rejection nobody       *)
(* handles ends the process (Node's default), which is Crash.              *)
(***************************************************************************)
EXTENDS Integers, FiniteSets

CONSTANTS
    Events,             \* event ids
    Flushers,           \* flush() calls that may be in flight at once
    BatchSize,          \* buffer length that triggers a flush
    MaxRetries,         \* failures before an event is dead-lettered
    MaxCrashes,         \* bound on process deaths
    MaxFailures         \* bound on failing database and file operations

ASSUME EmitterAssumption ==
    /\ BatchSize \in Nat \ {0}
    /\ MaxRetries \in Nat \ {0}
    /\ MaxCrashes \in Nat
    /\ MaxFailures \in Nat

VARIABLES
    wal,        \* ids in the write-ahead log (disk)
    db,         \* ids in meter_events (database)
    dlq,        \* ids in the dead-letter file (disk)
    up,         \* is the process running?
    closed,     \* close() was called
    stage,      \* each event's emit(): new, called, logged, done, dropped
    buffer,     \* in-memory buffer
    retryCount, \* in-memory failures per event, 0 when absent from the map
    pc,         \* each flush(): idle, insert, remove, removeDead
    batch,      \* each flush()'s batch
    retry,      \* toRetry of a flush() that is removing dead events from the log
    todo,       \* WAL events the startup replay has still to look up
    fresh,      \* replayed events found missing from the database
    stale,      \* replayed events found in the database (existingIds)
    replay,     \* lookup, the flush() it awaits, cleanup, or done
    torn,       \* ghost: ids that a rewrite of the log cut short has lost
    crashes, failures

disk == <<wal, db, dlq, torn>>
memory == <<buffer, retryCount>>
flushing == <<pc, batch, retry>>
replaying == <<todo, fresh, stale, replay>>
bounds == <<crashes, failures>>
emitterVars == <<disk, up, closed, stage, memory, flushing, replaying, bounds>>

PCs == {"idle", "insert", "remove", "removeDead"}

EmitterInit ==
    /\ wal = {} /\ db = {} /\ dlq = {} /\ torn = {}
    /\ up = TRUE /\ closed = FALSE
    /\ stage = [e \in Events |-> "new"]
    /\ buffer = {}
    /\ retryCount = [e \in Events |-> 0]
    /\ pc = [f \in Flushers |-> "idle"]
    /\ batch = [f \in Flushers |-> {}]
    /\ retry = [f \in Flushers |-> {}]
    /\ todo = {} /\ fresh = {} /\ stale = {} /\ replay = "done"
    /\ crashes = 0 /\ failures = 0

-----------------------------------------------------------------------------
(* flush()                                                                  *)

\* flush() returns batch.length (ok) or 0 to a replay that awaits it.
FlushReturns(f, ok) ==
    replay' = IF replay = f THEN IF ok THEN "cleanup" ELSE "done" ELSE replay

\* batch = buffer.splice(0), up to the await of insertBatch.  The calls are
\* interchangeable: a new one is the first that is not in flight.
BeginFlush(f, content) ==
    /\ pc[f] = "idle" /\ f = CHOOSE g \in Flushers : pc[g] = "idle"
    /\ pc' = [pc EXCEPT ![f] = "insert"]
    /\ batch' = [batch EXCEPT ![f] = content]
    /\ buffer' = {}
    /\ UNCHANGED retry

\* The flush timer; close() clears it.
TimerFlush(f) ==
    /\ up /\ ~closed /\ buffer # {}
    /\ BeginFlush(f, buffer)
    /\ UNCHANGED <<disk, up, closed, stage, retryCount, replaying, bounds>>

\* The transaction of insertBatch commits: no id was there before.
InsertOk(f) ==
    /\ up /\ pc[f] = "insert"
    /\ batch[f] \cap db = {}
    /\ db' = db \cup batch[f]
    /\ pc' = [pc EXCEPT ![f] = "remove"]
    /\ UNCHANGED <<wal, dlq, torn, up, closed, stage, memory, batch, retry, replaying, bounds>>

\* The catch block up to its await: count the retries, dead-letter what has
\* used them up, and put the rest back at once when nothing is dead.
HandleFailure(f) ==
    LET tries(e) == retryCount[e] + 1
        dead == {e \in batch[f] : tries(e) >= MaxRetries}
    IN  /\ retryCount' = [e \in Events |-> CASE e \in dead -> 0
                                             [] e \in batch[f] \ dead -> tries(e)
                                             [] OTHER -> retryCount[e]]
        /\ dlq' = dlq \cup dead
        /\ IF dead = {}
             THEN /\ buffer' = batch[f] \cup buffer
                  /\ pc' = [pc EXCEPT ![f] = "idle"]
                  /\ batch' = [batch EXCEPT ![f] = {}]
                  /\ FlushReturns(f, FALSE)
                  /\ UNCHANGED retry
             ELSE /\ pc' = [pc EXCEPT ![f] = "removeDead"]
                  /\ batch' = [batch EXCEPT ![f] = dead]
                  /\ retry' = [retry EXCEPT ![f] = batch[f] \ dead]
                  /\ UNCHANGED <<buffer, replay>>

\* insertBatch throws: a primary key conflict aborts the whole transaction.
InsertConflict(f) ==
    /\ up /\ pc[f] = "insert"
    /\ batch[f] \cap db # {}
    /\ HandleFailure(f)
    /\ UNCHANGED <<wal, db, torn, up, closed, stage, todo, fresh, stale, bounds>>

\* insertBatch throws because the database failed, before or (the answer to
\* the COMMIT is lost) after the transaction took effect.
InsertFails(f) ==
    /\ up /\ pc[f] = "insert"
    /\ failures < MaxFailures
    /\ failures' = failures + 1
    /\ db' = db \/ (batch[f] \cap db = {} /\ db' = db \cup batch[f])
    /\ HandleFailure(f)
    /\ UNCHANGED <<wal, torn, up, closed, stage, todo, fresh, stale, crashes>>

\* wal.remove(flushedIds), retryCount.delete
RemoveFlushed(f) ==
    /\ up /\ pc[f] = "remove"
    /\ wal' = wal \ batch[f]
    /\ retryCount' = [e \in Events |-> IF e \in batch[f] THEN 0 ELSE retryCount[e]]
    /\ pc' = [pc EXCEPT ![f] = "idle"]
    /\ batch' = [batch EXCEPT ![f] = {}]
    /\ FlushReturns(f, TRUE)
    /\ UNCHANGED <<db, dlq, torn, up, closed, stage, buffer, retry, todo, fresh, stale, bounds>>

\* wal.remove throws inside the try block: the committed batch is handled as
\* if it had failed.
RemoveFlushedFails(f) ==
    /\ up /\ pc[f] = "remove"
    /\ failures < MaxFailures
    /\ failures' = failures + 1
    /\ HandleFailure(f)
    /\ UNCHANGED <<wal, db, torn, up, closed, stage, todo, fresh, stale, crashes>>

\* wal.remove(dlqIds), then the rest of the batch goes back to the buffer.
RemoveDead(f) ==
    /\ up /\ pc[f] = "removeDead"
    /\ wal' = wal \ batch[f]
    /\ buffer' = retry[f] \cup buffer
    /\ pc' = [pc EXCEPT ![f] = "idle"]
    /\ batch' = [batch EXCEPT ![f] = {}]
    /\ retry' = [retry EXCEPT ![f] = {}]
    /\ FlushReturns(f, FALSE)
    /\ UNCHANGED <<db, dlq, torn, up, closed, stage, retryCount, todo, fresh, stale, bounds>>

-----------------------------------------------------------------------------
(* emit() and close()                                                       *)

EmitCall(e) ==
    /\ up /\ ~closed
    /\ stage[e] = "new"
    /\ stage' = [stage EXCEPT ![e] = "called"]
    /\ UNCHANGED <<disk, up, closed, memory, flushing, replaying, bounds>>

\* wal.append once it has the log's mutex
EmitLog(e) ==
    /\ up /\ stage[e] = "called"
    /\ wal' = wal \cup {e}
    /\ stage' = [stage EXCEPT ![e] = "logged"]
    /\ UNCHANGED <<db, dlq, torn, up, closed, memory, flushing, replaying, bounds>>

\* buffer.push, and flush() when the batch is full
EmitBuffer(e) ==
    /\ up /\ stage[e] = "logged"
    /\ stage' = [stage EXCEPT ![e] = "done"]
    /\ IF Cardinality(buffer \cup {e}) >= BatchSize
         THEN \E f \in Flushers : BeginFlush(f, buffer \cup {e})
         ELSE buffer' = buffer \cup {e} /\ UNCHANGED flushing
    /\ UNCHANGED <<disk, up, closed, retryCount, replaying, bounds>>

\* close(): no more emits or timer, one last flush; the process exits later
\* (Crash), so a shutdown counts against the bound on deaths.
Close ==
    /\ up /\ ~closed
    /\ crashes < MaxCrashes
    /\ closed' = TRUE
    /\ IF buffer = {}
         THEN UNCHANGED <<buffer, flushing>>
         ELSE \E f \in Flushers : BeginFlush(f, buffer)
    /\ UNCHANGED <<disk, up, stage, retryCount, replaying, bounds>>

-----------------------------------------------------------------------------
(* Death, restart and replay                                                *)

\* Everything in memory is gone; an emit() that had not logged its event is
\* gone too, and its caller with it.
Die ==
    /\ up /\ crashes < MaxCrashes
    /\ crashes' = crashes + 1
    /\ up' = FALSE
    /\ stage' = [e \in Events |-> CASE stage[e] = "called" -> "dropped"
                                    [] stage[e] = "logged" -> "done"
                                    [] OTHER -> stage[e]]
    /\ buffer' = {}
    /\ retryCount' = [e \in Events |-> 0]
    /\ pc' = [f \in Flushers |-> "idle"]
    /\ batch' = [f \in Flushers |-> {}]
    /\ retry' = [f \in Flushers |-> {}]
    /\ todo' = {} /\ fresh' = {} /\ stale' = {} /\ replay' = "done"
    /\ UNCHANGED <<db, dlq, closed, failures>>

Crash == Die /\ UNCHANGED <<wal, torn>>

\* writeFileSync truncates the log before it writes the remaining events: a
\* process that dies in between leaves only a prefix of them.
CrashInRewrite(f) ==
    /\ pc[f] \in {"remove", "removeDead"}
    /\ Die
    /\ \E kept \in SUBSET (wal \ batch[f]) :
          /\ wal' = kept
          /\ torn' = torn \cup ((wal \ batch[f]) \ kept)

\* Mutation: the log is not replayed at startup.
RestartWithoutReplay ==
    /\ ~up
    /\ up' = TRUE /\ closed' = FALSE
    /\ replay' = "done"
    /\ UNCHANGED <<disk, stage, memory, flushing, todo, fresh, stale, bounds>>

\* new DrizzleMeterEmitter(): reads the log and starts the replay.
Restart ==
    /\ ~up
    /\ up' = TRUE /\ closed' = FALSE
    /\ todo' = wal
    /\ replay' = IF wal = {} THEN "done" ELSE "lookup"
    /\ UNCHANGED <<disk, stage, memory, flushing, fresh, stale, bounds>>

\* Mutation: the replay does not ask the database.
ReplayLookupSkipped(e) ==
    /\ up /\ replay = "lookup" /\ e \in todo
    /\ todo' = todo \ {e}
    /\ fresh' = fresh \cup {e}
    /\ UNCHANGED <<disk, up, closed, stage, memory, flushing, stale, replay, bounds>>

\* existsById for one event of the log; a database error here rejects the
\* replay, which is Crash.
ReplayLookup(e) ==
    /\ up /\ replay = "lookup" /\ e \in todo
    /\ todo' = todo \ {e}
    /\ IF e \in db
         THEN stale' = stale \cup {e} /\ UNCHANGED fresh
         ELSE fresh' = fresh \cup {e} /\ UNCHANGED stale
    /\ UNCHANGED <<disk, up, closed, stage, memory, flushing, replay, bounds>>

\* Every event of the log was looked up: buffer the missing ones and flush.
ReplayFlush ==
    /\ up /\ replay = "lookup" /\ todo = {} /\ fresh # {}
    /\ \E f \in Flushers :
          /\ BeginFlush(f, buffer \cup fresh)
          /\ replay' = f
    /\ fresh' = {}
    /\ UNCHANGED <<disk, up, closed, stage, retryCount, todo, stale, bounds>>

\* The log keeps nothing that the replay found in the database, unless the
\* flush it awaited returned 0.
ReplayCleanup ==
    /\ up
    /\ replay = "cleanup" \/ (replay = "lookup" /\ todo = {} /\ fresh = {})
    /\ replay' = "done"
    /\ stale' = {}
    /\ wal' = wal \ stale
    /\ UNCHANGED <<db, dlq, torn, up, closed, stage, memory, flushing, todo, fresh, bounds>>

Flush(f) ==
    \/ TimerFlush(f)
    \/ InsertOk(f)
    \/ InsertConflict(f)
    \/ RemoveFlushed(f)
    \/ RemoveDead(f)

Emit(e) == EmitLog(e) \/ EmitBuffer(e)

Replay == (\E e \in Events : ReplayLookup(e)) \/ ReplayFlush \/ ReplayCleanup

EmitterNext ==
    \/ \E f \in Flushers :
          Flush(f) \/ InsertFails(f) \/ RemoveFlushedFails(f) \/ CrashInRewrite(f)
    \/ \E e \in Events : EmitCall(e) \/ Emit(e)
    \/ Close
    \/ Crash
    \/ Restart
    \/ Replay

EmitterSpec == EmitterInit /\ [][EmitterNext]_emitterVars

-----------------------------------------------------------------------------
Stages == {"new", "called", "logged", "done", "dropped"}

EmitterTypeOK ==
    /\ wal \cup db \cup dlq \cup torn \cup buffer \cup todo \cup fresh \cup stale \subseteq Events
    /\ {up, closed} \subseteq BOOLEAN
    /\ stage \in [Events -> Stages]
    /\ retryCount \in [Events -> 0..(MaxRetries - 1)]
    /\ pc \in [Flushers -> PCs]
    /\ batch \in [Flushers -> SUBSET Events] /\ retry \in [Flushers -> SUBSET Events]
    /\ replay \in {"lookup", "cleanup", "done"} \cup Flushers
    /\ crashes \in 0..MaxCrashes /\ failures \in 0..MaxFailures

\* Once emit() has written an event to the log it is lost only when the process
\* dies while the log is being rewritten: no failed insert, failed file write,
\* dead-lettering, death elsewhere or replay loses one (wal.ts: "ensuring no
\* event is lost even if the process crashes before flush completes").
OnlyTornRewriteLoses ==
    \A e \in Events :
        stage[e] \in {"logged", "done"} => e \in wal \cup db \cup dlq \cup torn

\* The events some part of the running process still has to write.
InFlight == UNION {batch[f] \cup retry[f] : f \in Flushers}

InMemory == buffer \cup InFlight \cup todo \cup fresh \cup {e \in Events : stage[e] = "logged"}

\* While the process runs, an event that is only in the log is also in memory:
\* no failure path forgets it until the next restart.
LogIsTracked == up => wal \ (db \cup dlq) \subseteq InMemory

\* The process has at most one copy of an event to write, so a batch cannot
\* fail on a duplicate of its own making.
OneCopy ==
    /\ \A f \in Flushers :
          /\ (batch[f] \cup retry[f]) \cap (buffer \cup todo \cup fresh) = {}
          /\ batch[f] \cap retry[f] = {}
          /\ \A g \in Flushers \ {f} :
                (batch[f] \cup retry[f]) \cap (batch[g] \cup retry[g]) = {}
    /\ buffer \cap (todo \cup fresh) = {}
    /\ todo \cap fresh = {}

\* "On startup, unflushed WAL events are replayed idempotently": crashes and
\* replays alone never make an insert fail, let alone dead-letter an event.
ReplayIdempotent ==
    failures = 0 =>
        /\ dlq = {}
        /\ \A f \in Flushers : pc[f] = "insert" => batch[f] \cap db = {}

\* What the log is for, whatever fails, dies and is replayed: nothing it took is
\* lost but in a torn rewrite, forgotten, held twice or written twice.
EmitterSafe == EmitterTypeOK /\ OnlyTornRewriteLoses /\ LogIsTracked /\ OneCopy /\ ReplayIdempotent

\* Every logged event reaches the database or the dead-letter queue, or is
\* lost in a torn rewrite.
Settles == \A e \in Events : e \in wal ~> e \in db \cup dlq \cup torn

=============================================================================
