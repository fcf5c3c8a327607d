------------------------------- MODULE Shipper -------------------------------
(***************************************************************************)
(* The event shipper of one log stream (internal/topsrv/shipper): a        *)
(* bounded in-memory queue filled by the log collector, one goroutine (Run)*)
(* that batches events, sends batches over HTTP, spools on disk what it    *)
(* could not send, replays and trims the spool, and drains on shutdown.    *)
(*                                                                         *)
(* Events are numbered in the order they are offered; an event's content   *)
(* matters only through Malformed (json/v2 refuses it) and Poison (the     *)
(* receiver keeps failing on a batch that holds it).  The spool directory  *)
(* is the set of its files; names sort by batch id.                        *)
(***************************************************************************)
EXTENDS Naturals, Sequences, FiniteSets, Functions

CONSTANTS
    BatchSize,     \* Options.BatchSize; the queue holds twice as many
    MaxSpool,      \* Options.MaxSpoolMB, in events
    MaxTransient,  \* maxTransientPerRun
    IdsAscend,     \* FALSE: the ids of later batches need not be larger
    Malformed,     \* events that encodeBatch cannot marshal
    Poison,        \* events on which the receiver fails transiently for ever
    Faults,        \* which of FaultKinds the environment may inject
    CanCancel,     \* TRUE: the context of Run may be cancelled
    MaxEvents,     \* bound: events offered
    MaxRestarts    \* bound: process restarts

FaultKinds == {"write", "rename", "remove", "read", "reject", "foreign"}

ASSUME ConstantsAssumption ==
    /\ BatchSize \in Nat \ {0}
    /\ MaxSpool \in Nat
    /\ MaxTransient \in Nat \ {0}
    /\ IdsAscend \in BOOLEAN
    /\ Malformed \subseteq Nat
    /\ Poison \subseteq Nat
    /\ Faults \subseteq FaultKinds
    /\ CanCancel \in BOOLEAN
    /\ MaxEvents \in Nat
    /\ MaxRestarts \in Nat

VARIABLES
    \* the process
    pc,         \* where Run is: a step of the function it is executing
    stage,      \* "run", "drain" (shutdown), "overtime" (drain budget spent)
    queue,      \* p.queue
    batch,      \* the batch Run is filling
    cur,        \* the batch being flushed or the spool file being replayed
    todo,       \* files the loop of retrySpool or trimSpool has yet to visit
    fails,      \* transientFails of the current retrySpool
    cancelled,  \* ctx.Done() is closed
    collecting, \* the log collector still calls Enqueue
    \* the disk
    spool,      \* files matching *.ndjson.gz
    tmp,        \* files matching *.ndjson.gz.tmp
    \* the receiver and the history
    received,   \* batches the receiver has taken
    arrived,    \* number of events offered so far
    issued,     \* batch ids issued so far
    gone,       \* events given up, by what became of them
    restarts

memory   == <<queue, batch>>
loop     == <<todo, fails>>
life     == <<stage, cancelled, collecting>>
disk     == <<spool, tmp>>
world    == <<received, arrived, restarts>>
history  == <<world, issued, gone>>
vars     == <<pc, memory, cur, loop, life, disk, history>>

-----------------------------------------------------------------------------
(* Data *)

Events == 1..MaxEvents

\* A spool file or the payload of a request.  kind: "ours" a whole batch of
\* this agent, "torn" a partly written one, "foreign" what another user or a
\* symlink put in the directory (ownsSpoolFile is false).
File == [id : Nat, evs : Seq(Nat), kind : {"ours", "torn", "foreign"}]

NoFile      == [id |-> 0, evs |-> <<>>, kind |-> "ours"]
ForeignFile == [id |-> 0, evs |-> <<>>, kind |-> "foreign"]
Torn(f)     == [f EXCEPT !.kind = "torn"]

\* Why the agent gave an event up: the four reasons eventsTotal{dropped}
\* counts, a loss no counter shows, and the memory of a process that ended.
Fates == {"queue_full", "permanent", "spool_write", "spool_evict",
          "unreported", "exit"}

Give(why, evs) == gone' = [gone EXCEPT ![why] = @ \cup evs]

FileSize(f) == IF f.kind = "foreign" THEN 1 ELSE Len(f.evs)
TotalSize(S) == SumFunction([f \in S |-> FileSize(f)])

\* bug: names sorted in descending order
Newest(S) == {f \in S : \A g \in S : f.id >= g.id}

\* sort.Strings on the names, which begin with the batch id
Oldest(S) == {f \in S : \A g \in S : f.id <= g.id}

\* newBatchID: the clock in milliseconds and a random suffix, hence unique.  A
\* batch that is spooled has waited out a backoff before the next is made, so the
\* ids in the spool ascend, unless the clock steps back or the context is cancelled:
\* then nothing waits, and the suffix orders the batches of one millisecond.
NewIds ==
    LET free == 1..MaxEvents \ issued
    IN  {i \in free : IdsAscend => \A j \in free : i <= j}

EncodeFails(evs) == Range(evs) \cap Malformed # {}
IsPoison(f) == Range(f.evs) \cap Poison # {}

\* os.Remove, whose error the callers ignore
RemoveFile(f) ==
    \/ spool' = spool \ {f}
    \/ "remove" \in Faults /\ spool' = spool

\* the same of temporary files
RemoveTmp(S) ==
    \/ tmp' = tmp \ S
    \/ "remove" \in Faults /\ tmp' = tmp

\* bug: the loss is counted without looking at os.Remove's error
GiveRegardless(why, f) == Give(why, Range(f.evs))

\* the losses that follow the removal of f: none if the file is still there
GiveIfRemoved(why, f) ==
    IF spool' = spool THEN UNCHANGED gone ELSE Give(why, Range(f.evs))

\* where flush and flushFinal return to
Caller == IF stage = "run" THEN "select" ELSE "drain"

-----------------------------------------------------------------------------
(* The collector's side: Enqueue *)

Enqueue ==
    /\ collecting /\ pc # "dead" /\ arrived < MaxEvents
    /\ arrived' = arrived + 1
    /\ \/ /\ Len(queue) < 2 * BatchSize
          /\ queue' = Append(queue, arrived + 1)
          /\ UNCHANGED gone
       \/ /\ Len(queue) >= 2 * BatchSize
          /\ Give("queue_full", {arrived + 1})
          /\ UNCHANGED queue
    /\ UNCHANGED <<pc, batch, cur, received, issued, restarts, life, loop, disk>>

\* LogCollector.Run sees the same cancelled context, in its own time
CollectorStops ==
    /\ collecting /\ cancelled
    /\ collecting' = FALSE
    /\ UNCHANGED <<pc, stage, cur, cancelled, history, memory, loop, disk>>

-----------------------------------------------------------------------------
(* Run *)

\* cleanupSpoolTmp, refreshSpoolMetrics and the glob of the first retrySpool
Boot ==
    /\ pc = "boot"
    /\ RemoveTmp(tmp)
    /\ todo' = spool
    /\ fails' = 0
    /\ pc' = "retrySpool"
    /\ UNCHANGED <<cur, spool, history, life, memory>>

\* case ev := <-p.queue
TakeEvent ==
    /\ pc = "select" /\ queue # <<>>
    /\ batch' = Append(batch, Head(queue))
    /\ queue' = Tail(queue)
    /\ pc' = IF Len(batch) + 1 >= BatchSize THEN "flush" ELSE "select"
    /\ UNCHANGED <<cur, history, life, loop, disk>>

\* case <-ticker.C: a pass over the spool, then the flush of a partial batch
Tick ==
    /\ pc = "select"
    /\ todo' = spool
    /\ fails' = 0
    /\ pc' = "retrySpool"
    /\ UNCHANGED <<cur, history, life, memory, disk>>

\* case <-ctx.Done()
BeginDrain ==
    /\ pc = "select" /\ cancelled
    /\ stage' = "drain"
    /\ pc' = "drain"
    /\ UNCHANGED <<cur, cancelled, collecting, history, memory, loop, disk>>

-----------------------------------------------------------------------------
(* retrySpool and replayOne *)

\* bug: the pass gives up at the first file that fails
PassOverAtFirstFailure == todo = {} \/ fails > 0
\* bug: the number of failures of a pass is not limited
PassOverAtLastFile == todo = {}

PassOver == todo = {} \/ fails >= MaxTransient
Visiting == pc = "retrySpool" /\ ~PassOver

PassEnds ==
    /\ pc = "retrySpool" /\ PassOver
    /\ todo' = {}
    /\ fails' = 0
    /\ pc' = IF batch = <<>> THEN "select" ELSE "flush"
    /\ UNCHANGED <<cur, history, life, memory, disk>>

\* ownsSpoolFile is false: removed, counted as evicted, never forwarded
DiscardForeign ==
    /\ Visiting
    /\ \E f \in Oldest(todo) :
          /\ f.kind = "foreign"
          /\ todo' = todo \ {f}
          /\ RemoveFile(f)
    /\ UNCHANGED <<pc, cur, fails, tmp, history, life, memory>>

\* os.ReadFile fails: the file is removed and no counter moves
DiscardUnreadable ==
    /\ Visiting
    /\ \E f \in Oldest(todo) :
          /\ f.kind # "foreign" /\ "read" \in Faults
          /\ todo' = todo \ {f}
          /\ RemoveFile(f)
          /\ GiveIfRemoved("unreported", f)
    /\ UNCHANGED <<pc, cur, fails, tmp, issued, life, world, memory>>

\* send on a live context begins; on a cancelled one it fails at once
Replay ==
    /\ Visiting
    /\ \E f \in Oldest(todo) :
          /\ f.kind # "foreign"
          /\ todo' = todo \ {f}
          /\ IF cancelled
               THEN fails' = fails + 1 /\ UNCHANGED <<pc, cur>>
               ELSE cur' = f /\ pc' = "replaySend" /\ UNCHANGED fails
    /\ UNCHANGED <<history, life, memory, disk>>

\* send returns nil: the receiver took this batch, now or on an earlier try
Answered == cur \in received

ReplayAcked ==
    /\ pc = "replaySend" /\ Answered
    /\ RemoveFile(cur)
    /\ cur' = NoFile
    /\ pc' = "retrySpool"
    /\ UNCHANGED <<tmp, history, life, memory, loop>>

\* a permanent 4xx: discarded, and again no counter moves
ReplayRejected ==
    /\ pc = "replaySend" /\ "reject" \in Faults
    /\ RemoveFile(cur)
    /\ GiveIfRemoved("unreported", cur)
    /\ cur' = NoFile
    /\ pc' = "retrySpool"
    /\ UNCHANGED <<tmp, issued, life, world, memory, loop>>

\* refused, timed out, 408, 429, 5xx, or the answer of a taken batch is lost
ReplayFailed ==
    /\ pc = "replaySend"
    /\ fails' = fails + 1
    /\ cur' = NoFile
    /\ pc' = "retrySpool"
    /\ UNCHANGED <<todo, history, life, memory, disk>>

-----------------------------------------------------------------------------
(* flush, flushFinal, sendWithRetry *)

\* encodeBatch fails: logged, the batch is dropped and no counter moves
EncodeFailed ==
    /\ pc = "flush" /\ EncodeFails(batch)
    /\ Give("unreported", Range(batch))
    /\ batch' = <<>>
    /\ pc' = Caller
    /\ UNCHANGED <<queue, cur, issued, life, world, loop, disk>>

\* the batch gets its id; a send on a context that is already done fails
\* without a request, so a cancelled flush or an overtime flushFinal spools
Encode ==
    /\ pc = "flush" /\ ~EncodeFails(batch)
    /\ \E i \in NewIds :
          /\ cur' = [id |-> i, evs |-> batch, kind |-> "ours"]
          /\ issued' = issued \cup {i}
    /\ batch' = <<>>
    /\ pc' = IF stage = "overtime" \/ (stage = "run" /\ cancelled)
               THEN "spool" ELSE "send"
    /\ UNCHANGED <<queue, gone, life, world, loop, disk>>

Sending == pc \in {"send", "resend"}

Acked ==
    /\ Sending /\ Answered
    /\ cur' = NoFile
    /\ pc' = Caller
    /\ UNCHANGED <<history, life, memory, loop, disk>>

\* isPermanentFailure
Rejected ==
    /\ Sending /\ "reject" \in Faults
    /\ Give("permanent", Range(cur.evs))
    /\ cur' = NoFile
    /\ pc' = Caller
    /\ UNCHANGED <<issued, life, world, memory, loop, disk>>

\* bug: the second failure is logged and the batch forgotten
LogOnly == IF stage = "run" /\ pc = "send" THEN "backoff" ELSE Caller

RetryOrSpool == IF stage = "run" /\ pc = "send" THEN "backoff" ELSE "spool"

\* a transient failure: flush retries once after the backoff, flushFinal never
Failed ==
    /\ Sending
    /\ pc' = RetryOrSpool
    /\ UNCHANGED <<cur, history, life, memory, loop, disk>>

\* bug: the retry is sent under a new batch id
RetryRenamed ==
    \E i \in NewIds : cur' = [cur EXCEPT !.id = i] /\ issued' = issued \cup {i}

RetrySame == UNCHANGED <<cur, issued>>

\* the timer fires, or ctx.Done() ends the wait
Backoff ==
    /\ pc = "backoff"
    /\ pc' = IF cancelled THEN "spool" ELSE "resend"
    /\ RetrySame
    /\ UNCHANGED <<gone, life, world, memory, loop, disk>>

-----------------------------------------------------------------------------
(* spool and trimSpool *)

\* no SpoolDir, MkdirAll or the creation of the file fails: nothing on disk
SpoolRefused ==
    /\ pc = "spool" /\ "write" \in Faults
    /\ Give("spool_write", Range(cur.evs))
    /\ cur' = NoFile
    /\ pc' = Caller
    /\ UNCHANGED <<issued, life, world, memory, loop, disk>>

\* bug: the batch is written under its final name
CreateFinal(f) == spool' = spool \cup {Torn(f)} /\ UNCHANGED tmp

CreateTmp(f) == tmp' = tmp \cup {Torn(f)} /\ UNCHANGED spool

\* os.WriteFile(tmp) has created the file
SpoolCreate ==
    /\ pc = "spool"
    /\ CreateTmp(cur)
    /\ pc' = "write"
    /\ UNCHANGED <<cur, history, life, memory, loop>>

\* os.WriteFile fails part-way: the torn file stays until the next start
WriteFailed ==
    /\ pc = "write" /\ "write" \in Faults
    /\ Give("spool_write", Range(cur.evs))
    /\ cur' = NoFile
    /\ pc' = Caller
    /\ UNCHANGED <<issued, life, world, memory, loop, disk>>

Written ==
    /\ pc = "write"
    /\ tmp' = (tmp \ {Torn(cur)}) \cup {cur}
    /\ pc' = "rename"
    /\ UNCHANGED <<cur, spool, history, life, memory, loop>>

RenameFailed ==
    /\ pc = "rename" /\ "rename" \in Faults
    /\ RemoveTmp({cur})
    /\ Give("spool_write", Range(cur.evs))
    /\ cur' = NoFile
    /\ pc' = Caller
    /\ UNCHANGED <<spool, issued, life, world, memory, loop>>

\* the file takes its final name; trimSpool scans the directory
Renamed ==
    /\ pc = "rename"
    /\ tmp' = tmp \ {cur}
    /\ spool' = spool \cup {cur}
    /\ cur' = NoFile
    /\ todo' = spool'
    /\ pc' = "trim"
    /\ UNCHANGED <<fails, history, life, memory>>

\* bug: the next file is taken off the total before the total is compared
TrimmedAlmost == TotalSize(spool \ Oldest(todo)) <= MaxSpool \/ todo = {}

Trimmed == TotalSize(spool) <= MaxSpool \/ todo = {}

\* one round of trimSpool's loop while the total is over the budget
TrimOldest ==
    /\ pc = "trim" /\ ~Trimmed
    /\ \E f \in Oldest(todo) :
          /\ todo' = todo \ {f}
          /\ RemoveFile(f)
          /\ GiveIfRemoved("spool_evict", f)
    /\ UNCHANGED <<pc, cur, fails, tmp, issued, life, world, memory>>

TrimEnds ==
    /\ pc = "trim" /\ Trimmed
    /\ todo' = {}
    /\ pc' = Caller
    /\ UNCHANGED <<cur, fails, history, life, memory, disk>>

-----------------------------------------------------------------------------
(* drainAndFlushAll *)

\* bug: the queue is drained into one batch
NeverFull == FALSE

Full == Len(batch) >= BatchSize

\* bug: an empty batch does not end the loop
AnyChunk == Full \/ queue = <<>>

Chunk == batch # <<>> /\ (Full \/ queue = <<>>)

\* drainQueue
DrainEvent ==
    /\ pc = "drain" /\ ~Full /\ queue # <<>>
    /\ batch' = Append(batch, Head(queue))
    /\ queue' = Tail(queue)
    /\ UNCHANGED <<pc, cur, history, life, loop, disk>>

DrainChunk ==
    /\ pc = "drain" /\ Chunk
    /\ pc' = "flush"
    /\ UNCHANGED <<stage, cur, cancelled, collecting, history, memory, loop, disk>>

Stop ==
    /\ pc = "drain" /\ batch = <<>> /\ queue = <<>>
    /\ pc' = "stopped"
    /\ UNCHANGED <<cur, history, life, memory, loop, disk>>

-----------------------------------------------------------------------------
(* The environment *)

\* the receiver takes the batch of the request in flight
ReceiverTakes ==
    /\ pc \in {"send", "resend", "replaySend"}
    /\ ~IsPoison(cur)
    /\ received' = received \cup {cur}
    /\ UNCHANGED <<pc, cur, arrived, issued, gone, restarts, life, memory,
                   loop, disk>>

Cancel ==
    /\ CanCancel /\ pc # "dead" /\ ~cancelled
    /\ cancelled' = TRUE
    /\ UNCHANGED <<pc, stage, cur, collecting, history, memory, loop, disk>>

\* shutdownDrainBudget runs out
BudgetElapses ==
    /\ stage = "drain" /\ pc # "dead"
    /\ stage' = "overtime"
    /\ UNCHANGED <<pc, cur, cancelled, collecting, history, memory,
                   loop, disk>>

\* a batch in the memory of flush, not on disk under its final name
Flushing == pc \in {"send", "backoff", "resend", "spool", "write", "rename"}
InMemory == Range(queue) \cup Range(batch)
              \cup (IF Flushing THEN Range(cur.evs) ELSE {})

\* the process ends: after Run returned and the collector stopped, or at any
\* moment (SIGKILL, a panic, the os.Exit of an update)
ProcessEnds ==
    /\ pc # "dead"
    /\ restarts < MaxRestarts \/ (pc = "stopped" /\ ~collecting)
    /\ pc' = "dead"
    /\ Give("exit", InMemory)
    /\ queue' = <<>>
    /\ batch' = <<>>
    /\ cur' = NoFile
    /\ todo' = {}
    /\ fails' = 0
    /\ UNCHANGED <<issued, life, world, disk>>

\* systemd starts the agent again
Restart ==
    /\ pc = "dead" /\ restarts < MaxRestarts
    /\ restarts' = restarts + 1
    /\ pc' = "boot"
    /\ stage' = "run"
    /\ cancelled' = FALSE
    /\ collecting' = TRUE
    /\ UNCHANGED <<cur, received, arrived, issued, gone, memory, loop, disk>>

-----------------------------------------------------------------------------
Init ==
    /\ pc = "boot" /\ stage = "run"
    /\ queue = <<>> /\ batch = <<>> /\ cur = NoFile
    /\ todo = {} /\ fails = 0
    /\ cancelled = FALSE /\ collecting = TRUE
    /\ spool \in {{}} \cup {S \in {{ForeignFile}} : "foreign" \in Faults}
    /\ tmp = {}
    /\ received = {} /\ arrived = 0 /\ issued = {}
    /\ gone = [r \in Fates |-> {}]
    /\ restarts = 0

Flush == EncodeFailed \/ Encode \/ Acked \/ Rejected \/ Failed \/ Backoff

Spool == \/ SpoolRefused \/ SpoolCreate \/ WriteFailed \/ Written
         \/ RenameFailed \/ Renamed \/ TrimOldest \/ TrimEnds

RetrySpool == \/ PassEnds \/ DiscardForeign \/ DiscardUnreadable \/ Replay
              \/ ReplayAcked \/ ReplayRejected \/ ReplayFailed

Drain == DrainEvent \/ DrainChunk \/ Stop

\* a step of the goroutine of Run, the choice of select aside
Continue == Boot \/ RetrySpool \/ Flush \/ Spool \/ Drain

Run == TakeEvent \/ Tick \/ BeginDrain \/ Continue

Environment == \/ Enqueue \/ CollectorStops \/ ReceiverTakes \/ Cancel
               \/ BudgetElapses \/ ProcessEnds \/ Restart

Next == Run \/ Environment

Spec == Init /\ [][Next]_vars

(***************************************************************************)
(* Fairness.  The goroutine runs, every send ends by its timeout and every *)
(* timer fires: weak fairness.  A select with several ready cases picks    *)
(* one at random, so a case that is ready again and again is taken: strong *)
(* fairness of its three cases, and of the collector's own ctx.Done().     *)
(* The receiver answers what it can again and again.  main returns once    *)
(* every goroutine has, and a dead process is started again as long as the *)
(* bound allows.                                                           *)
(***************************************************************************)
FairSpec ==
    /\ Spec
    /\ WF_vars(Continue)
    /\ SF_vars(TakeEvent) /\ SF_vars(Tick) /\ SF_vars(BeginDrain)
    /\ SF_vars(CollectorStops)
    /\ SF_vars(ReceiverTakes) /\ SF_vars(ReplayAcked)
    /\ WF_vars(pc = "stopped" /\ ~collecting /\ ProcessEnds) /\ WF_vars(Restart)

-----------------------------------------------------------------------------
(* Properties *)

EventsOf(S) == UNION {Range(f.evs) : f \in S}
Stored    == EventsOf(spool)
Delivered == EventsOf(received)
Lost      == UNION {gone[r] : r \in Fates}

TypeOK ==
    /\ pc \in {"boot", "select", "retrySpool", "replaySend", "flush", "send",
               "backoff", "resend", "spool", "write", "rename", "trim",
               "drain", "stopped", "dead"}
    /\ stage \in {"run", "drain", "overtime"}
    /\ queue \in Seq(Nat) /\ batch \in Seq(Nat)
    /\ cur \in File
    /\ spool \subseteq File /\ tmp \subseteq File
    /\ todo \subseteq spool
    /\ received \subseteq File
    /\ fails \in 0..MaxTransient
    /\ cancelled \in BOOLEAN /\ collecting \in BOOLEAN
    /\ arrived \in Nat /\ restarts \in Nat
    /\ issued \subseteq Nat
    /\ gone \in [Fates -> SUBSET Nat]

\* Every event ever offered is in the memory of the pusher, in a whole file
\* of the spool, at the receiver, or given up for a recorded reason, whatever
\* fails or crashes between two steps of flush, spool and replay.
NothingVanishes == 1..arrived = InMemory \cup Stored \cup Delivered \cup Lost

\* An event given up is given up once, and does not come back: no counter of
\* eventsTotal{dropped} covers an event the pusher or the spool still holds.
GoneForGood ==
    /\ Lost \cap (InMemory \cup Stored) = {}
    /\ \A r, s \in Fates : r # s => gone[r] \cap gone[s] = {}

\* Retries, replays after a lost answer and replays after a crash all carry
\* the batch id of the first attempt: a receiver that keys on X-Batch-Id sees
\* every event under exactly one id, and one id never names two payloads.
OneBatchPerEvent ==
    \A r, s \in received :
        r.id = s.id \/ Range(r.evs) \cap Range(s.evs) # {} => r = s

\* What reaches the receiver is a whole batch this agent encoded, never
\* larger than BatchSize (also on shutdown), never a file torn by a crash or
\* one that somebody else put in the spool directory.
OnlyWholeBatches ==
    \A r \in received : r.kind = "ours" /\ Len(r.evs) \in 1..BatchSize

\* trimSpool brings the spool back within its budget after every batch spooled.
\* Only an end of the process between a rename and its trim leaves one batch
\* more, which no start removes before the next batch is spooled.
SpoolWithinBudget ==
    LET untrimmed == IF pc \in {"trim", "dead"} THEN restarts + 1 ELSE restarts
    IN  TotalSize(spool) <= MaxSpool + untrimmed * BatchSize

\* trimSpool gives up a batch only while the spool is over its budget, and
\* only one whose events all arrived before those of every batch it keeps.  This
\* takes ids that ascend: not after a clock that stepped back, nor among batches of
\* one millisecond, which a drain makes and the random suffix orders.
EvictsOldestOnly ==
    [][ gone'["spool_evict"] # gone["spool_evict"] =>
          /\ TotalSize(spool) > MaxSpool
          /\ \A f \in spool \ spool', g \in spool' :
                \A d \in Range(f.evs), e \in Range(g.evs) : d < e ]_vars

\* With a receiver that answers again and again, and fewer than MaxTransient
\* batches it cannot digest, every event is in the end delivered or given up:
\* none stays in the queue, in a partial batch or in the spool, unless the
\* agent is shut down and not started again.
EventsSettle ==
    \A e \in Events :
        e <= arrived ~> \/ e \in Delivered \cup Lost
                        \/ \E f \in spool : IsPoison(f) /\ e \in Range(f.evs)
                        \/ cancelled /\ restarts = MaxRestarts

\* A cancelled Run returns, whatever the receiver and the disk do.
ShutdownCompletes == cancelled ~> pc \in {"stopped", "dead"}
=============================================================================
