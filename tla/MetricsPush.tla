----------------------------- MODULE MetricsPush -----------------------------
(***************************************************************************)
(* The metrics pusher (internal/topsrv/push.go) and the package collector  *)
(* (internal/topsrv/packages) whose inventory it ships.  One goroutine     *)
(* replays the spool, gathers a sample of all metrics, sends or spools it, *)
(* and posts the snapshots the collector holds ready; another scans the    *)
(* package databases and replaces those snapshots under a mutex.           *)
(*                                                                         *)
(* An item is a pair: <<n, 0>> is the n-th sample gathered, <<k, m>> what  *)
(* the k-th scan found out about package manager m.                        *)
(***************************************************************************)
EXTENDS Naturals, FiniteSets

CONSTANTS
    Managers,          \* package managers: numbers above 0
    pushMaxSpoolSize,
    Poison,            \* items the receiver refuses whenever they are sent
    Faults,            \* which of FaultKinds may occur
    CanCancel,         \* TRUE: the context may be cancelled
    MaxSamples,        \* bound: samples gathered
    MaxScans,          \* bound: scans
    MaxRestarts        \* bound: process restarts

FaultKinds == {"gather", "write", "remove", "read", "scan"}

ASSUME PushAssumption ==
    /\ Managers \subseteq Nat \ {0}
    /\ pushMaxSpoolSize \in Nat
    /\ Poison \subseteq Nat \X Nat
    /\ Faults \subseteq FaultKinds
    /\ CanCancel \in BOOLEAN
    /\ MaxSamples \in Nat /\ MaxScans \in Nat /\ MaxRestarts \in Nat

VARIABLES
    \* the pusher
    pc,         \* where Run is
    stage,      \* the call it is in: "start" (retrySpool), "push", "flush"
    cur,        \* the file or payload in hand
    dir,        \* where a payload that cannot be sent is spooled
    todo,       \* files the loop of retrySpool or spoolFile has yet to visit
    outgoing,   \* payloads sendInventory has yet to post
    cancelled,  \* ctx.Done() is closed
    \* the package collector
    pending,    \* c.pending
    scans,      \* scans so far, over all processes
    \* the disk
    spool,      \* the files of SpoolDir and SpoolDir/inventory
    clock,      \* the milliseconds of the last name given
    \* the receiver and the history
    received,   \* items the receiver has taken
    made,       \* items gathered or found by a scan
    dropped,    \* items given up, by what became of them
    posted,     \* payloads posted
    stuck,      \* files that os.Remove could not remove
    restarts

pusher    == <<pc, stage, cur, dir, todo, outgoing>>
collector == <<pending, scans>>
disk      == <<spool, clock>>
history   == <<made, posted, stuck>>
vars      == <<pusher, cancelled, collector, disk, received, history, dropped,
               restarts>>

-----------------------------------------------------------------------------
(* Data *)

Item == Nat \X Nat
Dirs == {"metrics", "inventory"}

\* <unixms>.gz or packages-<unixms>.json; whole is FALSE for a file whose
\* write failed or was cut short
File == [name : Nat, item : Item, whole : BOOLEAN]

Payload(i) == [name |-> 0, item |-> i, whole |-> TRUE]
Nothing == Payload(<<0, 0>>)

Fates == {"write", "trimmed", "unreadable", "overwritten", "superseded", "exit"}

Drop(why, items) == dropped' = [dropped EXCEPT ![why] = @ \cup items]

\* the items that only their file holds
Held(files) == {f.item : f \in {g \in files : g.whole}}

\* bug: names sorted in descending order
Newest(files) == {f \in files : \A g \in files : f.name >= g.name}

\* sort.Strings
Oldest(files) == {f \in files : \A g \in files : f.name <= g.name}

\* bug: one file too many is kept
ExcessButOne(files) ==
    {f \in files :
        Cardinality({g \in files : g.name > f.name}) > pushMaxSpoolSize}

\* files[:len(files)-pushMaxSpoolSize]
Excess(files) ==
    {f \in files :
        Cardinality({g \in files : g.name > f.name}) >= pushMaxSpoolSize}

\* os.Remove, whose error nobody looks at
Remove(d, f) ==
    \/ spool' = [spool EXCEPT ![d] = @ \ {f}] /\ UNCHANGED stuck
    \/ "remove" \in Faults /\ stuck' = stuck \cup {f} /\ UNCHANGED spool

Refused(f) == ~f.whole \/ f.item \in Poison

\* bug: Flush posts the inventory too
AlwaysInventory == "inventory"

\* after the sample of this call is sent or spooled
AfterSample == IF stage = "flush" THEN "stopped" ELSE "inventory"
AfterSpool  == IF dir = "metrics" THEN AfterSample ELSE "post"
AfterReplay == IF stage = "start" THEN "select" ELSE "gather"

-----------------------------------------------------------------------------
(* Run and retrySpool *)

\* bug: the spool is replayed by a new process only
ListedAtStart(s) == IF s = "start" THEN spool["metrics"] ELSE {}

\* filepath.Glob
Listed(s) == spool["metrics"]

BeginReplay(s) ==
    /\ stage' = s
    /\ pc' = "replay"
    /\ todo' = Listed(s)
    /\ UNCHANGED <<cur, dir, outgoing, cancelled, collector, disk, received,
                   history, dropped, restarts>>

Boot  == pc = "boot" /\ BeginReplay("start")
Tick  == pc = "select" /\ BeginReplay("push")
Flush == pc = "select" /\ cancelled /\ BeginReplay("flush")

ReplayEnds ==
    /\ pc = "replay" /\ todo = {}
    /\ pc' = AfterReplay
    /\ UNCHANGED <<stage, cur, dir, todo, outgoing, cancelled, collector, disk,
                   received, history, dropped, restarts>>

\* a file that cannot be read is removed
Discard ==
    /\ pc = "replay" /\ "read" \in Faults
    /\ \E f \in Oldest(todo) :
          /\ Remove("metrics", f)
          /\ todo' = todo \ {f}
          /\ Drop("unreadable", Held(spool["metrics"]) \ Held(spool'["metrics"]))
    /\ UNCHANGED <<pc, stage, cur, dir, outgoing, cancelled, collector, clock,
                   received, made, posted, restarts>>

Replay ==
    /\ pc = "replay"
    /\ \E f \in Oldest(todo) : cur' = f
    /\ pc' = "resend"
    /\ UNCHANGED <<stage, dir, todo, outgoing, cancelled, collector, disk,
                   received, history, dropped, restarts>>

Answered == ~Refused(cur) /\ cur.item \in received

Resent ==
    /\ pc = "resend" /\ Answered
    /\ Remove("metrics", cur)
    /\ todo' = todo \ {cur}
    /\ cur' = Nothing
    /\ pc' = "replay"
    /\ UNCHANGED <<stage, dir, outgoing, cancelled, collector, clock,
                   received, made, posted, dropped, restarts>>

\* whatever the error, the pass ends
ResendFails ==
    /\ pc = "resend"
    /\ todo' = {}
    /\ cur' = Nothing
    /\ pc' = "replay"
    /\ UNCHANGED <<stage, dir, outgoing, cancelled, collector, disk,
                   received, history, dropped, restarts>>

-----------------------------------------------------------------------------
(* push and Flush: gather and send *)

Gather ==
    /\ pc = "gather"
    /\ \E n \in 1..MaxSamples :
          /\ <<n, 0>> \notin made /\ (n = 1 \/ <<n - 1, 0>> \in made)
          /\ made' = made \cup {<<n, 0>>}
          /\ cur' = Payload(<<n, 0>>)
    /\ pc' = "send"
    /\ dir' = "metrics"
    /\ UNCHANGED <<stage, todo, outgoing, cancelled, collector, disk, received,
                   posted, stuck, dropped, restarts>>

\* push and Flush return
GatherFails ==
    /\ pc = "gather"
    /\ "gather" \in Faults
    /\ pc' = IF stage = "flush" THEN "stopped" ELSE "select"
    /\ UNCHANGED <<stage, cur, dir, todo, outgoing, cancelled, collector, disk,
                   received, history, dropped, restarts>>

\* the bound: samples beyond MaxSamples are sent, taken and not told apart
GatherMore ==
    /\ pc = "gather" /\ <<MaxSamples, 0>> \in made
    /\ pc' = AfterSample
    /\ UNCHANGED <<stage, cur, dir, todo, outgoing, cancelled, collector, disk,
                   received, history, dropped, restarts>>

Sent ==
    /\ pc = "send" /\ Answered
    /\ cur' = Nothing
    /\ pc' = AfterSample
    /\ UNCHANGED <<stage, dir, todo, outgoing, cancelled, collector, disk,
                   received, history, dropped, restarts>>

\* bug: the sample is forgotten and the next one sent in its place
Forget == AfterSample

Unsent == "spool"

SendFails ==
    /\ pc = "send"
    /\ pc' = Unsent
    /\ UNCHANGED <<stage, cur, dir, todo, outgoing, cancelled, collector, disk,
                   received, history, dropped, restarts>>

-----------------------------------------------------------------------------
(* spoolFile *)

\* os.MkdirAll fails, or there is no SpoolDir
SpoolRefused ==
    /\ pc = "spool" /\ "write" \in Faults
    /\ Drop("write", {cur.item})
    /\ cur' = Nothing
    /\ pc' = AfterSpool
    /\ UNCHANGED <<stage, dir, todo, outgoing, cancelled, collector, disk,
                   received, history, restarts>>

\* os.WriteFile creates the file or empties one of the same millisecond
Create ==
    /\ pc = "spool"
    /\ \E t \in {clock + 1} \cup ({clock} \cap {f.name : f \in spool[dir]}) :
          LET old  == {f \in spool[dir] : f.name = t}
              torn == [cur EXCEPT !.name = t, !.whole = FALSE]
          IN  /\ clock' = t
              /\ cur' = torn
              /\ spool' = [spool EXCEPT ![dir] = (@ \ old) \cup {torn}]
              /\ Drop("overwritten", Held(old))
    /\ pc' = "write"
    /\ UNCHANGED <<stage, dir, todo, outgoing, cancelled, collector, received,
                   history, restarts>>

\* what was written stays, and nothing is trimmed
WriteFails ==
    /\ pc = "write" /\ "write" \in Faults
    /\ Drop("write", {cur.item})
    /\ cur' = Nothing
    /\ pc' = AfterSpool
    /\ UNCHANGED <<stage, dir, todo, outgoing, cancelled, collector, disk,
                   received, history, restarts>>

Write ==
    /\ pc = "write"
    /\ LET whole == [cur EXCEPT !.whole = TRUE]
       IN  spool' = [spool EXCEPT ![dir] = (@ \ {cur}) \cup {whole}]
    /\ todo' = Excess(spool'[dir])
    /\ cur' = Nothing
    /\ pc' = "trim"
    /\ UNCHANGED <<stage, dir, outgoing, cancelled, collector, clock, received,
                   history, dropped, restarts>>

Trim ==
    /\ pc = "trim"
    /\ \E f \in Oldest(todo) :
          /\ Remove(dir, f)
          /\ todo' = todo \ {f}
          /\ Drop("trimmed", Held(spool[dir]) \ Held(spool'[dir]))
    /\ UNCHANGED <<pc, stage, cur, dir, outgoing, cancelled, collector, clock,
                   received, made, posted, restarts>>

TrimEnds ==
    /\ pc = "trim" /\ todo = {}
    /\ pc' = AfterSpool
    /\ UNCHANGED <<stage, cur, dir, todo, outgoing, cancelled, collector, disk,
                   received, history, dropped, restarts>>

-----------------------------------------------------------------------------
(* sendInventory *)

\* bug: the buffer is handed out and kept
Kept == pending

Emptied == {}

\* Inventory
TakeInventory ==
    /\ pc = "inventory"
    /\ outgoing' = pending
    /\ pending' = Emptied
    /\ pc' = "post"
    /\ UNCHANGED <<stage, cur, dir, todo, cancelled, scans, disk, received,
                   history, dropped, restarts>>

Post ==
    /\ pc = "post"
    /\ \E p \in outgoing :
          /\ cur' = Payload(p)
          /\ outgoing' = outgoing \ {p}
          /\ posted' = posted \cup {p}
    /\ pc' = "posting"
    /\ dir' = "inventory"
    /\ UNCHANGED <<stage, todo, cancelled, collector, disk, received, made,
                   stuck, dropped, restarts>>

\* OnInventoryPushed sets a timestamp that only a metric shows
Posted ==
    /\ pc = "posting" /\ Answered
    /\ cur' = Nothing
    /\ pc' = "post"
    /\ UNCHANGED <<stage, dir, todo, outgoing, cancelled, collector, disk,
                   received, history, dropped, restarts>>

PostFails ==
    /\ pc = "posting"
    /\ pc' = "spool"
    /\ UNCHANGED <<stage, cur, dir, todo, outgoing, cancelled, collector, disk,
                   received, history, dropped, restarts>>

PushEnds ==
    /\ pc = "post" /\ outgoing = {}
    /\ pc' = "select"
    /\ UNCHANGED <<stage, cur, dir, todo, outgoing, cancelled, collector, disk,
                   received, history, dropped, restarts>>

-----------------------------------------------------------------------------
(* The package collector, in a goroutine of its own *)

\* A scan of all managers, or of all but those whose scan fails.  One whose
\* last look at the context came before a cancel ends after it.
Scan ==
    /\ pc # "dead" /\ scans < MaxScans
    /\ scans' = scans + 1
    /\ \E ok \in {Managers} \cup {M \in SUBSET Managers : "scan" \in Faults} :
          /\ pending' = {scans + 1} \X ok
          /\ made' = made \cup ({scans + 1} \X ok)
    /\ Drop("superseded", pending)
    /\ UNCHANGED <<pusher, cancelled, disk, received, posted, stuck, restarts>>

-----------------------------------------------------------------------------
(* The environment *)

\* A request is under way, and was not begun under a cancelled context.
ReceiverTakes ==
    /\ pc \in {"resend", "send", "posting"}
    /\ ~cancelled \/ stage = "flush"
    /\ ~Refused(cur)
    /\ received' = received \cup {cur.item}
    /\ UNCHANGED <<pusher, cancelled, collector, disk, history, dropped, restarts>>

Cancel ==
    /\ CanCancel /\ pc # "dead" /\ ~cancelled
    /\ cancelled' = TRUE
    /\ UNCHANGED <<pusher, collector, disk, received, history, dropped, restarts>>

InHand == IF pc \in {"send", "posting", "spool", "write"} THEN {cur.item} ELSE {}

InMemory == InHand \cup outgoing \cup pending

\* after Run returned, or at any moment: a crash, a kill, the exit of an update
ProcessEnds ==
    /\ pc # "dead"
    /\ restarts < MaxRestarts \/ pc = "stopped"
    /\ pc' = "dead"
    /\ Drop("exit", InMemory)
    /\ cur' = Nothing /\ todo' = {} /\ outgoing' = {} /\ pending' = {}
    /\ UNCHANGED <<stage, dir, cancelled, scans, disk, received, history,
                   restarts>>

Restart ==
    /\ pc = "dead" /\ restarts < MaxRestarts
    /\ restarts' = restarts + 1
    /\ pc' = "boot" /\ cancelled' = FALSE
    /\ UNCHANGED <<stage, cur, dir, todo, outgoing, collector, disk, received,
                   history, dropped>>

-----------------------------------------------------------------------------
Init ==
    /\ pc = "boot" /\ stage = "start" /\ cur = Nothing /\ dir = "metrics"
    /\ todo = {} /\ outgoing = {} /\ cancelled = FALSE
    /\ pending = {} /\ scans = 0
    /\ spool = [d \in Dirs |-> {}] /\ clock = 0
    /\ received = {} /\ made = {} /\ posted = {} /\ stuck = {}
    /\ dropped = [w \in Fates |-> {}]
    /\ restarts = 0

RetrySpool    == ReplayEnds \/ Discard \/ Replay \/ Resent \/ ResendFails
Sample        == Gather \/ GatherFails \/ GatherMore \/ Sent \/ SendFails
SpoolFile     == SpoolRefused \/ Create \/ WriteFails \/ Write \/ Trim \/ TrimEnds
SendInventory == TakeInventory \/ Post \/ Posted \/ PostFails \/ PushEnds

\* a step of the goroutine of Run, the choice of select aside
Continue == Boot \/ RetrySpool \/ Sample \/ SpoolFile \/ SendInventory

Next == \/ Continue \/ Tick \/ Flush
        \/ Scan \/ ReceiverTakes \/ Cancel \/ ProcessEnds \/ Restart

Spec == Init /\ [][Next]_vars

(***************************************************************************)
(* The goroutine runs and requests end by their timeout; select takes a    *)
(* case that is ready again and again; the receiver takes and answers what *)
(* is sent again and again; a process that returned from Run ends, and is  *)
(* started again as long as the bound allows.                              *)
(***************************************************************************)
FairSpec ==
    /\ Spec
    /\ WF_vars(Continue) /\ SF_vars(Tick) /\ SF_vars(Flush)
    /\ SF_vars(pc = "resend" /\ ReceiverTakes) /\ SF_vars(Resent)
    /\ WF_vars(pc = "stopped" /\ ProcessEnds) /\ WF_vars(Restart)

-----------------------------------------------------------------------------
(* Properties *)

\* Types, and which call may be at which place.
TypeOK ==
    /\ pc \in {"boot", "select", "replay", "resend", "gather", "send", "spool",
               "write", "trim", "inventory", "post", "posting", "stopped", "dead"}
    /\ stage \in {"start", "push", "flush"}
    /\ pc \in {"gather", "send", "stopped"} => stage # "start"
    /\ pc \in {"inventory", "post", "posting"} => stage = "push"
    /\ cur \in File /\ dir \in Dirs /\ todo \subseteq spool[dir] \cup spool["metrics"]
    /\ outgoing \subseteq Item /\ pending \subseteq Item
    /\ cancelled \in BOOLEAN
    /\ scans \in 0..MaxScans /\ restarts \in 0..MaxRestarts /\ clock \in Nat
    /\ spool \in [Dirs -> SUBSET File]
    /\ received \subseteq made /\ posted \subseteq made /\ made \subseteq Item
    /\ stuck \subseteq File
    /\ dropped \in [Fates -> SUBSET made]

Stored  == Held(spool["metrics"]) \cup Held(spool["inventory"])
Dropped == UNION {dropped[w] : w \in Fates}

\* Every sample gathered and every snapshot scanned is in memory, in a whole
\* file, at the receiver, or was given up at a point the code knows of,
\* whatever fails or ends between two steps.
ItemsAccounted == made = InMemory \cup Stored \cup received \cup Dropped

\* What is given up is given up once, and no longer held anywhere: neither a
\* replay nor the collector brings it back.
DroppedForGood ==
    /\ Dropped \cap (InMemory \cup Stored) = {}
    /\ \A v, w \in Fates : v # w => dropped[v] \cap dropped[w] = {}

\* The whole files of a directory stay within pushMaxSpoolSize, apart from
\* those that cannot be removed and one for each process that ended between
\* the write and the trim.
SpoolBounded ==
    pc \notin {"trim", "dead"} =>
        \A d \in Dirs :
            Cardinality({f \in spool[d] \ stuck : f.whole})
                <= pushMaxSpoolSize + restarts

\* Replay and trim take the oldest sample of the spool: none is removed while
\* an older one could still be sent.
OldestFirst ==
    [][ pc # "spool" =>
          \A d \in Dirs :
            \A f \in spool[d] \ spool'[d], g \in (spool[d] \cap spool'[d]) \ stuck :
                f.whole /\ g.whole => f.item[1] <= g.item[1] ]_vars

\* collector.go: "each snapshot is sent at most once", although a scan may
\* replace the snapshots while the last ones are being posted.
SnapshotsOnce == [][pc = "post" /\ pc' = "posting" => cur'.item \notin posted]_vars

\* A sample behind a file that the receiver refuses, or refused itself, and a
\* snapshot in SpoolDir/inventory, which nothing reads, stay where they are.
Blocked(i) ==
    \/ \E f, g \in spool["metrics"] :
          f.item = i /\ f.whole /\ Refused(g) /\ g.name <= f.name
    \/ i \in Held(spool["inventory"])

\* Every other item is in the end delivered or given up, unless the agent is
\* shut down and not started again.
ItemsSettle ==
    \A n \in 1..MaxSamples, m \in {0} \cup Managers :
        <<n, m>> \in made ~> \/ <<n, m>> \in received \cup Dropped
                             \/ Blocked(<<n, m>>)
                             \/ cancelled /\ restarts = MaxRestarts
=============================================================================
