--------------------------- MODULE HybridPGMLipp ---------------------------
(***************************************************************************)
(* The hybrid index of competitors/hybrid_pgm_lipp.h: a bulk-loaded LIPP,  *)
(* a dynamic PGM index that takes every insert, and a buffer of the        *)
(* inserted items that a background thread moves into LIPP.                *)
(*                                                                         *)
(* Two threads share the object.  "main" is the benchmark's thread: it     *)
(* calls the constructor, Build, Insert, EqualityLookup, RangeQuery, size  *)
(* and the destructor (applicable() refuses multithreaded runs, so there   *)
(* is one).  "worker" runs flush_worker.  pc[t] is thread t's next         *)
(* statement; a step is a maximal piece of code whose intermediate states  *)
(* the other thread cannot observe.                                        *)
(*                                                                         *)
(* LIPP has no synchronisation of its own and no mutex of this class       *)
(* guards it, so an insert by the worker and a read by main are both two   *)
(* steps long, and a read that overlapped an insert has the outcomes of    *)
(* FindOutcomes.  pgm_size is read by the worker without buffer_mutex; the *)
(* read is of one aligned word and returns its current value.              *)
(***************************************************************************)
EXTENDS Integers, Sequences, FiniteSets

CONSTANTS Keys,       \* keys of the workload
          BulkKeys,   \* keys passed to Build
          MinFlush,   \* config.min_flush_size
          MaxFlush,   \* config.max_flush_size
          Async       \* config.async_flush

ASSUME KeysAssumption  == /\ Keys \subseteq Nat
                          /\ BulkKeys \subseteq Keys /\ IsFiniteSet(BulkKeys)
ASSUME FlushAssumption == MinFlush \in Nat \ {0} /\ MaxFlush \in Nat \ {0}
ASSUME AsyncAssumption == Async \in BOOLEAN

VARIABLES
  pc,             \* next statement of each thread
  arg,            \* key argument of main's call
  pgm,            \* keys in the dynamic PGM index
  lipp,           \* keys whose insertion into LIPP is complete
  buffer,         \* inserted items that wait for a flush
  pgm_size,
  total_size,
  items_to_flush, \* local of flush_buffer, for each thread
  buffer_mutex,   \* owner, or "free"
  flush_mutex,    \* owner, or "free"
  should_stop,
  racing,         \* keys whose insertion into LIPP overlaps main's read of it
  reply,          \* answer of main's last call
  stored          \* history: every key given to Build or Insert

vars == <<pc, arg, pgm, lipp, buffer, pgm_size, total_size, items_to_flush,
          buffer_mutex, flush_mutex, should_stop, racing, reply, stored>>

store == <<pgm, lipp, buffer, pgm_size, total_size, items_to_flush, stored>>
locks == <<buffer_mutex, flush_mutex, should_stop>>
call  == <<arg, racing, reply>>

Thread == {"main", "worker"}
NoKey  == -1

FlushPC == {"fb_lock", "fb_take", "fb_next", "fb_write"}
MainPC  == {"start", "idle", "ins_lock", "ins_push", "ins_notify", "ins_unlock",
            "lk_lipp", "lk_pgm", "sz_lipp", "dtor_lock", "dtor_stop",
            "dtor_notify", "dtor_join", "done", "crashed"} \cup FlushPC
WorkerPC == {"w_lock", "w_pred", "w_block", "w_waiting", "w_relock", "w_check",
             "exited"} \cup FlushPC

NoReply == [op |-> "none", lo |-> NoKey, hi |-> NoKey, val |-> "none", keys |-> {}]
Found(k, v) == [op |-> "lookup", lo |-> k, hi |-> k, val |-> v, keys |-> {}]

\* Definitions of the form Op_Fault are faulty variants of Op.  No action uses
\* them; each shows that a property notices the fault.

\* A crash of main ends the process, the worker included.
Goto(t, label) == /\ pc["main"] # "crashed"
                  /\ pc' = [pc EXCEPT ![t] = label]

\* The smaller of two sizes.
Least(m, n) == IF m <= n THEN m ELSE n

-----------------------------------------------------------------------------
(* Constructor: with async_flush the worker is started, else there is none. *)
Init ==
  /\ pc = [t \in Thread |-> IF t = "main" THEN "start"
                            ELSE IF Async THEN "w_lock" ELSE "exited"]
  /\ arg = NoKey
  /\ pgm = {} /\ lipp = {} /\ buffer = <<>>
  /\ pgm_size = 0 /\ total_size = 0
  /\ items_to_flush = [t \in Thread |-> <<>>]
  /\ buffer_mutex = "free" /\ flush_mutex = "free" /\ should_stop = FALSE
  /\ racing = {} /\ reply = NoReply
  /\ stored = {}

(* Build: resets buffer and pgm, bulk-loads LIPP. *)
Build ==
  /\ pc["main"] = "start"
  /\ Goto("main", "idle")
  /\ total_size' = Cardinality(BulkKeys)
  /\ buffer' = <<>>
  /\ pgm' = {}
  /\ lipp' = BulkKeys
  /\ stored' = BulkKeys
  /\ UNCHANGED <<pgm_size, items_to_flush, locks, call>>

-----------------------------------------------------------------------------
(* Insert.  The workload inserts a key at most once and never one it bulk-  *)
(* loaded (generate.cc splits the data set into the two).                   *)

\* The first statement, pgm.Insert: no lock, main is the only user of pgm.
InsertPgm(k) ==
  /\ pc["main"] = "idle"
  /\ k \notin stored
  /\ arg' = k
  /\ reply' = NoReply
  /\ pgm' = pgm \cup {k}
  /\ stored' = stored \cup {k}
  /\ Goto("main", "ins_lock")
  /\ UNCHANGED <<lipp, buffer, pgm_size, total_size, items_to_flush, locks, racing>>

InsertLock ==
  /\ pc["main"] = "ins_lock"
  /\ buffer_mutex = "free"
  /\ buffer_mutex' = "main"
  /\ Goto("main", "ins_push")
  /\ UNCHANGED <<store, flush_mutex, should_stop, call>>

Pushed_AtFront == <<arg>> \o buffer
\* buffer.push_back.
Pushed == Append(buffer, arg)

\* The buffer and the sizes change under buffer_mutex.  At min_flush_size the
\* worker is notified, or, without one, flush_buffer runs on this thread.
InsertPush ==
  /\ pc["main"] = "ins_push"
  /\ buffer' = Pushed
  /\ pgm_size' = pgm_size + 1
  /\ total_size' = total_size + 1
  /\ arg' = NoKey
  /\ Goto("main", IF pgm_size + 1 < MinFlush THEN "ins_unlock"
                  ELSE IF Async THEN "ins_notify" ELSE "fb_lock")
  /\ UNCHANGED <<pgm, lipp, items_to_flush, stored, locks, racing, reply>>

\* flush_cv.notify_one(): wakes the worker if it has started to wait.
NotifyOne(label) ==
  pc' = [pc EXCEPT !["main"] = label,
                   !["worker"] = IF @ = "w_waiting" THEN "w_relock" ELSE @]

InsertNotify_UntilFlushed ==
  /\ pc["main"] = "ins_notify"
  /\ NotifyOne(IF pgm_size >= MinFlush THEN "ins_notify" ELSE "ins_unlock")
  /\ UNCHANGED <<store, locks, call>>
\* Called with buffer_mutex held and flush_mutex not.
InsertNotify ==
  /\ pc["main"] = "ins_notify"
  /\ NotifyOne("ins_unlock")
  /\ UNCHANGED <<store, locks, call>>

InsertUnlock ==
  /\ pc["main"] = "ins_unlock"
  /\ buffer_mutex' = "free"
  /\ Goto("main", "idle")
  /\ UNCHANGED <<store, flush_mutex, should_stop, call>>

-----------------------------------------------------------------------------
(* flush_buffer, run by the worker or, when async_flush is off, by main     *)
(* inside Insert.                                                           *)

FlushReturn(t) == IF t = "main" THEN "ins_unlock" ELSE "w_lock"

FlushLock(t) ==
  /\ pc[t] = "fb_lock"
  /\ buffer_mutex = "free"
  /\ buffer_mutex' = t
  /\ Goto(t, "fb_take")
  /\ UNCHANGED <<store, flush_mutex, should_stop, call>>

\* std::min(buffer.size(), max_flush_size)
FlushSize == Least(Len(buffer), MaxFlush)

Kept_NotErased == buffer
\* The buffer after the erase.
Kept == SubSeq(buffer, FlushSize + 1, Len(buffer))

SizeLeft_NotReduced == pgm_size
SizeLeft_ByMaximum == pgm_size - MaxFlush
\* pgm_size after the batch was taken.
SizeLeft == pgm_size - FlushSize

\* Moves at most max_flush_size of the oldest items into items_to_flush and
\* leaves the critical section; returns early when the buffer is empty.
FlushTake(t) ==
  /\ pc[t] = "fb_take"
  /\ buffer_mutex' = "free"
  /\ items_to_flush' = [items_to_flush EXCEPT ![t] = SubSeq(buffer, 1, FlushSize)]
  /\ buffer' = Kept
  /\ pgm_size' = SizeLeft
  /\ Goto(t, IF buffer = <<>> THEN FlushReturn(t) ELSE "fb_next")
  /\ UNCHANGED <<pgm, lipp, total_size, stored, flush_mutex, should_stop, call>>

MainReadsLipp == pc["main"] \in {"lk_lipp", "sz_lipp"}

LippInsertBegin_LeavesPgm(t) ==
  /\ pc[t] = "fb_next"
  /\ Goto(t, "fb_write")
  /\ racing' = IF MainReadsLipp THEN racing \cup {Head(items_to_flush[t])} ELSE racing
  /\ pgm' = pgm \ {Head(items_to_flush[t])}
  /\ UNCHANGED <<lipp, buffer, pgm_size, total_size, items_to_flush, stored, locks, arg, reply>>
\* lipp.Insert(item) begins: from here LIPP's nodes are being written.
LippInsertBegin(t) ==
  /\ pc[t] = "fb_next"
  /\ Goto(t, "fb_write")
  /\ racing' = IF MainReadsLipp THEN racing \cup {Head(items_to_flush[t])} ELSE racing
  /\ UNCHANGED <<store, locks, arg, reply>>

\* lipp.Insert(item) returns; the loop goes on with the next item.
LippInsertEnd(t) ==
  /\ pc[t] = "fb_write"
  /\ lipp' = lipp \cup {Head(items_to_flush[t])}
  /\ items_to_flush' = [items_to_flush EXCEPT ![t] = Tail(@)]
  /\ Goto(t, IF Len(items_to_flush[t]) = 1 THEN FlushReturn(t) ELSE "fb_next")
  /\ UNCHANGED <<pgm, buffer, pgm_size, total_size, stored, locks, call>>

-----------------------------------------------------------------------------
(* flush_worker.                                                            *)

WorkerLock(from) ==
  /\ pc["worker"] = from
  /\ flush_mutex = "free"
  /\ flush_mutex' = "worker"
  /\ Goto("worker", "w_pred")
  /\ UNCHANGED <<store, buffer_mutex, should_stop, call>>

FlushDue_Above == pgm_size > MinFlush
\* The worker's test that there is something to flush.
FlushDue == pgm_size >= MinFlush

\* The predicate of flush_cv.wait, evaluated with flush_mutex held.  main
\* changes pgm_size without flush_mutex, so the result can be old when used.
WorkerPred ==
  /\ pc["worker"] = "w_pred"
  /\ Goto("worker", IF should_stop \/ FlushDue THEN "w_check" ELSE "w_block")
  /\ UNCHANGED <<store, locks, call>>

\* Starting to wait and releasing flush_mutex are one step.
WorkerBlock ==
  /\ pc["worker"] = "w_block"
  /\ flush_mutex' = "free"
  /\ Goto("worker", "w_waiting")
  /\ UNCHANGED <<store, buffer_mutex, should_stop, call>>

\* A condition variable may return without a notification.
WorkerSpuriousWakeup ==
  /\ pc["worker"] = "w_waiting"
  /\ Goto("worker", "w_relock")
  /\ UNCHANGED <<store, locks, call>>

WorkerReadsBuffer_First == pc["worker"] = "w_check"
\* buffer.empty() is evaluated, without buffer_mutex, only after should_stop.
WorkerReadsBuffer == pc["worker"] = "w_check" /\ should_stop

WorkerBreak_NotDrained == should_stop
\* The condition of the break.
WorkerBreak == should_stop /\ buffer = <<>>

\* Leaves the loop, or releases flush_mutex and calls flush_buffer.
WorkerCheck ==
  /\ pc["worker"] = "w_check"
  /\ flush_mutex' = "free"
  /\ Goto("worker", IF WorkerBreak THEN "exited" ELSE "fb_lock")
  /\ UNCHANGED <<store, buffer_mutex, should_stop, call>>

-----------------------------------------------------------------------------
(* Reads of LIPP by main.                                                   *)

LippBeingWritten == IF pc["worker"] = "fb_write" THEN {Head(items_to_flush["worker"])} ELSE {}

\* What LIPP's find(k) can do.  Undisturbed it answers by membership.  If an
\* insert overlapped it, the slot of k may have turned into a child pointer
\* under its feet (a stored key is missed, or memory that is no node is
\* followed), and the key of a slot is written before its value, in a slot that
\* is being filled and in memory that a rebuild reuses (garbage).
FindOutcomes(k) ==
  IF racing = {} THEN IF k \in lipp THEN {"hit"} ELSE {"miss"}
  ELSE {"miss", "crash"} \cup IF k \in lipp \cup racing THEN {"hit", "garbage"} ELSE {}

LookupBegin(k) ==
  /\ pc["main"] = "idle"
  /\ arg' = k
  /\ reply' = NoReply
  /\ racing' = LippBeingWritten
  /\ Goto("main", "lk_lipp")
  /\ UNCHANGED <<store, locks>>

\* LIPP answers; on NOT_FOUND the PGM index is asked.
LookupLipp ==
  /\ pc["main"] = "lk_lipp"
  /\ racing' = {}
  /\ \E v \in FindOutcomes(arg) :
       \/ /\ v = "miss"
          /\ Goto("main", "lk_pgm")
          /\ UNCHANGED <<arg, reply>>
       \/ /\ v \in {"hit", "garbage"}
          /\ Goto("main", "idle")
          /\ reply' = Found(arg, v)
          /\ arg' = NoKey
       \/ /\ v = "crash"
          /\ Goto("main", "crashed")
          /\ UNCHANGED <<arg, reply>>
  /\ UNCHANGED <<store, locks>>

LookupPgm ==
  /\ pc["main"] = "lk_pgm"
  /\ Goto("main", "idle")
  /\ reply' = Found(arg, IF arg \in pgm THEN "hit" ELSE "miss")
  /\ arg' = NoKey
  /\ UNCHANGED <<store, locks, racing>>

\* RangeQuery sums what the PGM index holds between the two keys.
RangeQuery(lo, hi) ==
  /\ pc["main"] = "idle"
  /\ reply' = [op |-> "range", lo |-> lo, hi |-> hi, val |-> "none",
               keys |-> {k \in pgm : lo <= k /\ k <= hi}]
  /\ UNCHANGED <<pc, store, locks, arg, racing>>

\* size() walks LIPP's nodes to add up their bytes.
SizeBegin ==
  /\ pc["main"] = "idle"
  /\ reply' = NoReply
  /\ racing' = LippBeingWritten
  /\ Goto("main", "sz_lipp")
  /\ UNCHANGED <<store, locks, arg>>

SizeEnd ==
  /\ pc["main"] = "sz_lipp"
  /\ racing' = {}
  /\ \/ Goto("main", "idle")
     \/ racing # {} /\ Goto("main", "crashed")
  /\ UNCHANGED <<store, locks, arg, reply>>

-----------------------------------------------------------------------------
(* Destructor.  The benchmark deletes an index that is not applicable       *)
(* before it was built, any other one after its last operation.             *)

DtorBegin ==
  /\ pc["main"] \in {"start", "idle"}
  /\ reply' = NoReply
  /\ Goto("main", IF Async THEN "dtor_lock" ELSE "done")
  /\ UNCHANGED <<store, locks, arg, racing>>

DtorLock_Unlocked ==
  /\ pc["main"] = "dtor_lock"
  /\ Goto("main", "dtor_stop")
  /\ UNCHANGED <<store, locks, call>>
DtorLock ==
  /\ pc["main"] = "dtor_lock"
  /\ flush_mutex = "free"
  /\ flush_mutex' = "main"
  /\ Goto("main", "dtor_stop")
  /\ UNCHANGED <<store, buffer_mutex, should_stop, call>>

\* The store and the end of the lock's scope.
DtorStop ==
  /\ pc["main"] = "dtor_stop"
  /\ should_stop' = TRUE
  /\ flush_mutex' = "free"
  /\ Goto("main", "dtor_notify")
  /\ UNCHANGED <<store, buffer_mutex, call>>

DtorNotify ==
  /\ pc["main"] = "dtor_notify"
  /\ NotifyOne("dtor_join")
  /\ UNCHANGED <<store, locks, call>>

DtorJoin ==
  /\ pc["main"] = "dtor_join"
  /\ pc["worker"] = "exited"
  /\ Goto("main", "done")
  /\ UNCHANGED <<store, locks, call>>

-----------------------------------------------------------------------------
\* The calls main may make when it is not inside one.
MainCall ==
  \/ Build
  \/ \E k \in Keys : InsertPgm(k)
  \/ \E k \in Keys : LookupBegin(k)
  \/ \E lo, hi \in Keys : RangeQuery(lo, hi)
  \/ SizeBegin
  \/ DtorBegin

\* The rest of a call that main has begun.
MainStep ==
  \/ InsertLock \/ InsertPush \/ InsertNotify \/ InsertUnlock
  \/ LookupLipp \/ LookupPgm \/ SizeEnd
  \/ DtorLock \/ DtorStop \/ DtorNotify \/ DtorJoin

FlushStep(t) == FlushLock(t) \/ FlushTake(t) \/ LippInsertBegin(t) \/ LippInsertEnd(t)

WorkerStep ==
  \/ WorkerLock("w_lock") \/ WorkerLock("w_relock")
  \/ WorkerPred \/ WorkerBlock \/ WorkerCheck

MainRuns   == MainStep \/ FlushStep("main")
WorkerRuns == WorkerStep \/ FlushStep("worker")

\* The object is gone, or the process is.
Terminated == pc["main"] \in {"done", "crashed"} /\ UNCHANGED vars

Next == MainCall \/ MainRuns \/ WorkerRuns \/ WorkerSpuriousWakeup \/ Terminated

Spec == Init /\ [][Next]_vars

(* A thread that can run is scheduled: a begun call goes on, the worker     *)
(* goes on.  Nothing obliges main to make another call, nor the condition   *)
(* variable to wake up on its own; it does so only finitely often (with     *)
(* endless spurious wakeups the worker could hold flush_mutex whenever main *)
(* asks for it).                                                            *)
Fairness == /\ WF_vars(MainRuns)
            /\ WF_vars(WorkerRuns)
            /\ <>[][~WorkerSpuriousWakeup]_vars

FairSpec == Spec /\ Fairness

-----------------------------------------------------------------------------
(* Properties.                                                              *)

Replies == {NoReply} \cup [op : {"lookup"}, lo : Keys, hi : Keys,
                           val : {"hit", "miss", "garbage"}, keys : {{}}]
                     \cup [op : {"range"}, lo : Keys, hi : Keys,
                           val : {"none"}, keys : SUBSET Keys]

\* Types.  pgm_size is a size_t that flush_buffer decreases: it never wraps.
TypeOK ==
  /\ pc \in [Thread -> MainPC \cup WorkerPC]
  /\ pc["main"] \in MainPC /\ pc["worker"] \in WorkerPC
  /\ arg \in Keys \cup {NoKey}
  /\ pgm \subseteq Keys /\ lipp \subseteq Keys /\ stored \subseteq Keys
  /\ buffer \in Seq(Keys)
  /\ pgm_size \in Nat /\ total_size \in Nat
  /\ items_to_flush \in [Thread -> Seq(Keys)]
  /\ buffer_mutex \in Thread \cup {"free"}
  /\ flush_mutex \in Thread \cup {"free"}
  /\ should_stop \in BOOLEAN
  /\ racing \subseteq Keys
  /\ reply \in Replies

\* The inserted items that are not yet in LIPP, oldest first: the batch the
\* worker is flushing, then the buffer.
Pending == items_to_flush["worker"] \o buffer

PendingKeys == {Pending[i] : i \in 1..Len(Pending)}

\* The key of an Insert that has not reached the buffer.
NotYetPushed == IF pc["main"] \in {"ins_lock", "ins_push"} THEN {arg} ELSE {}

\* Every stored key is in exactly one place: LIPP, the batch in flight, the
\* buffer, or the Insert that is bringing it; and there once.  So no flush
\* loses an item, and LIPP, which exits on a duplicate key (build_tree_two's
\* RT_ASSERT), is never given one, whatever Insert and flush_buffer interleave.
Accounted ==
  /\ stored = lipp \cup PendingKeys \cup NotYetPushed
  /\ lipp \cap PendingKeys = {}
  /\ NotYetPushed \cap (lipp \cup PendingKeys) = {}
  /\ \A i, j \in 1..Len(Pending) : Pending[i] = Pending[j] => i = j

\* pgm_size is read without buffer_mutex to decide whether to flush: it is the
\* length of the buffer at every step, and total_size counts every item that
\* went through Build or reached the buffer.
SizesAgree ==
  /\ pgm_size = Len(buffer)
  /\ Cardinality(stored) = total_size + Cardinality(NotYetPushed)

\* flush_worker calls buffer.empty() without buffer_mutex.  No thread changes
\* the buffer while it does, because should_stop, which is tested first, is
\* set only once main has made its last Insert.
UnlockedReadSafe ==
  WorkerReadsBuffer => /\ pc["main"] \notin {"start", "ins_push", "fb_take"}
                       /\ buffer_mutex = "free"

\* When the destructor of an asynchronous index returns, everything that was
\* ever inserted is in LIPP: stopping does not drop a batch.
DrainedAtJoin ==
  Async /\ pc["main"] = "done" => lipp = stored /\ Pending = <<>>

\* A lookup of an inserted key never reports it absent, at whatever stage of
\* its way from the buffer to LIPP it is and whatever the worker does to LIPP
\* meanwhile: the PGM index still has it.
InsertedNeverMissed ==
  reply.op = "lookup" /\ reply.val = "miss" => reply.lo \notin stored \ BulkKeys

\* The flush path implements the write-behind queue: items reach LIPP one by
\* one, each exactly once, in the order of the inserts.
WB == INSTANCE WriteBehind WITH pending <- Pending, target <- lipp
FlushesInOrder == WB!Spec

\* The destructor returns: should_stop is set under flush_mutex, so its
\* notification is not lost, and the worker drains the buffer and exits.
DestructorReturns == pc["main"] = "dtor_lock" ~> pc["main"] = "done"

\* An Insert returns: flush_buffer gives buffer_mutex back on every path.
InsertReturns == pc["main"] = "ins_lock" ~> pc["main"] = "idle"

\* A worker that is not between its test of the predicate and its waking up
\* notices that min_flush_size is reached, and flushes below it.
AwakeWorkerFlushes ==
  pgm_size >= MinFlush /\ pc["worker"] \notin {"w_block", "w_waiting"}
    ~> pgm_size < MinFlush \/ pc["main"] = "crashed"

\* "Minimum items to trigger flush" (Config): a buffer that reaches
\* min_flush_size is flushed below it again.
FlushTriggered ==
  pgm_size >= MinFlush ~> pgm_size < MinFlush \/ pc["main"] = "crashed"

\* What the benchmark verifies of a lookup: a stored key is found with its
\* value, another one is reported absent.
LookupCorrect ==
  reply.op = "lookup" => reply.val = IF reply.lo \in stored THEN "hit" ELSE "miss"

\* What the benchmark verifies of a range query: the sum is over every stored
\* key between the two bounds.
RangeQueryComplete ==
  reply.op = "range" =>
    reply.keys = {k \in stored : reply.lo <= k /\ k <= reply.hi}
=============================================================================
