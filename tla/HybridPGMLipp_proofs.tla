------------------------ MODULE HybridPGMLipp_proofs ------------------------
(***************************************************************************)
(* Machine-checked proofs about HybridPGMLipp, for every set of keys, every *)
(* flush threshold and batch size, with and without the worker.             *)
(***************************************************************************)
EXTENDS HybridPGMLipp, SequenceTheorems, FiniteSetTheorems, TLAPS

-----------------------------------------------------------------------------
(* Sequences: how Pending reacts to the three operations on its parts.      *)

\* Taking a batch off the front of the buffer (flush_buffer's assign and
\* erase): batch and rest together are the old buffer.
LEMMA TakeBatch ==
  ASSUME NEW S, NEW b \in Seq(S), NEW n \in 0..Len(b)
  PROVE  /\ SubSeq(b, 1, n) \in Seq(S)
         /\ SubSeq(b, n + 1, Len(b)) \in Seq(S)
         /\ Len(SubSeq(b, 1, n)) = n
         /\ Len(SubSeq(b, n + 1, Len(b))) = Len(b) - n
         /\ SubSeq(b, 1, n) \o SubSeq(b, n + 1, Len(b)) = b
<1>1. \A i \in 1..Len(b) : b[i] \in S
  OBVIOUS
<1>2. SubSeq(b, 1, n) \in Seq(S) /\ Len(SubSeq(b, 1, n)) = n
  BY <1>1, SubSeqProperties
<1>3. /\ SubSeq(b, n + 1, Len(b)) \in Seq(S)
      /\ Len(SubSeq(b, n + 1, Len(b))) = Len(b) - n
  BY <1>1, SubSeqProperties
<1>4. SubSeq(b, 1, n) \o SubSeq(b, n + 1, Len(b)) = SubSeq(b, 1, Len(b))
  <2>1. 1 \in 1..Len(b) + 1 /\ n \in 1 - 1..Len(b) /\ Len(b) \in n..Len(b)
    OBVIOUS
  <2> QED
    BY <2>1, ConcatAdjacentSubSeq
<1>5. SubSeq(b, 1, Len(b)) = b
  BY SubSeqFull
<1> QED
  BY <1>2, <1>3, <1>4, <1>5

\* push_back on the buffer appends to the whole queue.
LEMMA AppendPending ==
  \A a, b \in Seq(Keys) : \A k \in Keys : a \o Append(b, k) = Append(a \o b, k)
  OBVIOUS

\* Finishing the first item of a non-empty batch takes the head off the queue.
LEMMA TailPending ==
  ASSUME NEW S, NEW a \in Seq(S), NEW b \in Seq(S), a # <<>>
  PROVE  /\ a \o b # <<>>
         /\ Head(a \o b) = Head(a)
         /\ Tail(a \o b) = Tail(a) \o b
         /\ Head(a) \in S /\ Tail(a) \in Seq(S)
         /\ Len(Tail(a)) = Len(a) - 1
  OBVIOUS

-----------------------------------------------------------------------------
(* The inductive invariant.                                                 *)

\* Each mutex is held exactly where the code is between its lock and unlock.
\* In particular main, calling flush_buffer from Insert, never gets past the
\* lock it already holds.
LockInv ==
  /\ buffer_mutex = "main" <=> pc["main"] \in {"ins_push", "ins_notify", "ins_unlock", "fb_lock"}
  /\ buffer_mutex = "worker" <=> pc["worker"] = "fb_take"
  /\ flush_mutex = "main" <=> pc["main"] = "dtor_stop"
  /\ flush_mutex = "worker" <=> pc["worker"] \in {"w_pred", "w_block", "w_check"}
  /\ pc["main"] \notin {"fb_take", "fb_next", "fb_write"}

\* How far the object is in its life: before Build, in use, being destroyed.
PhaseInv ==
  /\ pc["main"] = "start" =>
       /\ stored = {} /\ lipp = {} /\ buffer = <<>> /\ pgm_size = 0
       /\ pc["worker"] \notin {"w_check"} \cup FlushPC
  /\ pc["main"] \notin {"start", "dtor_lock", "dtor_stop", "dtor_notify", "dtor_join", "done"}
       => BulkKeys \subseteq stored
  /\ should_stop => pc["main"] \in {"dtor_notify", "dtor_join", "done"}
  /\ Async /\ pc["main"] \in {"dtor_notify", "dtor_join", "done"} => should_stop
  /\ Async /\ pc["worker"] = "exited" => should_stop /\ buffer = <<>>
  /\ Async /\ pc["main"] = "done" => pc["worker"] = "exited"
  /\ ~Async => pc["worker"] = "exited"

\* A batch is in flight exactly while flush_buffer loops over it.
BatchInv ==
  /\ pc["worker"] \in {"fb_next", "fb_write"} <=> items_to_flush["worker"] # <<>>
  /\ pgm_size = Len(buffer)
  /\ pc["main"] \in {"ins_lock", "ins_push", "lk_lipp", "lk_pgm"} => arg \in Keys
  /\ pgm = stored \ BulkKeys

ControlInv == TypeOK /\ LockInv /\ PhaseInv /\ BatchInv

IInv == ControlInv /\ Accounted

\* Every step preserves the control part of the invariant.
LEMMA ControlNext ==
  ASSUME ControlInv, [Next]_vars
  PROVE  ControlInv'
<1> USE KeysAssumption, FlushAssumption, AsyncAssumption
        DEF ControlInv, TypeOK, LockInv, PhaseInv, BatchInv,
            Thread, MainPC, WorkerPC, FlushPC, NoKey, Goto, store, locks, call
<1>1. ASSUME Build PROVE ControlInv'
  <2>1. Cardinality(BulkKeys) \in Nat
    BY FS_CardinalityType
  <2> QED
    BY <1>1, <2>1 DEF Build
<1>2. ASSUME NEW k \in Keys, InsertPgm(k) PROVE ControlInv'
  BY <1>2 DEF InsertPgm, NoReply, Replies
<1>3. ASSUME InsertLock PROVE ControlInv'
  BY <1>3 DEF InsertLock
<1>4. ASSUME InsertPush PROVE ControlInv'
  BY <1>4 DEF InsertPush, Pushed
<1>5. ASSUME InsertNotify PROVE ControlInv'
  BY <1>5 DEF InsertNotify, NotifyOne
<1>6. ASSUME InsertUnlock PROVE ControlInv'
  BY <1>6 DEF InsertUnlock
<1>7. ASSUME NEW k \in Keys, LookupBegin(k) PROVE ControlInv'
  BY <1>7 DEF LookupBegin, NoReply, LippBeingWritten, Replies
<1>8. ASSUME LookupLipp PROVE ControlInv'
  BY <1>8 DEF LookupLipp, FindOutcomes, Found, Replies, NoReply
<1>9. ASSUME LookupPgm PROVE ControlInv'
  BY <1>9 DEF LookupPgm, Found, Replies, NoReply
<1>10. ASSUME NEW lo \in Keys, NEW hi \in Keys, RangeQuery(lo, hi) PROVE ControlInv'
  BY <1>10 DEF RangeQuery, Replies, NoReply
<1>11. ASSUME SizeBegin PROVE ControlInv'
  BY <1>11 DEF SizeBegin, NoReply, LippBeingWritten, Replies
<1>12. ASSUME SizeEnd PROVE ControlInv'
  BY <1>12 DEF SizeEnd
<1>13. ASSUME DtorBegin PROVE ControlInv'
  BY <1>13 DEF DtorBegin, NoReply, Replies
<1>14. ASSUME DtorLock PROVE ControlInv'
  BY <1>14 DEF DtorLock
<1>15. ASSUME DtorStop PROVE ControlInv'
  BY <1>15 DEF DtorStop
<1>16. ASSUME DtorNotify PROVE ControlInv'
  BY <1>16 DEF DtorNotify, NotifyOne
<1>17. ASSUME DtorJoin PROVE ControlInv'
  BY <1>17 DEF DtorJoin
<1>18. ASSUME NEW t \in Thread, FlushLock(t) PROVE ControlInv'
  BY <1>18 DEF FlushLock
<1>19. ASSUME NEW t \in Thread, FlushTake(t) PROVE ControlInv'
  <2>1. t = "worker"
    BY <1>19 DEF FlushTake
  <2>2. FlushSize \in 0..Len(buffer) /\ (buffer # <<>> => FlushSize # 0)
    BY DEF FlushSize, Least
  <2> DEFINE batch == SubSeq(buffer, 1, FlushSize)
  <2>3. /\ batch \in Seq(Keys) /\ Kept \in Seq(Keys)
        /\ Len(batch) = FlushSize /\ Len(Kept) = Len(buffer) - FlushSize
    BY <2>2, TakeBatch DEF Kept
  <2>4. SizeLeft \in Nat /\ SizeLeft = Len(Kept)
    BY <2>2, <2>3 DEF SizeLeft
  <2>5. batch = <<>> <=> buffer = <<>>
    BY <2>2, <2>3, EmptySeq
  <2>6. /\ items_to_flush' = [items_to_flush EXCEPT !["worker"] = batch]
        /\ buffer' = Kept /\ pgm_size' = SizeLeft
        /\ pc' = [pc EXCEPT !["worker"] = IF buffer = <<>> THEN "w_lock" ELSE "fb_next"]
        /\ buffer_mutex' = "free" /\ pc["worker"] = "fb_take"
        /\ UNCHANGED <<pgm, lipp, total_size, stored, flush_mutex, should_stop, call>>
    BY <1>19, <2>1 DEF FlushTake, FlushReturn
  <2> HIDE DEF batch
  <2>7. TypeOK'
    BY <2>3, <2>4, <2>6
  <2>8. LockInv' /\ PhaseInv'
    BY <2>6
  <2>9. BatchInv'
    BY <2>3, <2>4, <2>5, <2>6
  <2> QED
    BY <2>7, <2>8, <2>9
<1>20. ASSUME NEW t \in Thread, LippInsertBegin(t) PROVE ControlInv'
  <2>1. t = "worker" /\ items_to_flush[t] # <<>>
    BY <1>20 DEF LippInsertBegin
  <2>2. Head(items_to_flush[t]) \in Keys
    BY <2>1
  <2> QED
    BY <1>20, <2>1, <2>2 DEF LippInsertBegin, MainReadsLipp
<1>21. ASSUME NEW t \in Thread, LippInsertEnd(t) PROVE ControlInv'
  <2>1. t = "worker" /\ items_to_flush[t] # <<>>
    BY <1>21 DEF LippInsertEnd
  <2>2. /\ Head(items_to_flush[t]) \in Keys
        /\ Tail(items_to_flush[t]) \in Seq(Keys)
        /\ Len(Tail(items_to_flush[t])) = Len(items_to_flush[t]) - 1
    BY <2>1, HeadTailProperties
  <2>3. Tail(items_to_flush[t]) = <<>> <=> Len(items_to_flush[t]) = 1
    <3>1. Len(items_to_flush[t]) \in Nat
      OBVIOUS
    <3> DEFINE rest == Tail(items_to_flush[t])
    <3>2. rest = <<>> <=> Len(rest) = 0
      BY <2>2, EmptySeq
    <3> QED
      BY <2>2, <3>1, <3>2
  <2>4. /\ lipp' = lipp \cup {Head(items_to_flush["worker"])}
        /\ items_to_flush' = [items_to_flush EXCEPT !["worker"] = Tail(items_to_flush["worker"])]
        /\ pc' = [pc EXCEPT !["worker"] =
                     IF Len(items_to_flush["worker"]) = 1 THEN "w_lock" ELSE "fb_next"]
        /\ pc["worker"] = "fb_write"
        /\ UNCHANGED <<pgm, buffer, pgm_size, total_size, stored, locks, call>>
    BY <1>21, <2>1 DEF LippInsertEnd, FlushReturn
  <2>5. TypeOK'
    BY <2>1, <2>2, <2>4
  <2>6. LockInv' /\ PhaseInv'
    BY <2>4
  <2>7. BatchInv'
    BY <2>1, <2>3, <2>4
  <2> QED
    BY <2>5, <2>6, <2>7
<1>22. ASSUME NEW from \in {"w_lock", "w_relock"}, WorkerLock(from) PROVE ControlInv'
  BY <1>22 DEF WorkerLock
<1>23. ASSUME WorkerPred PROVE ControlInv'
  BY <1>23 DEF WorkerPred, FlushDue
<1>24. ASSUME WorkerBlock PROVE ControlInv'
  BY <1>24 DEF WorkerBlock
<1>25. ASSUME WorkerCheck PROVE ControlInv'
  BY <1>25 DEF WorkerCheck, WorkerBreak
<1>26. ASSUME WorkerSpuriousWakeup PROVE ControlInv'
  BY <1>26 DEF WorkerSpuriousWakeup
<1>27. CASE UNCHANGED vars
  BY <1>27 DEF vars
<1> QED
  BY <1>1, <1>2, <1>3, <1>4, <1>5, <1>6, <1>7, <1>8, <1>9, <1>10, <1>11, <1>12, <1>13, <1>14, <1>15, <1>16, <1>17, <1>18, <1>19, <1>20, <1>21, <1>22, <1>23, <1>24, <1>25, <1>26, <1>27 DEF Next, MainCall, MainRuns, MainStep, FlushStep, WorkerRuns, WorkerStep, Terminated

\* The constructor establishes the control part of the invariant.
LEMMA ControlInit ==
  ASSUME Init
  PROVE  ControlInv
<1> USE AsyncAssumption DEF Init, Thread
<1>1. TypeOK
  <2>1. pc \in [Thread -> MainPC \cup WorkerPC] /\ pc["main"] \in MainPC /\ pc["worker"] \in WorkerPC
    BY DEF MainPC, WorkerPC
  <2>2. buffer \in Seq(Keys) /\ items_to_flush \in [Thread -> Seq(Keys)]
    OBVIOUS
  <2>3. reply \in Replies
    BY DEF Replies
  <2> QED
    BY <2>1, <2>2, <2>3 DEF TypeOK
<1>2. LockInv /\ PhaseInv /\ BatchInv
  BY DEF LockInv, PhaseInv, BatchInv, FlushPC
<1> QED
  BY <1>1, <1>2 DEF ControlInv

-----------------------------------------------------------------------------
(* What a step does to the queue of inserted items.                         *)

Elems(p) == {p[i] : i \in 1..Len(p)}
Distinct(p) == \A i, j \in 1..Len(p) : p[i] = p[j] => i = j

\* A new element at the end.
LEMMA AppendElems ==
  ASSUME NEW S, NEW p \in Seq(S), NEW k \in S
  PROVE  /\ Elems(Append(p, k)) = Elems(p) \cup {k}
         /\ Distinct(p) /\ k \notin Elems(p) => Distinct(Append(p, k))
<1>1. /\ Len(Append(p, k)) = Len(p) + 1 /\ Len(p) \in Nat
      /\ \A i \in 1..Len(p) : Append(p, k)[i] = p[i]
      /\ Append(p, k)[Len(p) + 1] = k
  BY AppendProperties
<1>2. 1..(Len(p) + 1) = 1..Len(p) \cup {Len(p) + 1}
  BY <1>1
<1>3. Elems(Append(p, k)) = Elems(p) \cup {k}
  BY <1>1, <1>2 DEF Elems
<1>4. Distinct(p) /\ k \notin Elems(p) => Distinct(Append(p, k))
  BY <1>1, <1>2 DEF Elems, Distinct
<1> QED
  BY <1>3, <1>4

\* The first element leaves.
LEMMA TailElems ==
  ASSUME NEW S, NEW p \in Seq(S), p # <<>>, Distinct(p)
  PROVE  /\ Elems(Tail(p)) = Elems(p) \ {Head(p)}
         /\ Head(p) \in Elems(p)
         /\ Distinct(Tail(p))
<1>1. /\ Len(p) \in Nat \ {0} /\ Len(Tail(p)) = Len(p) - 1
      /\ \A i \in 1..Len(Tail(p)) : Tail(p)[i] = p[i + 1]
      /\ Head(p) = p[1]
  BY HeadTailProperties, EmptySeq
<1>2. Elems(Tail(p)) \subseteq Elems(p) \ {Head(p)}
  BY <1>1 DEF Elems, Distinct
<1>3. Elems(p) \ {Head(p)} \subseteq Elems(Tail(p))
  <2> SUFFICES ASSUME NEW i \in 1..Len(p), p[i] # p[1]
               PROVE  p[i] \in Elems(Tail(p))
    BY <1>1 DEF Elems
  <2>1. i - 1 \in 1..Len(Tail(p)) /\ Tail(p)[i - 1] = p[i]
    BY <1>1
  <2> QED
    BY <2>1 DEF Elems
<1>4. Head(p) \in Elems(p)
  BY <1>1 DEF Elems
<1>5. Distinct(Tail(p))
  BY <1>1 DEF Distinct
<1> QED
  BY <1>2, <1>3, <1>4, <1>5

\* The four ways in which a step changes where items are; the other steps
\* leave them where they are.
QueueSame == UNCHANGED <<Pending, lipp, stored, NotYetPushed>>

QueueBuild ==
  /\ Pending = <<>> /\ Pending' = <<>>
  /\ lipp = {} /\ lipp' = BulkKeys
  /\ stored = {} /\ stored' = BulkKeys
  /\ NotYetPushed = {} /\ NotYetPushed' = {}

QueueBegin(k) ==
  /\ k \notin stored /\ stored' = stored \cup {k}
  /\ NotYetPushed = {} /\ NotYetPushed' = {k}
  /\ UNCHANGED <<Pending, lipp>>

QueuePush(k) ==
  /\ Pending' = Append(Pending, k)
  /\ NotYetPushed = {k} /\ NotYetPushed' = {}
  /\ UNCHANGED <<lipp, stored>>

QueueMigrate ==
  /\ Pending # <<>>
  /\ Pending' = Tail(Pending)
  /\ lipp' = lipp \cup {Head(Pending)}
  /\ UNCHANGED <<stored, NotYetPushed>>

\* Every step of the two threads is one of these.
LEMMA QueueStep ==
  ASSUME ControlInv, [Next]_vars
  PROVE  QueueSame \/ QueueBuild \/ QueueMigrate \/ \E k \in Keys : QueueBegin(k) \/ QueuePush(k)
<1> USE DEF ControlInv, LockInv, PhaseInv, BatchInv, NotYetPushed, Goto
<1>0. /\ buffer \in Seq(Keys) /\ items_to_flush \in [Thread -> Seq(Keys)]
      /\ items_to_flush["worker"] \in Seq(Keys)
      /\ pc \in [Thread -> MainPC \cup WorkerPC]
  BY DEF TypeOK, Thread
<1>1. ASSUME InsertLock PROVE QueueSame
  BY <1>0, <1>1 DEF InsertLock, QueueSame, Pending, Thread, store, call
<1>2. ASSUME InsertNotify PROVE QueueSame
  BY <1>0, <1>2 DEF InsertNotify, NotifyOne, QueueSame, Pending, Thread, store, call
<1>3. ASSUME InsertUnlock PROVE QueueSame
  BY <1>0, <1>3 DEF InsertUnlock, QueueSame, Pending, Thread, store, call
<1>4. ASSUME NEW k \in Keys, LookupBegin(k) PROVE QueueSame
  BY <1>0, <1>4 DEF LookupBegin, QueueSame, Pending, Thread, store, call
<1>5. ASSUME LookupLipp PROVE QueueSame
  BY <1>0, <1>5 DEF LookupLipp, QueueSame, Pending, Thread, store, call
<1>6. ASSUME LookupPgm PROVE QueueSame
  BY <1>0, <1>6 DEF LookupPgm, QueueSame, Pending, Thread, store, call
<1>7. ASSUME NEW lo \in Keys, NEW hi \in Keys, RangeQuery(lo, hi) PROVE QueueSame
  BY <1>0, <1>7 DEF RangeQuery, QueueSame, Pending, Thread, store, call
<1>8. ASSUME SizeBegin PROVE QueueSame
  BY <1>0, <1>8 DEF SizeBegin, QueueSame, Pending, Thread, store, call
<1>9. ASSUME SizeEnd PROVE QueueSame
  BY <1>0, <1>9 DEF SizeEnd, QueueSame, Pending, Thread, store, call
<1>10. ASSUME DtorBegin PROVE QueueSame
  BY <1>0, <1>10 DEF DtorBegin, QueueSame, Pending, Thread, store, call
<1>11. ASSUME DtorLock PROVE QueueSame
  BY <1>0, <1>11 DEF DtorLock, QueueSame, Pending, Thread, store, call
<1>12. ASSUME DtorStop PROVE QueueSame
  BY <1>0, <1>12 DEF DtorStop, QueueSame, Pending, Thread, store, call
<1>13. ASSUME DtorNotify PROVE QueueSame
  BY <1>0, <1>13 DEF DtorNotify, NotifyOne, QueueSame, Pending, Thread, store, call
<1>14. ASSUME DtorJoin PROVE QueueSame
  BY <1>0, <1>14 DEF DtorJoin, QueueSame, Pending, Thread, store, call
<1>15. ASSUME NEW t \in Thread, FlushLock(t) PROVE QueueSame
  BY <1>0, <1>15 DEF FlushLock, QueueSame, Pending, Thread, store, call
<1>16. ASSUME NEW t \in Thread, LippInsertBegin(t) PROVE QueueSame
  BY <1>0, <1>16 DEF LippInsertBegin, QueueSame, Pending, Thread, store, call
<1>17. ASSUME NEW from \in {"w_lock", "w_relock"}, WorkerLock(from) PROVE QueueSame
  BY <1>0, <1>17 DEF WorkerLock, QueueSame, Pending, Thread, store, call
<1>18. ASSUME WorkerPred PROVE QueueSame
  BY <1>0, <1>18 DEF WorkerPred, QueueSame, Pending, Thread, store, call
<1>19. ASSUME WorkerBlock PROVE QueueSame
  BY <1>0, <1>19 DEF WorkerBlock, QueueSame, Pending, Thread, store, call
<1>20. ASSUME WorkerCheck PROVE QueueSame
  BY <1>0, <1>20 DEF WorkerCheck, QueueSame, Pending, Thread, store, call
<1>21. ASSUME WorkerSpuriousWakeup PROVE QueueSame
  BY <1>0, <1>21 DEF WorkerSpuriousWakeup, QueueSame, Pending, Thread, store, call
<1>30. ASSUME Build PROVE QueueBuild
  <2>1. items_to_flush["worker"] = <<>> /\ buffer = <<>> /\ lipp = {} /\ stored = {}
    BY <1>30 DEF Build, FlushPC
  <2>2. Pending = <<>> /\ Pending' = <<>>
    BY <1>30, <2>1 DEF Build, Pending
  <2> QED
    BY <1>0, <1>30, <2>1, <2>2 DEF Build, QueueBuild, Thread
<1>31. ASSUME NEW k \in Keys, InsertPgm(k) PROVE QueueBegin(k)
  BY <1>0, <1>31 DEF InsertPgm, QueueBegin, Pending, Thread
<1>32. ASSUME InsertPush PROVE arg \in Keys /\ QueuePush(arg)
  <2>1. arg \in Keys
    BY <1>32 DEF InsertPush
  <2>2. Pending' = Append(Pending, arg)
    <3> DEFINE batch == items_to_flush["worker"]
    <3>1. batch \o Append(buffer, arg) = Append(batch \o buffer, arg)
      BY <1>0, <2>1, AppendPending
    <3>2. batch' = batch /\ buffer' = Append(buffer, arg)
      BY <1>32 DEF InsertPush, Pushed
    <3> QED
      BY <3>1, <3>2 DEF Pending
  <2> QED
    BY <1>0, <1>32, <2>1, <2>2 DEF InsertPush, QueuePush, Thread
<1>33. ASSUME NEW t \in Thread, FlushTake(t) PROVE QueueSame
  <2>1. t = "worker" /\ items_to_flush["worker"] = <<>>
    BY <1>33 DEF FlushTake, Thread
  <2>2. FlushSize \in 0..Len(buffer)
    BY <1>0, FlushAssumption DEF FlushSize, Least
  <2>3. SubSeq(buffer, 1, FlushSize) \o Kept = buffer
    BY <1>0, <2>2, TakeBatch DEF Kept
  <2>4. Pending' = Pending
    <3>1. <<>> \o buffer = buffer
      BY <1>0, ConcatEmptySeq
    <3>2. items_to_flush'["worker"] = SubSeq(buffer, 1, FlushSize) /\ buffer' = Kept
      BY <1>0, <1>33, <2>1 DEF FlushTake, Thread
    <3>3. Pending' = SubSeq(buffer, 1, FlushSize) \o Kept
      BY <3>2 DEF Pending
    <3>4. Pending = <<>> \o buffer
      BY <2>1 DEF Pending
    <3> QED
      BY <2>3, <3>1, <3>3, <3>4
  <2> QED
    BY <1>0, <1>33, <2>1, <2>4 DEF FlushTake, QueueSame, Thread, call
<1>34. ASSUME NEW t \in Thread, LippInsertEnd(t) PROVE QueueMigrate
  <2>1. t = "worker" /\ items_to_flush["worker"] # <<>>
    BY <1>34 DEF LippInsertEnd, Thread
  <2>2. items_to_flush'["worker"] = Tail(items_to_flush["worker"])
    BY <1>0, <1>34, <2>1 DEF LippInsertEnd, Thread
  <2>3. /\ Pending # <<>> /\ Head(Pending) = Head(items_to_flush["worker"])
        /\ Pending' = Tail(Pending)
    <3> DEFINE batch == items_to_flush["worker"]
    <3>1. /\ batch \o buffer # <<>> /\ Head(batch \o buffer) = Head(batch)
          /\ Tail(batch \o buffer) = Tail(batch) \o buffer
      BY <1>0, <2>1, TailPending
    <3>2. batch' = Tail(batch) /\ buffer' = buffer
      BY <1>34, <2>2 DEF LippInsertEnd
    <3> QED
      BY <3>1, <3>2 DEF Pending
  <2> QED
    BY <1>0, <1>34, <2>1, <2>3 DEF LippInsertEnd, QueueMigrate, Thread, call
<1>35. CASE UNCHANGED vars
  BY <1>35 DEF vars, QueueSame, Pending
<1> QED
  BY <1>1, <1>2, <1>3, <1>4, <1>5, <1>6, <1>7, <1>8, <1>9, <1>10, <1>11, <1>12, <1>13, <1>14, <1>15, <1>16, <1>17, <1>18, <1>19, <1>20, <1>21, <1>30, <1>31, <1>32, <1>33, <1>34, <1>35
     DEF Next, MainCall, MainRuns, MainStep, FlushStep, WorkerRuns, WorkerStep, Terminated, Thread

\* None of them breaks the accounting.
LEMMA AccountedNext ==
  ASSUME ControlInv, Accounted, [Next]_vars
  PROVE  Accounted'
<1>1. Pending \in Seq(Keys) /\ PendingKeys = Elems(Pending) /\ PendingKeys' = Elems(Pending')
  BY ConcatProperties DEF ControlInv, TypeOK, Thread, Pending, PendingKeys, Elems
<1>2. Distinct(Pending)
  BY DEF Accounted, Distinct
<1>3. CASE QueueSame
  BY <1>1, <1>2, <1>3 DEF QueueSame, Accounted, Distinct
<1>4. CASE QueueBuild
  <2>1. Elems(<<>>) = {} /\ Distinct(<<>>)
    BY DEF Elems, Distinct
  <2> QED
    BY <1>1, <1>4, <2>1 DEF QueueBuild, Accounted, Distinct
<1>5. ASSUME NEW k \in Keys, QueueBegin(k) PROVE Accounted'
  BY <1>1, <1>2, <1>5 DEF QueueBegin, Accounted, Distinct
<1>6. ASSUME NEW k \in Keys, QueuePush(k) PROVE Accounted'
  <2>1. k \notin Elems(Pending) /\ k \notin lipp
    BY <1>1, <1>6 DEF QueuePush, Accounted
  <2>2. Elems(Pending') = Elems(Pending) \cup {k} /\ Distinct(Pending')
    BY <1>1, <1>2, <1>6, <2>1, AppendElems DEF QueuePush
  <2> QED
    BY <1>1, <1>6, <2>1, <2>2 DEF QueuePush, Accounted, Distinct
<1>7. CASE QueueMigrate
  <2>1. /\ Elems(Pending') = Elems(Pending) \ {Head(Pending)} /\ Distinct(Pending')
        /\ Head(Pending) \in Elems(Pending)
    BY <1>1, <1>2, <1>7, TailElems DEF QueueMigrate
  <2> QED
    BY <1>1, <1>7, <2>1 DEF QueueMigrate, Accounted, Distinct
<1> QED
  BY <1>3, <1>4, <1>5, <1>6, <1>7, QueueStep

-----------------------------------------------------------------------------
(* The inductive invariant holds, and with it what it implies.              *)

\* The constructor's state is accounted for: nothing is stored.
LEMMA IInvInit ==
  ASSUME Init
  PROVE  IInv
<1>1. Pending = <<>>
  BY DEF Init, Pending, Thread
<1>2. PendingKeys = {} /\ NotYetPushed = {}
  BY <1>1 DEF PendingKeys, NotYetPushed, Init, Thread
<1>3. \A i, j \in 1..Len(Pending) : Pending[i] = Pending[j] => i = j
  BY <1>1
<1>4. stored = {} /\ lipp = {}
  BY DEF Init
<1> QED
  BY <1>2, <1>3, <1>4, ControlInit DEF IInv, Accounted

\* IInv is an invariant of the specification.
THEOREM Invariance == Spec => []IInv
<1>1. Init => IInv
  BY IInvInit
<1>2. IInv /\ [Next]_vars => IInv'
  BY ControlNext, AccountedNext DEF IInv
<1> QED
  BY <1>1, <1>2, PTL DEF Spec

\* Type correctness; in particular pgm_size, a size_t, never wraps below zero
\* when flush_buffer takes a batch off it.
THEOREM TypeCorrect == Spec => []TypeOK
<1>1. IInv => TypeOK
  BY DEF IInv, ControlInv
<1> QED
  BY <1>1, Invariance, PTL

\* Insert and flush_buffer lose no item and flush none twice.
THEOREM EveryItemAccounted == Spec => []Accounted
<1>1. IInv => Accounted
  BY DEF IInv
<1> QED
  BY <1>1, Invariance, PTL

\* The unlocked buffer.empty() of flush_worker never races with a change of
\* the buffer.
THEOREM UnlockedReadIsSafe == Spec => []UnlockedReadSafe
<1>1. IInv => UnlockedReadSafe
  BY DEF IInv, ControlInv, TypeOK, LockInv, PhaseInv, UnlockedReadSafe,
         WorkerReadsBuffer, Thread
<1> QED
  BY <1>1, Invariance, PTL

\* The destructor of an asynchronous index leaves every item in LIPP.
THEOREM DestructorDrains == Spec => []DrainedAtJoin
<1>1. ASSUME IInv, Async, pc["main"] = "done" PROVE lipp = stored /\ Pending = <<>>
  <2>1. items_to_flush["worker"] = <<>> /\ buffer = <<>>
    BY <1>1 DEF IInv, ControlInv, PhaseInv, BatchInv
  <2>2. Pending = <<>>
    BY <2>1 DEF Pending
  <2>3. PendingKeys = {} /\ NotYetPushed = {}
    BY <1>1, <2>2 DEF PendingKeys, NotYetPushed
  <2> QED
    BY <1>1, <2>2, <2>3 DEF IInv, Accounted
<1>2. IInv => DrainedAtJoin
  BY <1>1 DEF DrainedAtJoin
<1> QED
  BY <1>2, Invariance, PTL

\* The flush path implements the write-behind queue: whatever the sizes of the
\* batches, items reach LIPP one by one, once, in the order of the inserts.
THEOREM ImplementsWriteBehind == Spec => FlushesInOrder
<1>1. Init => WB!Init
  BY DEF Init, WB!Init, Pending, Thread
<1>2. IInv /\ [Next]_vars => [WB!Next]_(WB!vars)
  <2> SUFFICES ASSUME IInv, [Next]_vars PROVE [WB!Next]_(WB!vars)
    OBVIOUS
  <2>1. CASE QueueSame
    BY <2>1 DEF QueueSame, WB!vars
  <2>2. CASE QueueBuild
    BY <2>2 DEF QueueBuild, WB!Next, WB!Load
  <2>3. ASSUME NEW k \in Keys, QueueBegin(k) PROVE [WB!Next]_(WB!vars)
    BY <2>3 DEF QueueBegin, WB!vars
  <2>4. ASSUME NEW k \in Keys, QueuePush(k) PROVE [WB!Next]_(WB!vars)
    <3>1. k \notin lipp \cup WB!Waiting
      BY <2>4 DEF QueuePush, IInv, Accounted, PendingKeys, WB!Waiting
    <3> QED
      BY <2>4, <3>1 DEF QueuePush, WB!Next, WB!Put
  <2>5. CASE QueueMigrate
    BY <2>5 DEF QueueMigrate, WB!Next, WB!Migrate
  <2> QED
    BY <2>1, <2>2, <2>3, <2>4, <2>5, QueueStep DEF IInv
<1> QED
  BY <1>1, <1>2, Invariance, PTL DEF Spec, FlushesInOrder, WB!Spec

-----------------------------------------------------------------------------
(* Sizes.                                                                   *)

\* total_size counts the stored keys, but for the one an Insert is bringing.
CountInv ==
  /\ IsFiniteSet(stored)
  /\ Cardinality(stored) = total_size + Cardinality(NotYetPushed)

\* Only Build, Insert's first step and its push change the count.
LEMMA CountStep ==
  ASSUME ControlInv, [Next]_vars
  PROVE  \/ UNCHANGED <<stored, total_size, NotYetPushed>>
         \/ Build \/ InsertPush \/ \E k \in Keys : InsertPgm(k)
<1> USE DEF ControlInv, NotYetPushed, Goto
<1>0. pc \in [Thread -> MainPC \cup WorkerPC] /\ "main" \in Thread /\ "worker" \in Thread
  BY DEF TypeOK, Thread
<1>1. ASSUME InsertLock PROVE UNCHANGED <<stored, total_size, NotYetPushed>>
  BY <1>0, <1>1 DEF InsertLock, store, call
<1>2. ASSUME InsertNotify PROVE UNCHANGED <<stored, total_size, NotYetPushed>>
  BY <1>0, <1>2 DEF InsertNotify, NotifyOne, store, call
<1>3. ASSUME InsertUnlock PROVE UNCHANGED <<stored, total_size, NotYetPushed>>
  BY <1>0, <1>3 DEF InsertUnlock, store, call
<1>4. ASSUME NEW k \in Keys, LookupBegin(k) PROVE UNCHANGED <<stored, total_size, NotYetPushed>>
  BY <1>0, <1>4 DEF LookupBegin, store, call
<1>5. ASSUME LookupLipp PROVE UNCHANGED <<stored, total_size, NotYetPushed>>
  BY <1>0, <1>5 DEF LookupLipp, store, call
<1>6. ASSUME LookupPgm PROVE UNCHANGED <<stored, total_size, NotYetPushed>>
  BY <1>0, <1>6 DEF LookupPgm, store, call
<1>7. ASSUME NEW lo \in Keys, NEW hi \in Keys, RangeQuery(lo, hi) PROVE UNCHANGED <<stored, total_size, NotYetPushed>>
  BY <1>0, <1>7 DEF RangeQuery, store, call
<1>8. ASSUME SizeBegin PROVE UNCHANGED <<stored, total_size, NotYetPushed>>
  BY <1>0, <1>8 DEF SizeBegin, store, call
<1>9. ASSUME SizeEnd PROVE UNCHANGED <<stored, total_size, NotYetPushed>>
  BY <1>0, <1>9 DEF SizeEnd, store, call
<1>10. ASSUME DtorBegin PROVE UNCHANGED <<stored, total_size, NotYetPushed>>
  BY <1>0, <1>10 DEF DtorBegin, store, call
<1>11. ASSUME DtorLock PROVE UNCHANGED <<stored, total_size, NotYetPushed>>
  BY <1>0, <1>11 DEF DtorLock, store, call
<1>12. ASSUME DtorStop PROVE UNCHANGED <<stored, total_size, NotYetPushed>>
  BY <1>0, <1>12 DEF DtorStop, store, call
<1>13. ASSUME DtorNotify PROVE UNCHANGED <<stored, total_size, NotYetPushed>>
  BY <1>0, <1>13 DEF DtorNotify, NotifyOne, store, call
<1>14. ASSUME DtorJoin PROVE UNCHANGED <<stored, total_size, NotYetPushed>>
  BY <1>0, <1>14 DEF DtorJoin, store, call
<1>15. ASSUME NEW t \in Thread, FlushLock(t) PROVE UNCHANGED <<stored, total_size, NotYetPushed>>
  BY <1>0, <1>15 DEF FlushLock, LockInv, Thread, store, call
<1>16. ASSUME NEW t \in Thread, FlushTake(t) PROVE UNCHANGED <<stored, total_size, NotYetPushed>>
  BY <1>0, <1>16 DEF FlushTake, FlushReturn, LockInv, Thread, store, call
<1>17. ASSUME NEW t \in Thread, LippInsertBegin(t) PROVE UNCHANGED <<stored, total_size, NotYetPushed>>
  BY <1>0, <1>17 DEF LippInsertBegin, LockInv, Thread, store, call
<1>18. ASSUME NEW t \in Thread, LippInsertEnd(t) PROVE UNCHANGED <<stored, total_size, NotYetPushed>>
  BY <1>0, <1>18 DEF LippInsertEnd, FlushReturn, LockInv, Thread, store, call
<1>19. ASSUME NEW from \in {"w_lock", "w_relock"}, WorkerLock(from) PROVE UNCHANGED <<stored, total_size, NotYetPushed>>
  BY <1>0, <1>19 DEF WorkerLock, store, call
<1>20. ASSUME WorkerPred PROVE UNCHANGED <<stored, total_size, NotYetPushed>>
  BY <1>0, <1>20 DEF WorkerPred, store, call
<1>21. ASSUME WorkerBlock PROVE UNCHANGED <<stored, total_size, NotYetPushed>>
  BY <1>0, <1>21 DEF WorkerBlock, store, call
<1>22. ASSUME WorkerCheck PROVE UNCHANGED <<stored, total_size, NotYetPushed>>
  BY <1>0, <1>22 DEF WorkerCheck, store, call
<1>23. ASSUME WorkerSpuriousWakeup PROVE UNCHANGED <<stored, total_size, NotYetPushed>>
  BY <1>0, <1>23 DEF WorkerSpuriousWakeup, store, call
<1>24. CASE UNCHANGED vars
  BY <1>24 DEF vars
<1> QED
  BY <1>1, <1>2, <1>3, <1>4, <1>5, <1>6, <1>7, <1>8, <1>9, <1>10, <1>11, <1>12, <1>13, <1>14, <1>15, <1>16, <1>17, <1>18, <1>19, <1>20, <1>21, <1>22, <1>23, <1>24
     DEF Next, MainCall, MainRuns, MainStep, FlushStep, WorkerRuns, WorkerStep, Terminated, Thread

\* pgm_size is the length of the buffer whenever anyone reads it, with or
\* without buffer_mutex, and total_size misses no item.
THEOREM SizesAlwaysAgree == Spec => []SizesAgree
<1>1. Init => CountInv
  <2> SUFFICES ASSUME Init PROVE CountInv
    OBVIOUS
  <2>1. stored = {} /\ NotYetPushed = {} /\ total_size = 0
    BY DEF Init, NotYetPushed, Thread
  <2> QED
    BY <2>1, FS_EmptySet DEF CountInv
<1>2. IInv /\ CountInv /\ [Next]_vars => CountInv'
  <2> SUFFICES ASSUME IInv, CountInv, [Next]_vars PROVE CountInv'
    OBVIOUS
  <2>0. /\ ControlInv /\ total_size \in Nat
        /\ pc \in [Thread -> MainPC \cup WorkerPC] /\ "main" \in Thread
    BY DEF IInv, ControlInv, TypeOK, Thread
  <2>1. CASE UNCHANGED <<stored, total_size, NotYetPushed>>
    BY <2>1 DEF CountInv
  <2>2. CASE Build
    <3>1. stored' = BulkKeys /\ total_size' = Cardinality(BulkKeys) /\ NotYetPushed' = {}
      BY <2>0, <2>2 DEF Build, NotYetPushed, Goto
    <3>2. Cardinality(BulkKeys) \in Nat
      BY KeysAssumption, FS_CardinalityType
    <3> QED
      BY <3>1, <3>2, KeysAssumption, FS_EmptySet DEF CountInv
  <2>3. ASSUME NEW k \in Keys, InsertPgm(k) PROVE CountInv'
    <3>1. /\ stored' = stored \cup {k} /\ k \notin stored /\ total_size' = total_size
          /\ NotYetPushed = {} /\ NotYetPushed' = {k}
      BY <2>0, <2>3 DEF InsertPgm, NotYetPushed, Goto
    <3>2. IsFiniteSet(stored') /\ Cardinality(stored') = Cardinality(stored) + 1
      BY <3>1, FS_AddElement DEF CountInv
    <3>3. Cardinality(NotYetPushed) = 0 /\ Cardinality(NotYetPushed') = 1
      BY <3>1, FS_EmptySet, FS_Singleton
    <3> QED
      BY <2>0, <3>1, <3>2, <3>3 DEF CountInv
  <2>4. CASE InsertPush
    <3>1. /\ stored' = stored /\ total_size' = total_size + 1
          /\ NotYetPushed = {arg} /\ NotYetPushed' = {}
      BY <2>0, <2>4 DEF InsertPush, NotYetPushed, Goto
    <3>2. Cardinality(NotYetPushed) = 1 /\ Cardinality(NotYetPushed') = 0
      BY <3>1, FS_EmptySet, FS_Singleton
    <3> QED
      BY <2>0, <3>1, <3>2 DEF CountInv
  <2> QED
    BY <2>0, <2>1, <2>2, <2>3, <2>4, CountStep
<1>3. IInv /\ CountInv => SizesAgree
  BY DEF IInv, ControlInv, BatchInv, CountInv, SizesAgree
<1> QED
  BY <1>1, <1>2, <1>3, Invariance, PTL DEF Spec
-----------------------------------------------------------------------------
(* Lookups.                                                                 *)

\* A step leaves reply and stored alone, clears the reply, is Build, or gives
\* an answer; an absence is reported only after the PGM index was asked.
LEMMA ReplyStep ==
  ASSUME ControlInv, [Next]_vars
  PROVE  \/ UNCHANGED <<stored, reply>>
         \/ reply' = NoReply
         \/ stored' = BulkKeys
         \/ /\ stored' = stored
            /\ reply'.op = "lookup" /\ reply'.val = "miss" => reply'.lo \notin pgm
<1> DEFINE Goal == \/ UNCHANGED <<stored, reply>>
                   \/ reply' = NoReply
                   \/ stored' = BulkKeys
                   \/ /\ stored' = stored
                      /\ reply'.op = "lookup" /\ reply'.val = "miss" => reply'.lo \notin pgm
<1>1. ASSUME MainCall PROVE Goal
  BY <1>1 DEF MainCall, Build, InsertPgm, LookupBegin, RangeQuery, SizeBegin, DtorBegin, store
<1>2. ASSUME LookupLipp PROVE Goal
  <2>1. stored' = stored
    BY <1>2 DEF LookupLipp, store
  <2>2. reply' = reply \/ \E v \in {"hit", "garbage"} : reply' = Found(arg, v)
    BY <1>2 DEF LookupLipp
  <2> QED
    BY <2>1, <2>2 DEF Found
<1>3. ASSUME LookupPgm PROVE Goal
  <2>1. stored' = stored /\ reply' = Found(arg, IF arg \in pgm THEN "hit" ELSE "miss")
    BY <1>3 DEF LookupPgm, store
  <2> QED
    BY <2>1 DEF Found
<1>4. ASSUME MainStep, ~LookupLipp, ~LookupPgm PROVE Goal
  BY <1>4 DEF MainStep, InsertLock, InsertPush, InsertNotify, InsertUnlock, SizeEnd,
              DtorLock, DtorStop, DtorNotify, DtorJoin, store, call
<1>5. ASSUME NEW t \in Thread, FlushStep(t) PROVE Goal
  BY <1>5 DEF FlushStep, FlushLock, FlushTake, LippInsertBegin, LippInsertEnd, store, call
<1>6. ASSUME WorkerStep \/ WorkerSpuriousWakeup PROVE Goal
  BY <1>6 DEF WorkerStep, WorkerLock, WorkerPred, WorkerBlock, WorkerCheck,
              WorkerSpuriousWakeup, store, call
<1>7. ASSUME UNCHANGED vars PROVE Goal
  BY <1>7 DEF vars
<1> QED
  BY <1>1, <1>2, <1>3, <1>4, <1>5, <1>6, <1>7
     DEF Next, MainRuns, WorkerRuns, Terminated, Thread

\* EqualityLookup never reports an inserted key absent, whatever stage of its
\* way to LIPP it is at and whatever the race on LIPP made of the first answer:
\* the PGM index keeps every inserted key, and only Build and Insert add keys.
THEOREM NeverMissesAnInsert == Spec => []InsertedNeverMissed
<1>1. Init => InsertedNeverMissed
  BY DEF Init, InsertedNeverMissed, NoReply
<1>2. IInv /\ InsertedNeverMissed /\ [Next]_vars => InsertedNeverMissed'
  <2> SUFFICES ASSUME IInv, InsertedNeverMissed, [Next]_vars PROVE InsertedNeverMissed'
    OBVIOUS
  <2>1. ControlInv /\ pgm = stored \ BulkKeys
    BY DEF IInv, ControlInv, BatchInv
  <2>2. CASE UNCHANGED <<stored, reply>>
    BY <2>2 DEF InsertedNeverMissed
  <2>3. CASE reply' = NoReply
    BY <2>3 DEF InsertedNeverMissed, NoReply
  <2>4. CASE stored' = BulkKeys
    BY <2>4 DEF InsertedNeverMissed
  <2>5. CASE /\ stored' = stored
             /\ reply'.op = "lookup" /\ reply'.val = "miss" => reply'.lo \notin pgm
    BY <2>1, <2>5 DEF InsertedNeverMissed
  <2> QED
    BY <2>1, <2>2, <2>3, <2>4, <2>5, ReplyStep
<1> QED
  BY <1>1, <1>2, Invariance, PTL DEF Spec
=============================================================================
