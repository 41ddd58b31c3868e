----------------------------- MODULE LogManager ------------------------------
(***************************************************************************)
(* The log manager (logging/log_manager.cpp): transactions append records  *)
(* to one buffer while the flush thread writes the other one to the log    *)
(* file.  The thread is woken by a timeout, by an AppendLogRecord that     *)
(* finds the buffer full, and by the buffer pool, which waits on a promise *)
(* until the records of a page it evicts are persistent.                   *)
(*                                                                         *)
(* The latch makes the clients' calls steps.  The thread releases it       *)
(* before it looks at next_lsn_ and flush_buffer_, and the pool tests      *)
(* persistent_lsn_ before it takes it; every client may run in between.    *)
(***************************************************************************)
EXTENDS Integers, Sequences

CONSTANTS
    BufferSize,     \* LOG_BUFFER_SIZE
    RecordSize,     \* the sizes of log records
    MaxRecords,     \* bound on the records appended
    NameLsn         \* what the pool may take for the LSN of the header page:
                    \* the first bytes of the first name in it

ASSUME BufferAssumption ==
    /\ BufferSize \in Nat \ {0} /\ MaxRecords \in Nat
    /\ RecordSize \subseteq 1..BufferSize
ASSUME NameAssumption == NameLsn \subseteq Int

VARIABLES
    buffer,         \* the two buffers: in each byte the LSN of a record, or -1
    log_buffer,     \* the one appended to; flush_buffer_ is the other
    offset,
    sizes,          \* the sizes of the records appended, from LSN 0 on
    flush_lsn,
    persistent_lsn,
    promise,        \* the one of the evicting thread: "null", "unset", "set"
    pool,           \* where the evicting thread is: "idle", "wakes", "waits"
    thread,         \* where the flush thread is; "dead": the process is aborted
    delta,          \* its copy of flush_lsn_
    buffer_used,    \* DiskManager: the buffer written last, 0 if none
    log_file,       \* the buffers written, in order
    handed,         \* ghost: the last LSN in flush_buffer_, which is flush_lsn_
                    \* from the first swap on
    filed,          \* ghost: the last LSN of the buffer written last
    ordered         \* ghost: swaps and writes have alternated

logVars == <<buffer, log_buffer, offset, sizes, flush_lsn, persistent_lsn, promise, pool,
             thread, delta, buffer_used, log_file, handed, filed, ordered>>
clientVars == <<buffer, log_buffer, offset, sizes, flush_lsn, handed>>

next_lsn == Len(sizes)
Lsn == 0..(MaxRecords - 1)
Image == [1..BufferSize -> Lsn \cup {-1}]
flush_buffer == 3 - log_buffer

LogTypeOK ==
    /\ buffer \in [1..2 -> Image]
    /\ log_buffer \in 1..2
    /\ offset \in 0..BufferSize
    /\ sizes \in Seq(RecordSize) /\ next_lsn <= MaxRecords
    /\ flush_lsn \in Lsn \cup {-1, 0} /\ persistent_lsn \in Lsn \cup {-1, 0}
    /\ delta \in Lsn \cup {-1, 0}
    /\ promise \in {"null", "unset", "set"}
    /\ pool \in {"idle", "wakes", "waits"}
    /\ thread \in {"waiting", "notified", "timed_out", "unlocked", "calling", "writing",
                   "written", "persisted", "dead"}
    /\ buffer_used \in 0..2
    /\ log_file \in Seq(Image)
    /\ handed \in Lsn \cup {-1} /\ filed \in Lsn \cup {-1} /\ ordered \in BOOLEAN

LogInit ==
    /\ buffer = [b \in 1..2 |-> [k \in 1..BufferSize |-> -1]]
    /\ log_buffer = 1
    /\ offset = 0
    /\ sizes = <<>>
    /\ flush_lsn = 0 /\ persistent_lsn = -1
    /\ promise = "null" /\ pool = "idle"
    /\ thread = "waiting" /\ delta = 0
    /\ buffer_used = 0
    /\ log_file = <<>>
    /\ handed = -1 /\ filed = -1 /\ ordered = TRUE

-----------------------------------------------------------------------------
(* The clients.                                                            *)

Alive == thread # "dead"

\* cv_.notify_one: lost on a thread that does not wait.
Notified == IF thread = "waiting" THEN "notified" ELSE thread

\* swapBuffer, but for offset_.  It is in order when what was swapped before
\* is in the file and the thread is not at its write.
swapBuffer ==
    /\ log_buffer' = flush_buffer
    /\ flush_lsn' = next_lsn - 1
    /\ handed' = next_lsn - 1
    /\ ordered' = (ordered /\ handed = filed /\ thread # "writing")

NoSwap == UNCHANGED <<log_buffer, flush_lsn, handed, ordered>>

\* The bytes of image m after record l of size s is copied to position o.
Serialize(m, o, l, s) == [k \in 1..BufferSize |-> IF k \in (o + 1)..(o + s) THEN l ELSE m[k]]

\* The record does not fit in log_buffer_.
IsFull(s) == offset + s > BufferSize

\* Mutant: a full buffer is filled again from its start instead of swapped.
AppendLogRecordWraps(s) ==
    LET o == IF IsFull(s) THEN 0 ELSE offset
    IN  /\ Alive /\ next_lsn < MaxRecords
        /\ buffer' = [buffer EXCEPT ![log_buffer] = Serialize(buffer[log_buffer], o, next_lsn, s)]
        /\ offset' = o + s
        /\ sizes' = Append(sizes, s)
        /\ NoSwap
        /\ UNCHANGED <<thread, persistent_lsn, promise, pool, delta, buffer_used, log_file, filed>>

AppendLogRecord(s) ==
    LET b == IF IsFull(s) THEN flush_buffer ELSE log_buffer
        o == IF IsFull(s) THEN 0 ELSE offset
    IN  /\ Alive /\ next_lsn < MaxRecords
        /\ IF IsFull(s) THEN swapBuffer /\ thread' = Notified ELSE NoSwap /\ UNCHANGED thread
        /\ buffer' = [buffer EXCEPT ![b] = Serialize(buffer[b], o, next_lsn, s)]
        /\ offset' = o + s
        /\ sizes' = Append(sizes, s)
        /\ UNCHANGED <<persistent_lsn, promise, pool, delta, buffer_used, log_file, filed>>

\* The pool, one thread at a time, is to evict a page with LSN l and finds
\* that its records are not persistent.
Evict(l) ==
    /\ Alive /\ pool = "idle"
    /\ l > persistent_lsn
    /\ pool' = "wakes"
    /\ UNCHANGED <<clientVars, persistent_lsn, promise, thread, delta, buffer_used, log_file, filed, ordered>>

\* It gets the latch of the log manager.
WakeupFlushThread ==
    /\ Alive /\ pool = "wakes"
    /\ swapBuffer
    /\ offset' = 0
    /\ promise' = "unset" /\ pool' = "waits"
    /\ thread' = Notified
    /\ UNCHANGED <<buffer, sizes, persistent_lsn, delta, buffer_used, log_file, filed>>

\* promise->get_future().wait() returns; the pool tests the LSN again.
FlushDone ==
    /\ Alive /\ promise = "set"
    /\ promise' = "null" /\ pool' = "idle"
    /\ UNCHANGED <<clientVars, persistent_lsn, thread, delta, buffer_used, log_file, filed, ordered>>

-----------------------------------------------------------------------------
(* The flush thread.                                                       *)

\* LOG_TIMEOUT is over, or the wait ends without a reason.
TimeOut ==
    /\ thread = "waiting"
    /\ thread' = "timed_out"
    /\ UNCHANGED <<clientVars, persistent_lsn, promise, pool, delta, buffer_used, log_file, filed, ordered>>

SpuriousWakeup ==
    /\ thread = "waiting"
    /\ thread' = "notified"
    /\ UNCHANGED <<clientVars, persistent_lsn, promise, pool, delta, buffer_used, log_file, filed, ordered>>

\* Mutant: a timed out thread waits again without looking at the buffer.
ResumeIgnoresTimeout ==
    /\ thread \in {"notified", "timed_out"}
    /\ delta' = flush_lsn
    /\ thread' = IF thread = "timed_out" THEN "waiting" ELSE "unlocked"
    /\ UNCHANGED <<clientVars, persistent_lsn, promise, pool, buffer_used, log_file, filed, ordered>>

\* It has the latch again, swaps the buffers after a timeout and unlocks.
Resume ==
    /\ thread \in {"notified", "timed_out"}
    /\ IF thread = "timed_out" /\ offset # 0
       THEN swapBuffer /\ offset' = 0
       ELSE NoSwap /\ UNCHANGED offset
    /\ delta' = flush_lsn'
    /\ thread' = "unlocked"
    /\ UNCHANGED <<buffer, sizes, persistent_lsn, promise, pool, buffer_used, log_file, filed>>

\* Not all records are persistent, or it waits again.
TestPersistent ==
    /\ thread = "unlocked"
    /\ thread' = IF persistent_lsn + 1 # next_lsn THEN "calling" ELSE "waiting"
    /\ UNCHANGED <<clientVars, persistent_lsn, promise, pool, delta, buffer_used, log_file, filed, ordered>>

\* WriteLog asserts that it does not get the buffer of the last call.  It is
\* in order when flush_lsn_ had got its value from a swap.
StartWrite ==
    /\ thread = "calling"
    /\ IF flush_buffer # buffer_used
       THEN /\ buffer_used' = flush_buffer
            /\ thread' = "writing"
            /\ ordered' = (ordered /\ delta <= handed)
       ELSE /\ thread' = "dead"
            /\ UNCHANGED <<buffer_used, ordered>>
    /\ UNCHANGED <<clientVars, persistent_lsn, promise, pool, delta, log_file, filed>>

\* The whole buffer is written, with what is behind its last record.
WriteLog ==
    /\ thread = "writing"
    /\ log_file' = Append(log_file, buffer[buffer_used])
    /\ filed' = handed
    /\ thread' = "written"
    /\ UNCHANGED <<clientVars, persistent_lsn, promise, pool, delta, buffer_used, ordered>>

\* Mutant: the records appended during the write count as written.
SetPersistentLSNToNewest ==
    /\ thread = "written"
    /\ persistent_lsn' = next_lsn - 1
    /\ thread' = "persisted"
    /\ UNCHANGED <<clientVars, promise, pool, delta, buffer_used, log_file, filed, ordered>>

SetPersistentLSN ==
    /\ thread = "written"
    /\ persistent_lsn' = delta
    /\ thread' = "persisted"
    /\ UNCHANGED <<clientVars, promise, pool, delta, buffer_used, log_file, filed, ordered>>

\* Mutant: nobody is told that the write is done.
SetValueForgotten ==
    /\ thread = "persisted"
    /\ thread' = "waiting"
    /\ UNCHANGED <<clientVars, persistent_lsn, promise, pool, delta, buffer_used, log_file, filed, ordered>>

\* set_value throws, and nobody catches, if the promise is set already.
SetValue ==
    /\ thread = "persisted"
    /\ promise' = IF promise = "unset" THEN "set" ELSE promise
    /\ thread' = IF promise = "set" THEN "dead" ELSE "waiting"
    /\ UNCHANGED <<clientVars, persistent_lsn, pool, delta, buffer_used, log_file, filed, ordered>>

FlushThread == Resume \/ TestPersistent \/ StartWrite \/ WriteLog \/ SetPersistentLSN \/ SetValue

LogNext ==
    \/ \E s \in RecordSize : AppendLogRecord(s)
    \/ \E l \in 0..(next_lsn - 1) \cup NameLsn : Evict(l)
    \/ WakeupFlushThread
    \/ FlushDone
    \/ TimeOut \/ SpuriousWakeup
    \/ FlushThread

LogSpec == LogInit /\ [][LogNext]_logVars

\* The flush thread runs and its timeout passes; nothing is assumed of the
\* clients.
LogLiveSpec == LogSpec /\ WF_logVars(FlushThread) /\ WF_logVars(TimeOut)

-----------------------------------------------------------------------------
(* Properties.                                                             *)

\* Record l is in image m, whole and in one place.
Whole(m, l) ==
    \E o \in 0..(BufferSize - sizes[l + 1]) :
        \A k \in (o + 1)..(o + sizes[l + 1]) : m[k] = l

OnDisk(l) == \E n \in 1..Len(log_file) : Whole(log_file[n], l)

\* log_manager.h:68, which the pool's evictions and Commit rely on: the
\* records up to persistent_lsn_ are in the log file.  The code breaks it.
PersistentOnDisk == \A l \in 0..(next_lsn - 1) : l <= persistent_lsn => OnDisk(l)

\* The same once a buffer that was swapped has been written, when flush_lsn_ is
\* not the 0 of the constructor any more.  The code breaks it as well.
FlushedOnDisk == filed >= 0 => PersistentOnDisk

\* It is broken by the order of swaps and writes alone: as long as every
\* buffer is written between the swap that hands it over and the next one, and
\* the thread has flush_lsn_ from a swap, persistent_lsn_ keeps its promise,
\* whatever is appended, tested or evicted while the thread is anywhere.
PersistentInOrder == ordered => PersistentOnDisk

\* A crash at any time leaves a prefix of the log in the file, no record being
\* there without the ones appended before it, as long as swaps and writes
\* have alternated.
PrefixInOrder ==
    ordered => \A l \in 0..(next_lsn - 1) : OnDisk(l) => \A m \in 0..l : OnDisk(m)

\* The assertion at the start of WriteLog (disk_manager.cpp:111).  The code
\* breaks it.
WriteSwapped == thread = "calling" => flush_buffer # buffer_used

\* Every record becomes persistent, so the loops in Commit and Abort that wait
\* for it end, unless the process is aborted: no notification that is lost and
\* no swap at the wrong time leaves a record behind for ever.
CommitReturns ==
    \A l \in Lsn : next_lsn > l ~> persistent_lsn >= l \/ ~Alive

\* The pool, which waits with its own latch held, is told as soon as the flush
\* thread has written, if there is a record to write at any time of its wait.
EvictionTold ==
    promise = "unset" /\ persistent_lsn + 1 # next_lsn ~> promise # "unset" \/ ~Alive

\* The wait of the pool ends.  The code breaks it.
EvictionReturns == promise = "unset" ~> promise # "unset" \/ ~Alive
=============================================================================
