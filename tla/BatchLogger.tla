----------------------------- MODULE BatchLogger -----------------------------
(***************************************************************************)
(* The batching logger, logger/batch.go.                                   *)
(*                                                                         *)
(* bl.mu protects the buffer and the statistics, but flushBuffer gives it  *)
(* up while it writes: it takes the whole buffer as its own batch, unlocks,*)
(* writes the batch entry by entry and locks again.  So a critical section *)
(* is one action, each entry written is one action, and any number of      *)
(* goroutines may be writing a batch of their own at the same time.        *)
(*                                                                         *)
(* Entries are <<producer, number>>.  The four levels take the same path   *)
(* and are not told apart; FlushCount and AvgBatchSize are written and     *)
(* never read.                                                             *)
(***************************************************************************)
EXTENDS Integers, Sequences, FiniteSets

CONSTANTS Producer,        \* goroutines that log
          Processor,       \* the batchProcessor goroutine
          Configs,         \* BatchConfigs the program may choose: [flush, buffer], the sizes
          MaxLogs          \* bound: log calls of one producer

ASSUME BatchAssumption == /\ Processor \notin Producer
                          /\ Configs \subseteq [flush : Int, buffer : Int]
                          /\ MaxLogs \in Nat

\* NewBatchLogger's defaults for sizes that are not positive.
Effective(config) == [flush  |-> IF config.flush <= 0 THEN 100 ELSE config.flush,
                      buffer |-> IF config.buffer <= 0 THEN 1000 ELSE config.buffer]

Writer == Producer \cup {Processor}
Entry == Producer \X (1 .. MaxLogs)

VARIABLES
  enabled,    \* the BatchLogger has been created (globalBatchLogger is not nil)
  size,       \* size.flush: bl.flushSize; size.buffer: the capacity of bl.buffer
  buffer,     \* bl.buffer
  batch,      \* batch[q]: what goroutine q has taken and not yet written
  written,    \* what the underlying zap logger received, in order
  total,      \* stats.TotalLogs
  batched,    \* stats.BatchedLogs
  dropped,    \* stats.DroppedLogs
  stopped,    \* bl.stopCh is closed
  processor,  \* "off", "loop", "last" during the final flush, "exited"
  closing,    \* Close: "no", "waiting" in wg.Wait, "returned"
  alive,      \* the process runs: false after Fatal or a panic
  sent,       \* sent[p]: log calls made by p (history)
  direct,     \* entries written without the buffer (history)
  promised    \* entries in the buffer or with the processor when Close was called (history)

counters == <<total, batched, dropped>>
history == <<sent, direct, promised>>
vars == <<enabled, size, buffer, batch, written, counters, stopped, processor, closing,
          alive, history>>

Elements(s) == {s[i] : i \in 1 .. Len(s)}

-------------------------------------------------------------------------------
Init == /\ enabled = FALSE
        /\ size = [flush |-> 0, buffer |-> 0]
        /\ buffer = <<>>
        /\ batch = [q \in Writer |-> <<>>]
        /\ written = <<>>
        /\ total = 0 /\ batched = 0 /\ dropped = 0
        /\ stopped = FALSE
        /\ processor = "off"
        /\ closing = "no"
        /\ alive = TRUE
        /\ sent = [p \in Producer |-> 0]
        /\ direct = 0
        /\ promised = {}

\* EnableBatchLogging under its sync.Once, and NewBatchLogger.
Enable == /\ alive
          /\ ~enabled
          /\ enabled' = TRUE
          /\ \E config \in Configs : size' = Effective(config)
          /\ processor' = "loop"
          /\ UNCHANGED <<buffer, batch, written, counters, stopped, closing, alive, history>>

\* p is between two log calls and makes another one.
Calls(p) == /\ alive
            /\ batch[p] = <<>>
            /\ sent[p] < MaxLogs
            /\ sent' = [sent EXCEPT ![p] = @ + 1]

NewEntry(p) == <<p, sent[p] + 1>>

\* Mutants of Take: the buffer is not emptied, or the batch is not written.
TakeAndKeep(q, b) == /\ batch' = [batch EXCEPT ![q] = b]
                     /\ buffer' = b
                     /\ batched' = batched + Len(b)
TakeAndLose(q, b) == /\ batch' = batch
                     /\ buffer' = <<>>
                     /\ batched' = batched + Len(b)

\* flushBuffer up to its unlock, with b in the buffer.  An empty buffer makes it
\* return at once, which is the same.
Take(q, b) == /\ batch' = [batch EXCEPT ![q] = b]
              /\ buffer' = <<>>
              /\ batched' = batched + Len(b)

FlushDue(b) == Len(b) >= size.flush

\* Mutant of Full: an off-by-one.
FullLate == Len(buffer) > size.buffer

Full == Len(buffer) >= size.buffer

\* addEntry: a full buffer refuses the entry and counts it.
AddRefused(p) ==
  /\ enabled
  /\ Full
  /\ Calls(p)
  /\ dropped' = dropped + 1
  /\ UNCHANGED <<enabled, size, buffer, batch, written, total, batched, stopped, processor,
                 closing, alive, direct, promised>>

\* addEntry: the entry is appended, and p flushes when the threshold is reached.
AddEntry(p) ==
  /\ enabled
  /\ ~Full
  /\ Calls(p)
  /\ total' = total + 1
  /\ LET b == Append(buffer, NewEntry(p))
     IN  IF FlushDue(b)
           THEN Take(p, b)
           ELSE buffer' = b /\ UNCHANGED <<batch, batched>>
  /\ UNCHANGED <<enabled, size, written, dropped, stopped, processor, closing, alive, direct, promised>>

\* BatchDebug ... BatchError while globalBatchLogger is nil.  It is read without
\* synchronisation, so a goroutine may still see nil after Enable.
LogDirect(p) ==
  /\ Calls(p)
  /\ written' = Append(written, NewEntry(p))
  /\ direct' = direct + 1
  /\ UNCHANGED <<enabled, size, buffer, batch, counters, stopped, processor, closing, alive, promised>>

\* Flush and FlushBatchLogs.
Flush(p) ==
  /\ alive
  /\ enabled
  /\ batch[p] = <<>>
  /\ buffer # <<>>
  /\ Take(p, buffer)
  /\ UNCHANGED <<enabled, size, written, total, dropped, stopped, processor, closing, alive, history>>

\* writeBatch: the next entry of q's batch.
WriteNext(q) ==
  /\ alive
  /\ batch[q] # <<>>
  /\ written' = Append(written, Head(batch[q]))
  /\ batch' = [batch EXCEPT ![q] = Tail(@)]
  /\ UNCHANGED <<enabled, size, buffer, counters, stopped, processor, closing, alive, history>>

\* Fatal: zap writes the entry and ends the process.
Fatal(p) ==
  /\ enabled
  /\ Calls(p)
  /\ written' = Append(written, NewEntry(p))
  /\ direct' = direct + 1
  /\ alive' = FALSE
  /\ UNCHANGED <<enabled, size, buffer, batch, counters, stopped, processor, closing, promised>>

-------------------------------------------------------------------------------
\* batchProcessor: a tick.  It may still win the select after Close.
Tick ==
  /\ alive
  /\ processor = "loop"
  /\ batch[Processor] = <<>>
  /\ buffer # <<>>
  /\ Take(Processor, buffer)
  /\ UNCHANGED <<enabled, size, written, total, dropped, stopped, processor, closing, alive, history>>

\* Mutant of StopReceived: the goroutine leaves without its last flush.
StopReceivedNoFlush ==
  /\ alive
  /\ processor = "loop"
  /\ batch[Processor] = <<>>
  /\ stopped
  /\ processor' = "last"
  /\ UNCHANGED <<enabled, size, buffer, batch, written, counters, stopped, closing, alive, history>>

\* batchProcessor: stopCh is closed; the last flush begins.
StopReceived ==
  /\ alive
  /\ processor = "loop"
  /\ batch[Processor] = <<>>
  /\ stopped
  /\ processor' = "last"
  /\ Take(Processor, buffer)
  /\ UNCHANGED <<enabled, size, written, total, dropped, stopped, closing, alive, history>>

\* batchProcessor: the last batch is written, wg.Done.
ProcessorExit ==
  /\ alive
  /\ processor = "last"
  /\ batch[Processor] = <<>>
  /\ processor' = "exited"
  /\ UNCHANGED <<enabled, size, buffer, batch, written, counters, stopped, closing, alive, history>>

\* Close: close(stopCh).
Close ==
  /\ alive
  /\ enabled
  /\ ~stopped
  /\ stopped' = TRUE
  /\ closing' = "waiting"
  /\ promised' = Elements(buffer) \cup Elements(batch[Processor])
  /\ UNCHANGED <<enabled, size, buffer, batch, written, counters, processor, alive, sent, direct>>

\* A second Close closes a closed channel, which panics.
CloseAgain ==
  /\ alive
  /\ stopped
  /\ alive' = FALSE
  /\ UNCHANGED <<enabled, size, buffer, batch, written, counters, stopped, processor, closing, history>>

\* Close: wg.Wait returns.
CloseReturn ==
  /\ alive
  /\ closing = "waiting"
  /\ processor = "exited"
  /\ closing' = "returned"
  /\ UNCHANGED <<enabled, size, buffer, batch, written, counters, stopped, processor, alive, history>>

Next == \/ Enable
        \/ \E p \in Producer : \/ AddRefused(p)
                               \/ AddEntry(p)
                               \/ LogDirect(p)
                               \/ Flush(p)
                               \/ Fatal(p)
        \/ \E q \in Writer : WriteNext(q)
        \/ Tick
        \/ StopReceived
        \/ ProcessorExit
        \/ Close
        \/ CloseAgain
        \/ CloseReturn

Spec == Init /\ [][Next]_vars

\* A goroutine that is writing goes on, the ticker ticks, and the processor sees
\* stopCh once it is closed (a closed channel stays ready, so the select picks
\* it eventually).  Nothing makes anybody log, flush or close.
FairSpec == /\ Spec
            /\ \A q \in Writer : WF_vars(WriteNext(q))
            /\ WF_vars(Tick)
            /\ SF_vars(StopReceived)
            /\ WF_vars(ProcessorExit)
            /\ WF_vars(CloseReturn)

-------------------------------------------------------------------------------
\* Every variable holds a value of its Go type, and the buffer never outgrows the
\* array NewBatchLogger made for it (batch.go:12-40, 63, 115).
TypeOK == /\ enabled \in BOOLEAN
          /\ size \in [flush : Nat, buffer : Nat]
          /\ buffer \in Seq(Entry) /\ Len(buffer) <= size.buffer
          /\ batch \in [Writer -> Seq(Entry)]
          /\ written \in Seq(Entry)
          /\ total \in Nat /\ batched \in Nat /\ dropped \in Nat
          /\ stopped \in BOOLEAN
          /\ processor \in {"off", "loop", "last", "exited"}
          /\ closing \in {"no", "waiting", "returned"}
          /\ alive \in BOOLEAN
          /\ sent \in [Producer -> 0 .. MaxLogs]
          /\ direct \in Nat
          /\ promised \subseteq Entry

\* Entries taken by some goroutine and not written yet.
InFlight == UNION {Elements(batch[q]) : q \in Writer}

\* The statistics match the entries: every accepted entry is in the buffer, in
\* one goroutine's batch or written, whatever goroutines flush at the same time
\* (batch.go:115-126, 136-149).
StatsMatch == /\ total = batched + Len(buffer)
              /\ batched = Cardinality(InFlight) + Len(written) - direct

\* With a threshold within the buffer's size no entry is ever refused, because
\* the buffer is below the threshold whenever mu is free (batch.go:115, 124).
NeverRefused == enabled /\ size.flush <= size.buffer =>
                  dropped = 0 /\ Len(buffer) < size.flush

\* When Close returns, the entries that were waiting when it was called are
\* written, except those a logging goroutine took with its own flush meanwhile:
\* Close waits for the processor only (batch.go:181-186, 206-210).
CloseDrains == closing = "returned" =>
                 promised \subseteq
                   Elements(written) \cup UNION {Elements(batch[p]) : p \in Producer}

\* No accepted entry is lost on the way, for the statistics or for the sink, and none
\* is refused that need not be.
NothingLost == StatsMatch /\ NeverRefused /\ CloseDrains

\* An entry in the buffer before Close is written sooner or later, by whichever
\* goroutine flushes it, unless the process dies (batch.go:175-186).
Delivered == \A e \in Entry :
  (e \in Elements(buffer) /\ ~stopped) ~> (e \in Elements(written) \/ ~alive)

\* Close returns unless the process dies: the final flush and wg.Wait end.
CloseReturns == (closing = "waiting") ~> (closing = "returned" \/ ~alive)

\* What was begun is finished: entries are delivered, and so is the end of Close.
Completes == Delivered /\ CloseReturns

\* What a logger promises: module LogSink, an entry being pending while it is in
\* the buffer or in a batch (the whole of batch.go).
LS == INSTANCE LogSink WITH pending <- Elements(buffer) \cup InFlight
ImplementsLogSink == LS!Spec

===============================================================================
