---------------------------- MODULE WriteBuffer ----------------------------
(***************************************************************************)
(* WriteBuffer and LossyBuffer of internal/buffer/ring.go: producers push  *)
(* into a ring, one background goroutine (flushLoop) pops batches and      *)
(* hands them to flushFn, FlushSync and Close wait for it.  The ring is    *)
(* the TicketQueue that RingBuffer implements; flushLoop is its only       *)
(* consumer.  The two types share their code line by line and differ only  *)
(* in what Push does when the ring is full: WriteBuffer retries RetryLimit *)
(* times, LossyBuffer does not (RetryLimit = 0).                           *)
(***************************************************************************)
EXTENDS TicketQueue, FiniteSets, SequencesExt

CONSTANTS Producers,
          Waiters,      \* goroutines that call FlushSync, once each
          Closer,       \* the goroutine that calls Close
          BatchSize,    \* wb.batchSize
          RetryLimit,   \* rounds of the retry loop in Push
          SyncCap,      \* cap(wb.syncCh)
          NoItem

ASSUME BufferAssumption ==
  /\ BatchSize \in Nat \ {0}
  /\ RetryLimit \in Nat
  /\ SyncCap \in Nat \ {0}
  /\ NoItem \notin Items /\ Items \subseteq Nat
  /\ Closer \notin Waiters /\ {"batch", "stop"} \cap Waiters = {}

Callers == Waiters \cup {Closer}

VARIABLES ppc, pitem, pidx, tries,            \* a producer in Push
          flushCh,                            \* flushCh holds a signal
          syncCh,                             \* waiters queued in syncCh
          stopped, exited,                    \* stopCh, doneCh are closed
          fpc, serving, batch,                \* flushLoop
          flushed,                            \* items flushFn has been given
          wpc, closedDone, need               \* FlushSync and Close

producerVars == <<ppc, pitem, pidx, tries>>
loopVars == <<fpc, serving, batch, flushed>>
callerVars == <<wpc, need>>
vars == <<queueVars, producerVars, flushCh, syncCh, stopped, exited, loopVars,
          callerVars, closedDone>>

TypeOK ==
  /\ QueueType
  /\ ppc \in [Producers -> {"idle", "try", "publish", "lenTail", "lenHead"}]
  /\ pitem \in [Producers -> Items \cup {NoItem}]
  /\ pidx \in [Producers -> Nat]
  /\ tries \in [Producers -> 0 .. RetryLimit]
  /\ flushCh \in BOOLEAN
  /\ syncCh \in Seq(Waiters) /\ Len(syncCh) <= SyncCap
  /\ stopped \in BOOLEAN /\ exited \in BOOLEAN
  /\ fpc \in {"select", "pop", "free", "flush", "check", "exit"}
  /\ serving \in {"batch", "stop"} \cup Waiters
  /\ batch \in Seq(Items) /\ Len(batch) <= BatchSize
  /\ flushed \in Seq(Items)
  /\ wpc \in [Callers -> {"idle", "select", "wait", "returned", "closed"}]
  /\ closedDone \subseteq Waiters
  /\ need \in [Callers -> Nat]

Init ==
  /\ QueueInit
  /\ ppc = [p \in Producers |-> "idle"]
  /\ pitem = [p \in Producers |-> NoItem]
  /\ pidx = [p \in Producers |-> 0]
  /\ tries = [p \in Producers |-> 0]
  /\ flushCh = FALSE /\ syncCh = <<>>
  /\ stopped = FALSE /\ exited = FALSE
  /\ fpc = "select" /\ serving = "batch" /\ batch = <<>> /\ flushed = <<>>
  /\ wpc = [w \in Callers |-> "idle"]
  /\ closedDone = {}
  /\ need = [w \in Callers |-> 0]
-----------------------------------------------------------------------------
(* Push *)

elseThanPush == <<syncCh, stopped, exited, loopVars, callerVars, closedDone>>

\* items that are neither in the ring nor on their way: every item is accepted
\* at most once, which bounds the run
Unused == Items \ (Range(log) \cup Range(pitem))

PushCall(p) ==
  /\ ppc[p] = "idle" /\ Unused # {}
  /\ ppc' = [ppc EXCEPT ![p] = "try"]
  /\ pitem' = [pitem EXCEPT ![p] = Min(Unused)]
  /\ UNCHANGED <<queueVars, pidx, tries, flushCh, elseThanPush>>

\* Push returns; its locals are gone
PushReturn(p) ==
  /\ ppc' = [ppc EXCEPT ![p] = "idle"]
  /\ pitem' = [pitem EXCEPT ![p] = NoItem]
  /\ pidx' = [pidx EXCEPT ![p] = 0]
  /\ tries' = [tries EXCEPT ![p] = 0]

\* ring.Push finds a free slot and claims it
PushClaim(p) ==
  /\ ppc[p] = "try"
  /\ Claim(pitem[p])
  /\ pidx' = [pidx EXCEPT ![p] = NextTicket]
  /\ ppc' = [ppc EXCEPT ![p] = "publish"]
  /\ UNCHANGED <<pitem, tries, flushCh, elseThanPush>>

\* ring.Push finds the ring full: the first time flushLoop is signalled; Push
\* returns false after the last retry
PushFull(p) ==
  /\ ppc[p] = "try" /\ ~HasRoom
  /\ flushCh' = (flushCh \/ tries[p] = 0)
  /\ \/ /\ tries[p] < RetryLimit
        /\ tries' = [tries EXCEPT ![p] = @ + 1]
        /\ UNCHANGED <<ppc, pitem, pidx>>
     \/ tries[p] = RetryLimit /\ PushReturn(p)
  /\ UNCHANGED <<queueVars, elseThanPush>>

\* ring.Push stores the sequence number; only a first attempt goes on to look
\* at the length
PushPublish(p) ==
  /\ ppc[p] = "publish"
  /\ Publish(pidx[p])
  /\ \/ /\ tries[p] = 0
        /\ ppc' = [ppc EXCEPT ![p] = "lenTail"]
        /\ UNCHANGED <<pitem, pidx, tries>>
     \/ tries[p] # 0 /\ PushReturn(p)
  /\ UNCHANGED <<flushCh, elseThanPush>>

\* ring.Len() loads tail and head one after the other
PushLenTail(p) ==
  /\ ppc[p] = "lenTail"
  /\ pidx' = [pidx EXCEPT ![p] = NextTicket]
  /\ ppc' = [ppc EXCEPT ![p] = "lenHead"]
  /\ UNCHANGED <<queueVars, pitem, tries, flushCh, elseThanPush>>

PushLenHead(p) ==
  /\ ppc[p] = "lenHead"
  /\ flushCh' = (flushCh \/ pidx[p] - head >= BatchSize)
  /\ PushReturn(p)
  /\ UNCHANGED <<queueVars, elseThanPush>>

PushStep(p) ==
  \/ PushClaim(p) \/ PushFull(p) \/ PushPublish(p) \/ PushLenTail(p) \/ PushLenHead(p)
-----------------------------------------------------------------------------
(* flushLoop *)

elseThanLoop == <<producerVars, stopped, callerVars>>

StartFlush(s) ==
  /\ fpc = "select"
  /\ fpc' = "pop" /\ serving' = s /\ batch' = <<>>
  /\ UNCHANGED <<queueVars, exited, flushed, closedDone, elseThanLoop>>

SelectStop ==
  /\ stopped
  /\ StartFlush("stop") /\ UNCHANGED <<flushCh, syncCh>>

\* mutant: the ticker does not flush on its own
SelectTickIfSignalled == flushCh /\ StartFlush("batch") /\ UNCHANGED <<flushCh, syncCh>>

SelectTick == StartFlush("batch") /\ UNCHANGED <<flushCh, syncCh>>

SelectFlush ==
  /\ flushCh
  /\ flushCh' = FALSE
  /\ StartFlush("batch") /\ UNCHANGED syncCh

SelectSync ==
  /\ syncCh # <<>>
  /\ StartFlush(Head(syncCh))
  /\ syncCh' = Tail(syncCh)
  /\ UNCHANGED flushCh

PopItem ==
  /\ fpc = "pop"
  /\ Take
  /\ batch' = Append(batch, log[head + 1])
  /\ fpc' = "free"
  /\ UNCHANGED <<serving, flushed, flushCh, syncCh, exited, closedDone, elseThanLoop>>

\* mutant: one item too many
BatchFullLate == Len(batch) > BatchSize

BatchFull == Len(batch) >= BatchSize

\* the end of ring.Pop, and the test of the batch size
FreeItem ==
  /\ fpc = "free"
  /\ Free(head - 1)
  /\ fpc' = IF BatchFull THEN "flush" ELSE "pop"
  /\ UNCHANGED <<serving, batch, flushed, flushCh, syncCh, exited, closedDone,
                 elseThanLoop>>

PopEmpty ==
  /\ fpc = "pop" /\ head \notin published
  /\ fpc' = "flush"
  /\ UNCHANGED <<queueVars, serving, batch, flushed, flushCh, syncCh, exited,
                 closedDone, elseThanLoop>>

\* mutant: the batch is not cut back to length 0
FlushFnKeepsBatch ==
  /\ fpc = "flush"
  /\ flushed' = flushed \o batch
  /\ fpc' = IF serving = "batch" THEN "select" ELSE "check"
  /\ UNCHANGED <<queueVars, serving, batch, flushCh, syncCh, exited, closedDone,
                 elseThanLoop>>

\* flushFn(batch), skipped for an empty batch, and the reset of the batch
FlushFn ==
  /\ fpc = "flush"
  /\ flushed' = flushed \o batch
  /\ batch' = <<>>
  /\ fpc' = IF serving = "batch" THEN "select" ELSE "check"
  /\ UNCHANGED <<queueVars, serving, flushCh, syncCh, exited, closedDone, elseThanLoop>>

\* mutant: flushAll stops when a Pop finds nothing instead of asking IsEmpty
DrainedHasty == head \notin published

\* ring.IsEmpty(), called by the only goroutine that moves head
Drained == QueueLen = 0

\* mutant: close(done) is forgotten
FlushAllCheckSilent ==
  /\ fpc = "check"
  /\ \/ ~Drained /\ fpc' = "pop" /\ UNCHANGED exited
     \/ Drained /\ serving \in Waiters /\ fpc' = "select" /\ UNCHANGED exited
     \/ Drained /\ serving = "stop" /\ fpc' = "exit" /\ exited' = TRUE
  /\ UNCHANGED <<queueVars, serving, batch, flushed, flushCh, syncCh, closedDone,
                 elseThanLoop>>

\* flushAll: another round, or close(done), or close(doneCh) and return
FlushAllCheck ==
  /\ fpc = "check"
  /\ \/ ~Drained /\ fpc' = "pop" /\ UNCHANGED <<exited, closedDone>>
     \/ /\ Drained /\ serving \in Waiters
        /\ fpc' = "select" /\ closedDone' = closedDone \cup {serving}
        /\ UNCHANGED exited
     \/ /\ Drained /\ serving = "stop"
        /\ fpc' = "exit" /\ exited' = TRUE
        /\ UNCHANGED closedDone
  /\ UNCHANGED <<queueVars, serving, batch, flushed, flushCh, syncCh, elseThanLoop>>

FlushLoop ==
  \/ SelectStop \/ SelectTick \/ SelectFlush \/ SelectSync
  \/ PopItem \/ FreeItem \/ PopEmpty \/ FlushFn \/ FlushAllCheck
-----------------------------------------------------------------------------
(* Flush, FlushSync and Close *)

elseThanCall == <<queueVars, producerVars, exited, loopVars, closedDone>>

\* history: how many items flushFn must have been given for every Push that has
\* published its ticket, and so has returned true or is about to; 0 if that is
\* the case already
Owed == LET accepted == Len(flushed) .. head - 1 \cup published
        IN  IF accepted = {} THEN 0 ELSE Max(accepted) + 1

Return(w, how) ==
  /\ wpc' = [wpc EXCEPT ![w] = how]
  /\ need' = [need EXCEPT ![w] = 0]

Flush ==
  /\ ~flushCh /\ flushCh' = TRUE
  /\ UNCHANGED <<elseThanCall, callerVars, syncCh, stopped>>

FlushSyncCall(w) ==
  /\ wpc[w] = "idle"
  /\ wpc' = [wpc EXCEPT ![w] = "select"]
  /\ need' = [need EXCEPT ![w] = Owed]
  /\ UNCHANGED <<elseThanCall, flushCh, syncCh, stopped>>

\* case wb.syncCh <- done
FlushSyncSend(w) ==
  /\ wpc[w] = "select" /\ Len(syncCh) < SyncCap
  /\ syncCh' = Append(syncCh, w)
  /\ wpc' = [wpc EXCEPT ![w] = "wait"]
  /\ UNCHANGED <<elseThanCall, flushCh, need, stopped>>

\* case <-wb.doneCh
FlushSyncClosed(w) ==
  /\ wpc[w] = "select" /\ exited
  /\ Return(w, "closed")
  /\ UNCHANGED <<elseThanCall, flushCh, syncCh, stopped>>

\* <-done
FlushSyncReturn(w) ==
  /\ wpc[w] = "wait" /\ w \in closedDone
  /\ Return(w, "returned")
  /\ UNCHANGED <<elseThanCall, flushCh, syncCh, stopped>>

CloseCall ==
  /\ wpc[Closer] = "idle"
  /\ stopped' = TRUE
  /\ wpc' = [wpc EXCEPT ![Closer] = "wait"]
  /\ need' = [need EXCEPT ![Closer] = Owed]
  /\ UNCHANGED <<elseThanCall, flushCh, syncCh>>

\* <-wb.doneCh
CloseReturn ==
  /\ wpc[Closer] = "wait" /\ exited
  /\ Return(Closer, "returned")
  /\ UNCHANGED <<elseThanCall, flushCh, syncCh, stopped>>

FlushSyncStep(w) == FlushSyncSend(w) \/ FlushSyncClosed(w) \/ FlushSyncReturn(w)
-----------------------------------------------------------------------------
Next ==
  \/ \E p \in Producers : PushCall(p) \/ PushStep(p)
  \/ FlushLoop
  \/ \E w \in Waiters : FlushSyncCall(w) \/ FlushSyncStep(w)
  \/ Flush \/ CloseCall \/ CloseReturn

(* The Go scheduler keeps every runnable goroutine running, the ticker      *)
(* keeps firing, and select chooses at random among the ready cases, so a   *)
(* case that is ready again and again is chosen.  Nobody has to call Push,  *)
(* Flush, FlushSync or Close.                                               *)
Fairness ==
  /\ \A p \in Producers : WF_vars(PushStep(p))
  /\ \A w \in Waiters : WF_vars(FlushSyncStep(w))
  /\ WF_vars(CloseReturn)
  /\ WF_vars(FlushLoop) /\ SF_vars(SelectStop) /\ SF_vars(SelectSync)

Spec == Init /\ [][Next]_vars /\ Fairness
-----------------------------------------------------------------------------
(* Properties *)

\* flushFn receives every item the ring accepted, once, in the order of the
\* tickets, whatever the mixture of ticks, signals, FlushSync and Close.
FlushedInOrder == flushed \o batch = SubSeq(log, 1, head)

\* When FlushSync or Close returns, flushFn has returned for every Push that
\* had been published when it was called, even if an older Push was still
\* between its claim and its publication.
FlushedBeforeReturn ==
  [][\A w \in Callers : wpc[w] # "returned" /\ wpc'[w] = "returned" =>
       need[w] <= Len(flushed)]_vars

\* An item that was published before Close is flushed eventually, without any
\* further call: the ticker sees to it, and the final flush after Close.
EventuallyFlushed ==
  \A t \in 0 .. Cardinality(Items) - 1 :
    (t \in published /\ ~stopped) ~> (t < Len(flushed))

\* Close returns, and FlushSync returns unless the buffer is closed meanwhile.
CallersReturn ==
  /\ wpc[Closer] = "wait" ~> wpc[Closer] = "returned"
  /\ \A w \in Waiters :
       wpc[w] = "select" ~> (wpc[w] \in {"returned", "closed"} \/ stopped)

\* What FlushSync's comment says of it: it returns when the flush is complete
\* or the buffer already closed.
FlushSyncReturns ==
  \A w \in Waiters : wpc[w] = "select" ~> wpc[w] \in {"returned", "closed"}
=============================================================================
