----------------------------- MODULE DataLoader -----------------------------
(***************************************************************************)
(* schema.DataLoader: concurrent Load calls are collected in `pending' and *)
(* handed to the batch function together, either by the call that fills    *)
(* the batch or by a timer.  One Load call is one goroutine.  A call that  *)
(* does not dispatch itself may arm a timer; so a dispatch (the goroutine  *)
(* of a timer, or the caller) is named by the call that started it.        *)
(***************************************************************************)
EXTENDS Naturals, Sequences, FiniteSets

CONSTANTS Loads,          \* the Load calls made on one loader
          MayCancel,      \* those whose context may be cancelled
          MaxBatch,       \* maxBatchSize, 0 for "no limit"
          None            \* nil: no timer, no value, an empty channel

ASSUME MaxBatchAssumption == MaxBatch \in Nat
ASSUME NoneAssumption == None \notin Loads
ASSUME MayCancelAssumption == MayCancel \subseteq Loads

VARIABLES pc,             \* pc[l]: where the Load call l stands
          cancelled,      \* the calls whose context is done
          pending,        \* dl.pending, in the order of arrival
          timer,          \* dl.timer, named by the call that armed it
          disp,           \* disp[l]: the timer or dispatch l started
          batch,          \* batch[d]: what dispatch d took from pending
          reply,          \* reply[d]: what batchFunc returned to dispatch d
          sent,           \* sent[d]: how many results dispatch d has sent
          chan,           \* chan[l]: the content of l's resultCh (capacity 1)
          out,            \* out[l]: why l returned
          stopped         \* is stopCh closed?

vars == <<pc, cancelled, pending, timer, disp, batch, reply, sent, chan, out,
          stopped>>

\* loadResult: a value (named by the key it belongs to) and an error; "none" is
\* a nil error.
Result == [val : Loads \cup {None}, err : {"none", "batch", "stopped"}]
StoppedResult == [val |-> None, err |-> "stopped"]

\* (values, errs) of batchFunc: all the values and no error, an error for every
\* key, or slices that are too short for any key.
Reply == {"values", "errors", "short"}

TypeOK ==
  /\ pc \in [Loads -> {"idle", "dispatch", "wait", "done"}]
  /\ cancelled \subseteq MayCancel
  /\ pending \in Seq(Loads)
  /\ timer \in Loads \cup {None}
  /\ disp \in [Loads -> {"none", "armed", "run", "call", "send", "done"}]
  /\ batch \in [Loads -> Seq(Loads)]
  /\ reply \in [Loads -> Reply \cup {None}]
  /\ sent \in [Loads -> Nat]
  /\ chan \in [Loads -> Result \cup {None}]
  /\ out \in [Loads -> {"none", "result", "ctx", "stopped"}]
  /\ stopped \in BOOLEAN

Init ==
  /\ pc = [l \in Loads |-> "idle"]
  /\ cancelled = {}
  /\ pending = <<>>
  /\ timer = None
  /\ disp = [l \in Loads |-> "none"]
  /\ batch = [l \in Loads |-> <<>>]
  /\ reply = [l \in Loads |-> None]
  /\ sent = [l \in Loads |-> 0]
  /\ chan = [l \in Loads |-> None]
  /\ out = [l \in Loads |-> "none"]
  /\ stopped = FALSE

-----------------------------------------------------------------------------
(* Load *)

\* The early return when ctx.Err() is set on entry.
LoadRefused(l) ==
  /\ pc[l] = "idle"
  /\ l \in cancelled
  /\ pc' = [pc EXCEPT ![l] = "done"]
  /\ out' = [out EXCEPT ![l] = "ctx"]
  /\ UNCHANGED <<cancelled, pending, timer, disp, batch, reply, sent, chan, stopped>>

\* Mutant: the size is compared before the append.
FullBeforeAppend == MaxBatch > 0 /\ Len(pending) >= MaxBatch

\* Is the batch full once l is appended?
FillsBatch == MaxBatch > 0 /\ Len(pending) + 1 >= MaxBatch

\* Mutant: a timer is armed only when there is no batch limit.
TimerWithoutLimit == timer = None /\ MaxBatch = 0

NeedsTimer == timer = None /\ ~FillsBatch

\* The section of Load under dl.mu: append, then decide who dispatches.  (A
\* context that ends after the check of ctx.Err() is seen by the select below.)
LoadEnqueue(l) ==
  /\ pc[l] = "idle"
  /\ l \notin cancelled
  /\ pending' = Append(pending, l)
  /\ pc' = [pc EXCEPT ![l] = IF FillsBatch THEN "dispatch" ELSE "wait"]
  /\ disp' = [disp EXCEPT ![l] = CASE FillsBatch -> "run"
                                   [] NeedsTimer -> "armed"
                                   [] OTHER -> "none"]
  /\ timer' = IF NeedsTimer THEN l ELSE timer
  /\ UNCHANGED <<cancelled, batch, reply, sent, chan, out, stopped>>

\* The select at the end of Load: any ready case may be taken.
LoadReturn(l) ==
  /\ pc[l] = "wait"
  /\ \/ /\ chan[l] # None
        /\ out' = [out EXCEPT ![l] = IF chan[l].err = "stopped" THEN "stopped" ELSE "result"]
        /\ chan' = [chan EXCEPT ![l] = None]
     \/ /\ l \in cancelled
        /\ out' = [out EXCEPT ![l] = "ctx"]
        /\ UNCHANGED chan
     \/ /\ stopped
        /\ out' = [out EXCEPT ![l] = "stopped"]
        /\ UNCHANGED chan
  /\ pc' = [pc EXCEPT ![l] = "done"]
  /\ UNCHANGED <<cancelled, pending, timer, disp, batch, reply, sent, stopped>>

-----------------------------------------------------------------------------
(* dispatch *)

\* The batch window of the timer armed by l ends: its goroutine starts.
TimerFire(l) ==
  /\ disp[l] = "armed"
  /\ disp' = [disp EXCEPT ![l] = "run"]
  /\ UNCHANGED <<pc, cancelled, pending, timer, batch, reply, sent, chan, out, stopped>>

\* A finished dispatch returns to the Load call that ran it, if it was one.
Resume(d) == IF pc[d] = "dispatch" THEN [pc EXCEPT ![d] = "wait"] ELSE pc

\* Mutant: pending is copied and not emptied.
CopyPending(d) ==
  /\ batch' = [batch EXCEPT ![d] = pending]
  /\ UNCHANGED pending

TakePending(d) ==
  /\ batch' = [batch EXCEPT ![d] = pending]
  /\ pending' = <<>>

\* The section of dispatch under dl.mu, and the return when nothing is pending.
\* dispatch(nil) never stops the timer it clears: the timer stays armed.
DispatchTake(d) ==
  /\ disp[d] = "run"
  /\ timer' = None
  /\ TakePending(d)
  /\ disp' = [disp EXCEPT ![d] = IF pending = <<>> THEN "done" ELSE "call"]
  /\ pc' = IF pending = <<>> THEN Resume(d) ELSE pc
  /\ UNCHANGED <<cancelled, reply, sent, chan, out, stopped>>

BatchReturn(d) ==
  /\ disp[d] = "call"
  /\ \E r \in Reply : reply' = [reply EXCEPT ![d] = r]
  /\ disp' = [disp EXCEPT ![d] = "send"]
  /\ UNCHANGED <<pc, cancelled, pending, timer, batch, sent, chan, out, stopped>>

\* Mutant: what batchFunc returned is passed on as the error.
ResultWithReply(d, i) ==
  [val |-> IF reply[d] = "values" THEN batch[d][i] ELSE None, err |-> reply[d]]

\* Mutant: values are matched to requests from the wrong end of the batch.
ResultFromTheEnd(d, i) ==
  [val |-> IF reply[d] = "values" THEN batch[d][Len(batch[d]) + 1 - i] ELSE None,
   err |-> IF reply[d] = "errors" THEN "batch" ELSE "none"]

\* The result of the i-th request of batch d: values[i] is the value of keys[i].
ResultAt(d, i) ==
  [val |-> IF reply[d] = "values" THEN batch[d][i] ELSE None,
   err |-> IF reply[d] = "errors" THEN "batch" ELSE "none"]

\* One iteration of the loop over the batch: the send blocks when the channel's
\* single place is taken.  After the last one dispatch returns.
SendResult(d) ==
  /\ disp[d] = "send"
  /\ LET i == sent[d] + 1
         l == batch[d][i]
         last == i = Len(batch[d])
     IN /\ chan[l] = None
        /\ chan' = [chan EXCEPT ![l] = ResultAt(d, i)]
        /\ sent' = [sent EXCEPT ![d] = i]
        /\ disp' = [disp EXCEPT ![d] = IF last THEN "done" ELSE "send"]
        /\ reply' = [reply EXCEPT ![d] = IF last THEN None ELSE @]
        /\ pc' = IF last THEN Resume(d) ELSE pc
  /\ UNCHANGED <<cancelled, pending, timer, batch, out, stopped>>

-----------------------------------------------------------------------------
(* Stop, and the callers' contexts *)

Queued(l) == \E i \in 1 .. Len(pending) : pending[i] = l

Disarmed == [l \in Loads |-> IF l = timer /\ disp[l] = "armed" THEN "done" ELSE disp[l]]

\* Mutant: dl.timer still names the stopped timer, so that none is armed again.
StopTimerKeepsReference == disp' = Disarmed /\ UNCHANGED timer

\* timer.Stop() does nothing to a timer that fired.
StopTimer == disp' = Disarmed /\ timer' = None

\* Stop runs under dl.mu.
Stop ==
  /\ ~stopped
  /\ \A l \in Loads : Queued(l) => chan[l] = None
  /\ stopped' = TRUE
  /\ StopTimer
  /\ chan' = [l \in Loads |-> IF Queued(l) THEN StoppedResult ELSE chan[l]]
  /\ pending' = <<>>
  /\ UNCHANGED <<pc, cancelled, batch, reply, sent, out>>

Cancel(l) ==
  /\ l \in MayCancel \ cancelled
  /\ pc[l] # "done"
  /\ cancelled' = cancelled \cup {l}
  /\ UNCHANGED <<pc, pending, timer, disp, batch, reply, sent, chan, out, stopped>>

\* Every call has returned and every timer and dispatch is over.
Quiet ==
  /\ \A l \in Loads : pc[l] = "done" /\ disp[l] \in {"none", "done"}
  /\ stopped
  /\ UNCHANGED vars

-----------------------------------------------------------------------------
DispatchStep(d) == DispatchTake(d) \/ BatchReturn(d) \/ SendResult(d)

Next ==
  \/ \E l \in Loads :
       \/ LoadRefused(l) \/ LoadEnqueue(l) \/ LoadReturn(l)
       \/ TimerFire(l) \/ DispatchStep(l) \/ Cancel(l)
  \/ Stop
  \/ Quiet

\* A goroutine that can run is scheduled, an armed timer fires, and batchFunc
\* returns.  Nobody is obliged to call Load or Stop, or to cancel.
Fairness ==
  \A l \in Loads : WF_vars(LoadReturn(l)) /\ WF_vars(TimerFire(l)) /\ WF_vars(DispatchStep(l))

Spec == Init /\ [][Next]_vars /\ Fairness
-----------------------------------------------------------------------------
(* What is claimed *)

\* Where the request of l still waits for its result: in the part of batch d
\* that dispatch d has not sent yet.
Owed(d, l) ==
  /\ disp[d] \in {"call", "send"}
  /\ \E i \in sent[d] + 1 .. Len(batch[d]) : batch[d][i] = l

\* No request is stranded: whenever requests are pending, the current timer
\* has not run yet or some dispatch is about to take them (dispatch clears
\* dl.timer without looking who armed it, and Load arms none while one is set).
PendingWillBeTaken ==
  pending # <<>> =>
    \/ timer # None /\ disp[timer] \in {"armed", "run"}
    \/ \E l \in Loads : pc[l] = "dispatch" /\ disp[l] = "run"

\* The limit is overrun only by calls that arrive while a dispatch by size is on
\* its way: a full batch never sits waiting for its timer.
FullBatchIsLeaving ==
  MaxBatch > 0 /\ Len(pending) >= MaxBatch =>
    \E l \in Loads : pc[l] = "dispatch" /\ disp[l] = "run" /\ Queued(l)

\* A result channel holds one message, and the senders (dispatch, and Stop
\* while it holds the mutex) must never wait for a reader that may be gone.
SendsNeverBlock ==
  \A l \in Loads :
    Queued(l) \/ (\E d \in Loads : Owed(d, l)) => chan[l] = None

\* The request of a call is in one place only, once: pending or one batch.
OneOwner ==
  /\ \A i, j \in 1 .. Len(pending) : pending[i] = pending[j] => i = j
  /\ \A l \in Loads, d \in Loads : Owed(d, l) => ~Queued(l)
  /\ \A l \in Loads, d, e \in Loads : Owed(d, l) /\ Owed(e, l) => d = e

\* A call gets the value of its own key, or none, whichever batch it fell in.
OwnValue == \A l \in Loads : chan[l] # None => chan[l].val \in {l, None}

\* The loader implements the contract: a call counts as asked for when the batch
\* function is handed its key.
TimesAsked(l) ==
  Cardinality({d \in Loads : \E i \in 1 .. Len(batch[d]) : batch[d][i] = l})

Contract == INSTANCE LoadContract WITH
  call  <- [l \in Loads |-> CASE pc[l] = "idle" -> "idle"
                             [] pc[l] = "done" -> "returned"
                             [] OTHER -> "open"],
  asked <- [l \in Loads |-> TimesAsked(l)],
  got   <- out

ImplementsContract == Contract!Spec

\* Every call that is under way returns, whatever the other calls, the
\* timers, Stop and the contexts do.
EveryLoadReturns == Contract!EveryOpenCallReturns
=============================================================================
