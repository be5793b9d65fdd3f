-------------------------- MODULE DataLoader_proofs --------------------------
(***************************************************************************)
(* Proofs about DataLoader for any set of Load calls, any batch limit and  *)
(* any interleaving of calls, timers, dispatches, Stop and cancellations.  *)
(***************************************************************************)
EXTENDS DataLoader, FiniteSetTheorems, TLAPS

\* A call that has not queued its request owns nothing yet.
Fresh ==
  \A l \in Loads : pc[l] = "idle" =>
    /\ disp[l] = "none"
    /\ chan[l] = None
    /\ ~Queued(l)
    /\ \A d \in Loads : \A i \in 1 .. Len(batch[d]) : batch[d][i] # l

\* The control state of a dispatch agrees with what it holds.
Dispatches ==
  /\ \A d \in Loads : pc[d] = "dispatch" => disp[d] \in {"run", "call", "send"}
  /\ \A d \in Loads : disp[d] \in {"none", "armed", "run", "call"} => sent[d] = 0
  /\ \A d \in Loads : disp[d] \in {"call", "send"} => sent[d] < Len(batch[d])
  /\ timer # None => disp[timer] \in {"armed", "run"}

\* The requests of one batch are of different calls.
DistinctInBatch ==
  \A d \in Loads : \A i, j \in 1 .. Len(batch[d]) : batch[d][i] = batch[d][j] => i = j

\* A call whose result is in its channel, or was received, is owed nothing.
IInv ==
  /\ TypeOK
  /\ Fresh
  /\ Dispatches
  /\ PendingWillBeTaken
  /\ FullBatchIsLeaving
  /\ DistinctInBatch
  /\ OneOwner
  /\ SendsNeverBlock
  /\ OwnValue

LEMMA InitIInv == Init => IInv
<1> SUFFICES ASSUME Init PROVE IInv
  OBVIOUS
<1>1. TypeOK
  <2>1. <<>> \in Seq(Loads)
    OBVIOUS
  <2> QED
    BY <2>1 DEF Init, TypeOK
<1>2. Fresh /\ Dispatches /\ PendingWillBeTaken /\ DistinctInBatch
  BY DEF Init, Fresh, Dispatches, PendingWillBeTaken, DistinctInBatch, Queued
<1>3. OneOwner /\ SendsNeverBlock /\ OwnValue
  BY DEF Init, OneOwner, SendsNeverBlock, OwnValue, Owed, Queued
<1>14. FullBatchIsLeaving
  BY MaxBatchAssumption DEF Init, FullBatchIsLeaving
<1> QED
  BY <1>14, <1>1, <1>2, <1>3 DEF IInv

\* Every step keeps the type invariant.
LEMMA NextTypeOK == TypeOK /\ Dispatches /\ [Next]_vars => TypeOK'
<1> SUFFICES ASSUME TypeOK, Dispatches, [Next]_vars PROVE TypeOK'
  OBVIOUS
<1> USE NoneAssumption, MayCancelAssumption DEF TypeOK, Result, StoppedResult, Reply
<1>1. ASSUME NEW l \in Loads, LoadRefused(l) PROVE TypeOK'
  BY <1>1 DEF LoadRefused
<1>2. ASSUME NEW l \in Loads, LoadEnqueue(l) PROVE TypeOK'
  BY <1>2 DEF LoadEnqueue
<1>3. ASSUME NEW l \in Loads, LoadReturn(l) PROVE TypeOK'
  <2>1. \E o \in {"result", "ctx", "stopped"} : out' = [out EXCEPT ![l] = o]
    BY <1>3 DEF LoadReturn
  <2>2. chan' = chan \/ chan' = [chan EXCEPT ![l] = None]
    BY <1>3 DEF LoadReturn
  <2>3. out' \in [Loads -> {"none", "result", "ctx", "stopped"}]
    BY <2>1
  <2>4. chan' \in [Loads -> Result \cup {None}]
    BY <2>2
  <2> QED
    BY <1>3, <2>3, <2>4 DEF LoadReturn
<1>4. ASSUME NEW l \in Loads, TimerFire(l) PROVE TypeOK'
  BY <1>4 DEF TimerFire
<1>5. ASSUME NEW l \in Loads, DispatchTake(l) PROVE TypeOK'
  BY <1>5 DEF DispatchTake, TakePending, Resume
<1>6. ASSUME NEW l \in Loads, BatchReturn(l) PROVE TypeOK'
  BY <1>6 DEF BatchReturn
<1>7. ASSUME NEW d \in Loads, SendResult(d) PROVE TypeOK'
  <2> DEFINE i == sent[d] + 1
  <2>1. i \in 1 .. Len(batch[d]) /\ batch[d] \in Seq(Loads)
    BY <1>7 DEF SendResult, Dispatches
  <2>2. batch[d][i] \in Loads
    BY <2>1
  <2>3. ResultAt(d, i) \in Result
    BY <2>2 DEF ResultAt
  <2> HIDE DEF Result
  <2>4. chan' \in [Loads -> Result \cup {None}]
    BY <1>7, <2>2, <2>3 DEF SendResult
  <2>5. pc' \in [Loads -> {"idle", "dispatch", "wait", "done"}]
    BY <1>7 DEF SendResult, Resume
  <2> QED
    BY <1>7, <2>1, <2>2, <2>4, <2>5 DEF SendResult
<1>8. ASSUME NEW l \in Loads, Cancel(l) PROVE TypeOK'
  BY <1>8 DEF Cancel
<1>9. ASSUME Stop PROVE TypeOK'
  BY <1>9 DEF Stop, StopTimer, Disarmed
<1>10. ASSUME Quiet \/ UNCHANGED vars PROVE TypeOK'
  BY <1>10 DEF Quiet, vars
<1> QED
  BY <1>1, <1>2, <1>3, <1>4, <1>5, <1>6, <1>7, <1>8, <1>9, <1>10
  DEF Next, DispatchStep

-----------------------------------------------------------------------------
(* One lemma per action: it keeps the parts of the invariant. *)

LEMMA RefusedIInv ==
  ASSUME IInv, TypeOK', NEW l \in Loads, LoadRefused(l)
  PROVE  IInv'
<1>1. /\ pc[l] = "idle" /\ pc'[l] = "done"
      /\ \A k \in Loads : k # l => pc'[k] = pc[k] /\ out'[k] = out[k]
      /\ out'[l] = "ctx"
      /\ UNCHANGED <<pending, timer, disp, batch, reply, sent, chan>>
  BY DEF IInv, TypeOK, LoadRefused
<1>2. \A k \in Loads : Queued(k)' = Queued(k) /\ \A d \in Loads : Owed(d, k)' = Owed(d, k)
  BY <1>1 DEF Queued, Owed
<1>3. Fresh' /\ Dispatches'
  BY <1>1, <1>2 DEF IInv, Fresh, Dispatches
<1>4. PendingWillBeTaken'
  BY <1>1 DEF IInv, PendingWillBeTaken
<1>5. DistinctInBatch' /\ OneOwner' /\ SendsNeverBlock'
  BY <1>1, <1>2 DEF IInv, DistinctInBatch, OneOwner, SendsNeverBlock
<1>6. OwnValue'
  BY <1>1 DEF IInv, OwnValue
<1>14. FullBatchIsLeaving'
  BY <1>1, <1>2 DEF IInv, FullBatchIsLeaving
<1> QED
  BY <1>14, <1>3, <1>4, <1>5, <1>6 DEF IInv

LEMMA EnqueueIInv ==
  ASSUME IInv, TypeOK', NEW l \in Loads, LoadEnqueue(l)
  PROVE  IInv'
<1>1. /\ Len(pending') = Len(pending) + 1
      /\ Len(pending) \in Nat
      /\ \A i \in 1 .. Len(pending) : pending'[i] = pending[i]
      /\ pending'[Len(pending) + 1] = l
  BY DEF IInv, TypeOK, LoadEnqueue
<1>2. /\ pc[l] = "idle" /\ pc'[l] = IF FillsBatch THEN "dispatch" ELSE "wait"
      /\ \A k \in Loads : k # l => pc'[k] = pc[k] /\ disp'[k] = disp[k]
      /\ disp'[l] = CASE FillsBatch -> "run" [] NeedsTimer -> "armed" [] OTHER -> "none"
      /\ timer' = IF NeedsTimer THEN l ELSE timer
      /\ timer \in Loads \cup {None}
      /\ UNCHANGED <<batch, reply, sent, chan, out>>
  BY DEF IInv, TypeOK, LoadEnqueue
<1>3. \A k \in Loads : Queued(k)' <=> Queued(k) \/ k = l
  BY <1>1 DEF Queued
<1>4. /\ disp[l] = "none" /\ chan[l] = None /\ ~Queued(l)
      /\ \A d \in Loads : \A i \in 1 .. Len(batch[d]) : batch[d][i] # l
      /\ \A d \in Loads : Len(batch[d]) \in Nat /\ sent[d] \in Nat
  BY <1>2 DEF IInv, Fresh, TypeOK
<1>5. \A d \in Loads : ~Owed(d, l)
  BY <1>4 DEF Owed
<1>6. \A d, k \in Loads : Owed(d, k)' => Owed(d, k)
  BY <1>2 DEF Owed
<1>7. Fresh'
  BY <1>2, <1>3 DEF IInv, Fresh
<1>8. Dispatches'
  BY <1>2, <1>4, NoneAssumption DEF IInv, Dispatches, NeedsTimer
<1>9. PendingWillBeTaken'
  BY <1>2, <1>4, NoneAssumption DEF IInv, Dispatches, PendingWillBeTaken, NeedsTimer
<1>10. DistinctInBatch' /\ OwnValue'
  BY <1>2 DEF IInv, DistinctInBatch, OwnValue
<1>11. OneOwner'
  <2>1. \A i, j \in 1 .. Len(pending') : pending'[i] = pending'[j] => i = j
    BY <1>1, <1>4 DEF IInv, OneOwner, Queued
  <2> QED
    BY <2>1, <1>3, <1>5, <1>6 DEF IInv, OneOwner
<1>12. SendsNeverBlock'
  BY <1>2, <1>3, <1>4, <1>6 DEF IInv, SendsNeverBlock
<1>14. FullBatchIsLeaving'
  <2>1. CASE FillsBatch
    <3>1. pc'[l] = "dispatch" /\ disp'[l] = "run"
      BY <2>1, <1>2 DEF NeedsTimer
    <3>2. Queued(l)'
      BY <1>3
    <3> QED
      BY <3>1, <3>2 DEF FullBatchIsLeaving
  <2>2. CASE ~FillsBatch
    <3>1. ~(MaxBatch > 0 /\ Len(pending') >= MaxBatch)
      BY <2>2, <1>1, MaxBatchAssumption DEF FillsBatch
    <3> QED
      BY <3>1 DEF FullBatchIsLeaving
  <2> QED
    BY <2>1, <2>2
<1> QED
  BY <1>14, <1>7, <1>8, <1>9, <1>10, <1>11, <1>12 DEF IInv

LEMMA ReturnIInv ==
  ASSUME IInv, TypeOK', NEW l \in Loads, LoadReturn(l)
  PROVE  IInv'
<1>1. /\ pc[l] = "wait" /\ pc'[l] = "done"
      /\ \A k \in Loads : k # l =>
           pc'[k] = pc[k] /\ out'[k] = out[k] /\ chan'[k] = chan[k]
      /\ chan'[l] \in {chan[l], None}
      /\ UNCHANGED <<pending, timer, disp, batch, reply, sent>>
  BY DEF IInv, TypeOK, LoadReturn
<1>2. \A k \in Loads : Queued(k)' = Queued(k) /\ \A d \in Loads : Owed(d, k)' = Owed(d, k)
  BY <1>1 DEF Queued, Owed
<1>3. Fresh' /\ Dispatches'
  BY <1>1, <1>2 DEF IInv, Fresh, Dispatches
<1>4. PendingWillBeTaken'
  BY <1>1 DEF IInv, PendingWillBeTaken
<1>5. DistinctInBatch' /\ OneOwner' /\ SendsNeverBlock'
  BY <1>1, <1>2 DEF IInv, DistinctInBatch, OneOwner, SendsNeverBlock
<1>6. OwnValue'
  BY <1>1 DEF IInv, OwnValue
<1>14. FullBatchIsLeaving'
  BY <1>1, <1>2 DEF IInv, FullBatchIsLeaving
<1> QED
  BY <1>14, <1>3, <1>4, <1>5, <1>6 DEF IInv

LEMMA FireIInv ==
  ASSUME IInv, TypeOK', NEW l \in Loads, TimerFire(l)
  PROVE  IInv'
<1>1. /\ disp[l] = "armed" /\ disp'[l] = "run"
      /\ \A k \in Loads : k # l => disp'[k] = disp[k]
      /\ UNCHANGED <<pc, pending, timer, batch, reply, sent, chan, out>>
      /\ timer \in Loads \cup {None}
  BY DEF IInv, TypeOK, TimerFire
<1>2. \A k \in Loads : Queued(k)' = Queued(k) /\ \A d \in Loads : Owed(d, k)' = Owed(d, k)
  BY <1>1 DEF Queued, Owed
<1>3. Fresh' /\ Dispatches'
  BY <1>1, <1>2 DEF IInv, Fresh, Dispatches
<1>4. PendingWillBeTaken'
  BY <1>1 DEF IInv, PendingWillBeTaken
<1>5. DistinctInBatch' /\ OneOwner' /\ SendsNeverBlock' /\ OwnValue'
  BY <1>1, <1>2 DEF IInv, DistinctInBatch, OneOwner, SendsNeverBlock, OwnValue
<1>14. FullBatchIsLeaving'
  BY <1>1, <1>2 DEF IInv, FullBatchIsLeaving
<1> QED
  BY <1>14, <1>3, <1>4, <1>5 DEF IInv

LEMMA TakeIInv ==
  ASSUME IInv, TypeOK', NEW d \in Loads, DispatchTake(d)
  PROVE  IInv'
<1>1. /\ disp[d] = "run"
      /\ disp'[d] = IF pending = <<>> THEN "done" ELSE "call"
      /\ \A e \in Loads : e # d => disp'[e] = disp[e] /\ batch'[e] = batch[e]
      /\ batch'[d] = pending
      /\ pending' = <<>> /\ timer' = None
      /\ UNCHANGED <<reply, sent, chan, out>>
  BY DEF IInv, TypeOK, DispatchTake, TakePending
<1>2. /\ \A k \in Loads : k # d => pc'[k] = pc[k]
      /\ pc'[d] \in {pc[d], "wait"}
      /\ pc'[d] = "dispatch" => pending # <<>>
  BY DEF IInv, TypeOK, DispatchTake, Resume
<1>3. Len(pending) \in Nat /\ (pending # <<>> => Len(pending) > 0)
  BY DEF IInv, TypeOK
<1>4. sent[d] = 0 /\ pc[d] # "idle"
  BY <1>1 DEF IInv, Dispatches, Fresh
<1>5. \A k \in Loads : ~Queued(k)'
  BY <1>1 DEF Queued
<1>6. \A k \in Loads : Owed(d, k)' => Queued(k)
  BY <1>1, <1>4, <1>3 DEF Owed, Queued
<1>7. \A k, e \in Loads : e # d => Owed(e, k)' = Owed(e, k)
  BY <1>1 DEF Owed
<1>8. Fresh'
  BY <1>1, <1>2, <1>4, <1>5 DEF IInv, Fresh, Queued
<1>9. Dispatches'
  BY <1>1, <1>2, <1>3, <1>4 DEF IInv, Dispatches
<1>10. PendingWillBeTaken'
  BY <1>1 DEF PendingWillBeTaken
<1>11. DistinctInBatch' /\ OwnValue'
  BY <1>1 DEF IInv, DistinctInBatch, OneOwner, OwnValue
<1>12. OneOwner'
  BY <1>1, <1>5, <1>6, <1>7 DEF IInv, OneOwner
<1>13. SendsNeverBlock'
  BY <1>1, <1>5, <1>6, <1>7 DEF IInv, SendsNeverBlock
<1>14. FullBatchIsLeaving'
  BY <1>1, MaxBatchAssumption DEF FullBatchIsLeaving
<1> QED
  BY <1>14, <1>8, <1>9, <1>10, <1>11, <1>12, <1>13 DEF IInv

LEMMA BatchReturnIInv ==
  ASSUME IInv, TypeOK', NEW d \in Loads, BatchReturn(d)
  PROVE  IInv'
<1>1. /\ disp[d] = "call" /\ disp'[d] = "send" /\ reply'[d] \in Reply
      /\ \A e \in Loads : e # d => disp'[e] = disp[e] /\ reply'[e] = reply[e]
      /\ UNCHANGED <<pc, pending, timer, batch, sent, chan, out>>
      /\ timer \in Loads \cup {None}
  BY DEF IInv, TypeOK, BatchReturn
<1>2. \A k \in Loads : Queued(k)' = Queued(k) /\ \A e \in Loads : Owed(e, k)' = Owed(e, k)
  BY <1>1 DEF Queued, Owed
<1>3. Fresh' /\ Dispatches'
  BY <1>1, <1>2 DEF IInv, Fresh, Dispatches
<1>4. PendingWillBeTaken'
  BY <1>1 DEF IInv, PendingWillBeTaken
<1>5. DistinctInBatch' /\ OneOwner' /\ SendsNeverBlock' /\ OwnValue'
  BY <1>1, <1>2 DEF IInv, DistinctInBatch, OneOwner, SendsNeverBlock, OwnValue
<1>14. FullBatchIsLeaving'
  BY <1>1, <1>2 DEF IInv, FullBatchIsLeaving
<1> QED
  BY <1>14, <1>3, <1>4, <1>5 DEF IInv

LEMMA SendIInv ==
  ASSUME IInv, TypeOK', NEW d \in Loads, SendResult(d)
  PROVE  IInv'
<1> DEFINE i == sent[d] + 1
           r == batch[d][i]
<1>1. /\ sent[d] \in Nat /\ Len(batch[d]) \in Nat
      /\ i \in 1 .. Len(batch[d])
      /\ r \in Loads
  <2>1. sent[d] < Len(batch[d]) /\ batch[d] \in Seq(Loads) /\ sent[d] \in Nat
    BY DEF IInv, TypeOK, Dispatches, SendResult
  <2> QED
    BY <2>1
<1>2. /\ disp[d] = "send" /\ chan[r] = None
      /\ chan'[r] = ResultAt(d, i)
      /\ \A k \in Loads : k # r => chan'[k] = chan[k]
      /\ sent'[d] = i
      /\ \A e \in Loads : e # d => sent'[e] = sent[e] /\ disp'[e] = disp[e]
      /\ disp'[d] = IF i = Len(batch[d]) THEN "done" ELSE "send"
      /\ UNCHANGED <<pending, timer, batch, out>>
      /\ timer \in Loads \cup {None}
  BY <1>1 DEF IInv, TypeOK, SendResult
<1>3. /\ \A k \in Loads : k # d => pc'[k] = pc[k]
      /\ pc'[d] \in {pc[d], "wait"}
      /\ pc'[d] = "dispatch" => i # Len(batch[d])
  BY DEF IInv, TypeOK, SendResult, Resume
<1>4. Owed(d, r)
  BY <1>1, <1>2 DEF Owed
<1>5. \A k \in Loads : Queued(k)' = Queued(k)
  BY <1>2 DEF Queued
<1>6. \A e, k \in Loads : Owed(e, k)' => Owed(e, k) /\ k # r
  <2> SUFFICES ASSUME NEW e \in Loads, NEW k \in Loads, Owed(e, k)'
               PROVE  Owed(e, k) /\ k # r
    OBVIOUS
  <2>1. CASE e = d
    <3>1. PICK j \in sent'[d] + 1 .. Len(batch[d]) : batch[d][j] = k
      BY <2>1, <1>2 DEF Owed
    <3>2. j \in sent[d] + 1 .. Len(batch[d]) /\ j \in 1 .. Len(batch[d]) /\ j # i
      BY <3>1, <1>1, <1>2
    <3>3. k # r
      BY <3>1, <3>2, <1>1 DEF IInv, DistinctInBatch
    <3> QED
      BY <2>1, <3>1, <3>2, <3>3, <1>2 DEF Owed
  <2>2. CASE e # d
    <3>1. Owed(e, k)
      BY <2>2, <1>2 DEF Owed
    <3> QED
      BY <3>1, <2>2, <1>4, <1>1 DEF IInv, OneOwner
  <2> QED
    BY <2>1, <2>2
<1>7. Fresh'
  BY <1>1, <1>2, <1>3, <1>5 DEF IInv, Fresh
<1>8. Dispatches'
  BY <1>1, <1>2, <1>3 DEF IInv, Dispatches
<1>9. PendingWillBeTaken'
  BY <1>2, <1>3 DEF IInv, PendingWillBeTaken
<1>10. DistinctInBatch' /\ OneOwner'
  BY <1>2, <1>5, <1>6 DEF IInv, DistinctInBatch, OneOwner
<1>11. SendsNeverBlock'
  BY <1>1, <1>2, <1>4, <1>5, <1>6 DEF IInv, SendsNeverBlock, OneOwner
<1>12. OwnValue'
  BY <1>1, <1>2 DEF IInv, OwnValue, ResultAt
<1>14. FullBatchIsLeaving'
  BY <1>2, <1>3, <1>5 DEF IInv, FullBatchIsLeaving
<1> QED
  BY <1>14, <1>7, <1>8, <1>9, <1>10, <1>11, <1>12 DEF IInv

LEMMA StopIInv ==
  ASSUME IInv, TypeOK', Stop
  PROVE  IInv'
<1>1. /\ timer' = None /\ pending' = <<>>
      /\ \A l \in Loads : disp'[l] = IF l = timer /\ disp[l] = "armed" THEN "done" ELSE disp[l]
      /\ \A l \in Loads : chan'[l] = IF Queued(l) THEN StoppedResult ELSE chan[l]
      /\ UNCHANGED <<pc, batch, reply, sent, out>>
  BY DEF Stop, StopTimer, Disarmed
<1>2. /\ \A k \in Loads : ~Queued(k)'
      /\ \A d, k \in Loads : Owed(d, k)' => Owed(d, k)
  BY <1>1 DEF Queued, Owed
<1>3. Fresh'
  BY <1>1, <1>2 DEF IInv, Fresh
<1>4. Dispatches'
  BY <1>1 DEF IInv, Dispatches
<1>5. PendingWillBeTaken' /\ DistinctInBatch'
  BY <1>1 DEF IInv, PendingWillBeTaken, DistinctInBatch
<1>6. OneOwner'
  BY <1>1, <1>2 DEF IInv, OneOwner
<1>7. SendsNeverBlock'
  BY <1>1, <1>2 DEF IInv, SendsNeverBlock, OneOwner
<1>8. OwnValue'
  BY <1>1 DEF IInv, OwnValue, StoppedResult
<1>14. FullBatchIsLeaving'
  BY <1>1, MaxBatchAssumption DEF FullBatchIsLeaving
<1> QED
  BY <1>14, <1>3, <1>4, <1>5, <1>6, <1>7, <1>8 DEF IInv

\* The steps that change nothing the invariant speaks of.
LEMMA OtherIInv ==
  ASSUME IInv, TypeOK',
         \/ \E l \in Loads : Cancel(l)
         \/ Quiet \/ UNCHANGED vars
  PROVE  IInv'
<1>1. UNCHANGED <<pc, pending, timer, disp, batch, reply, sent, chan, out>>
  BY DEF Cancel, Quiet, vars
<1>2. \A k \in Loads : Queued(k)' = Queued(k) /\ \A d \in Loads : Owed(d, k)' = Owed(d, k)
  BY <1>1 DEF Queued, Owed
<1>14. FullBatchIsLeaving'
  BY <1>1, <1>2 DEF IInv, FullBatchIsLeaving
<1> QED
  BY <1>14, <1>1, <1>2 DEF IInv, Fresh, Dispatches, PendingWillBeTaken, DistinctInBatch,
                    OneOwner, SendsNeverBlock, OwnValue

-----------------------------------------------------------------------------

\* Every step keeps the whole invariant.
LEMMA NextIInv == IInv /\ [Next]_vars => IInv'
<1> SUFFICES ASSUME IInv, [Next]_vars PROVE IInv'
  OBVIOUS
<1>1. TypeOK'
  BY NextTypeOK DEF IInv
<1> QED
  BY <1>1, RefusedIInv, EnqueueIInv, ReturnIInv, FireIInv, TakeIInv, BatchReturnIInv,
     SendIInv, StopIInv, OtherIInv
  DEF Next, DispatchStep

THEOREM InductiveInvariant == Spec => []IInv
  BY InitIInv, NextIInv, PTL DEF Spec

\* In every reachable state the variables of DataLoader have their types.
THEOREM TypeCorrect == Spec => []TypeOK
<1>1. IInv => TypeOK
  BY DEF IInv
<1> QED
  BY <1>1, InductiveInvariant, PTL

\* A request in dl.pending is never stranded without a timer or a dispatch
\* (Load, dispatch and Stop agree on dl.timer), for any number of calls.
THEOREM PendingIsTaken == Spec => []PendingWillBeTaken
<1>1. IInv => PendingWillBeTaken
  BY DEF IInv
<1> QED
  BY <1>1, InductiveInvariant, PTL

\* For every limit: a batch that is full is about to be taken by the call that
\* filled it; only calls that arrive before that can overfill it.
THEOREM FullBatchLeaves == Spec => []FullBatchIsLeaving
<1>1. IInv => FullBatchIsLeaving
  BY DEF IInv
<1> QED
  BY <1>1, InductiveInvariant, PTL

\* A result is sent once per call, so that no send on a resultCh of capacity 1
\* blocks, in dispatch or in Stop under the mutex.
THEOREM NoSendBlocks == Spec => [](SendsNeverBlock /\ OneOwner)
<1>1. IInv => SendsNeverBlock /\ OneOwner
  BY DEF IInv
<1> QED
  BY <1>1, InductiveInvariant, PTL

\* A Load call returns the value of its own key or none.
THEOREM ValuesAreNotMixed == Spec => []OwnValue
<1>1. IInv => OwnValue
  BY DEF IInv
<1> QED
  BY <1>1, InductiveInvariant, PTL

-----------------------------------------------------------------------------
(* DataLoader implements LoadContract.  The invariant so far tells where a *)
(* request waits; the contract also needs to know where it has been.       *)

\* The request of l is, or was, in what d took from pending, when b is `batch'.
InBatch(b, d, l) == \E i \in 1 .. Len(b[d]) : b[d][i] = l

Batches(b, l) == {d \in Loads : InBatch(b, d, l)}

\* A request is taken by one dispatch at most, and pending no longer then.
Once(b) == \A l \in Loads : \A d, e \in Loads : InBatch(b, d, l) /\ InBatch(b, e, l) => d = e
NoLongerPending == \A l, d \in Loads : InBatch(batch, d, l) => ~Queued(l)

\* A dispatch that has not had its section has taken nothing.
TakesLater == \A d \in Loads : disp[d] \in {"none", "armed", "run"} => batch[d] = <<>>

\* A result that waits in a channel comes from Stop, or from a batch.
Caused ==
  \A l \in Loads : chan[l] # None =>
    IF chan[l].err = "stopped" THEN stopped ELSE \E d \in Loads : InBatch(batch, d, l)

AskInv == IInv /\ Once(batch) /\ NoLongerPending /\ TakesLater /\ Caused

\* What is in one batch at most is counted once or not at all.
LEMMA TimesOf ==
  ASSUME NEW b, Once(b), NEW l \in Loads
  PROVE  Cardinality(Batches(b, l)) = IF \E d \in Loads : InBatch(b, d, l) THEN 1 ELSE 0
<1>1. CASE \E d \in Loads : InBatch(b, d, l)
  <2>1. PICK d \in Loads : InBatch(b, d, l)
    BY <1>1
  <2>2. Batches(b, l) = {d}
    BY <2>1 DEF Batches, Once
  <2>3. Cardinality({d}) = 1
    BY FS_Singleton, Zenon
  <2> QED BY <1>1, <2>2, <2>3
<1>2. CASE ~ \E d \in Loads : InBatch(b, d, l)
  <2>1. Batches(b, l) = {}
    BY <1>2 DEF Batches
  <2>2. Cardinality({}) = 0
    BY FS_EmptySet, Zenon
  <2> QED BY <1>2, <2>1, <2>2
<1> QED BY <1>1, <1>2

\* Nothing was in a batch when the loader was made.
LEMMA InitAskInv == Init => AskInv
<1> SUFFICES ASSUME Init PROVE AskInv
  OBVIOUS
<1>1. \A l, d \in Loads : ~InBatch(batch, d, l)
  BY DEF Init, InBatch
<1> QED
  BY <1>1, InitIInv DEF Init, AskInv, Once, NoLongerPending, TakesLater, Caused

\* Batches are only changed by a dispatch that takes what is pending.
LEMMA TakeAskInv ==
  ASSUME AskInv, TypeOK', NEW d \in Loads, DispatchTake(d)
  PROVE  /\ Once(batch') /\ NoLongerPending' /\ TakesLater' /\ Caused'
         /\ \A l \in Loads : InBatch(batch', d, l) <=> Queued(l)
         /\ \A l, e \in Loads : e # d => (InBatch(batch', e, l) <=> InBatch(batch, e, l))
         /\ \A l \in Loads : ~InBatch(batch, d, l)
<1>1. /\ disp[d] = "run"
      /\ disp'[d] \in {"done", "call"}
      /\ \A e \in Loads : e # d => disp'[e] = disp[e] /\ batch'[e] = batch[e]
      /\ batch'[d] = pending
      /\ pending' = <<>>
      /\ UNCHANGED <<chan, stopped>>
  BY DEF AskInv, IInv, TypeOK, DispatchTake, TakePending
<1>2. \A l \in Loads : ~InBatch(batch, d, l)
  <2>1. batch[d] = <<>>
    BY <1>1 DEF AskInv, TakesLater
  <2> QED BY <2>1 DEF InBatch
<1>3. \A l \in Loads : InBatch(batch', d, l) <=> Queued(l)
  BY <1>1 DEF InBatch, Queued
<1>4. \A l, e \in Loads : e # d => (InBatch(batch', e, l) <=> InBatch(batch, e, l))
  BY <1>1 DEF InBatch
<1>5. \A l \in Loads : ~Queued(l)'
  BY <1>1 DEF Queued
<1>6. Once(batch')
  <2>1. Once(batch) /\ \A l, e \in Loads : InBatch(batch, e, l) => ~Queued(l)
    BY Zenon DEF AskInv, NoLongerPending
  <2> SUFFICES ASSUME NEW l \in Loads, NEW a \in Loads, NEW e \in Loads,
                      InBatch(batch', a, l), InBatch(batch', e, l)
               PROVE  a = e
    BY DEF Once
  <2>2. CASE a = d \/ e = d
    BY <2>1, <2>2, <1>3, <1>4, Zenon
  <2>3. CASE a # d /\ e # d
    BY <2>1, <2>3, <1>4, Zenon DEF Once
  <2> QED BY <2>2, <2>3
<1>7. NoLongerPending'
  BY <1>5 DEF NoLongerPending
<1>8. TakesLater'
  BY <1>1 DEF AskInv, TakesLater
<1>9. Caused'
  <2> SUFFICES ASSUME NEW l \in Loads, chan'[l] # None, chan'[l].err # "stopped"
               PROVE  \E e \in Loads : InBatch(batch', e, l)
    BY <1>1 DEF AskInv, Caused
  <2>1. PICK e \in Loads : InBatch(batch, e, l)
    BY <1>1 DEF AskInv, Caused
  <2> QED BY <2>1, <1>2, <1>4, Zenon
<1> QED BY <1>2, <1>3, <1>4, <1>6, <1>7, <1>8, <1>9

\* The steps that neither take nor return a result.
LEMMA KeepAskInv ==
  ASSUME AskInv, UNCHANGED batch,
         \A l \in Loads : Queued(l)' => Queued(l) \/ pc[l] = "idle",
         \A d \in Loads : \/ disp'[d] = disp[d]
                          \/ disp'[d] \in {"done", "send"}
                          \/ disp[d] \in {"none", "armed", "run"},
         stopped => stopped',
         \A l \in Loads : \/ chan'[l] \in {chan[l], None}
                          \/ chan'[l].err = "stopped" /\ stopped'
                          \/ chan'[l].err # "stopped" /\ \E d \in Loads : InBatch(batch, d, l)
  PROVE  Once(batch') /\ NoLongerPending' /\ TakesLater' /\ Caused'
<1>1. Once(batch')
  BY DEF AskInv
<1>2. NoLongerPending'
  <2>1. \A l, d \in Loads : pc[l] = "idle" => ~InBatch(batch, d, l)
    BY DEF AskInv, IInv, Fresh, InBatch
  <2> QED BY <2>1 DEF AskInv, NoLongerPending
<1>3. TakesLater'
  BY DEF AskInv, TakesLater
<1>4. Caused'
  BY DEF AskInv, Caused
<1> QED BY <1>1, <1>2, <1>3, <1>4

\* A request keeps to one batch, and a result to its cause, in every step.
LEMMA NextAskInv == AskInv /\ [Next]_vars => AskInv'
<1> SUFFICES ASSUME AskInv, [Next]_vars PROVE Once(batch') /\ NoLongerPending' /\ TakesLater' /\ Caused'
  BY NextIInv DEF AskInv
<1>0. IInv /\ IInv' /\ TypeOK /\ TypeOK'
  BY NextIInv DEF AskInv, IInv
<1>1. ASSUME NEW l \in Loads, LoadEnqueue(l)
      PROVE  Once(batch') /\ NoLongerPending' /\ TakesLater' /\ Caused'
  <2>1. \A k \in Loads : Queued(k)' => Queued(k) \/ pc[k] = "idle"
    <3>1. /\ Len(pending') = Len(pending) + 1 /\ Len(pending) \in Nat
          /\ \A i \in 1 .. Len(pending) : pending'[i] = pending[i]
          /\ pending'[Len(pending) + 1] = l /\ pc[l] = "idle"
      BY <1>0, <1>1 DEF TypeOK, LoadEnqueue
    <3> QED BY <3>1 DEF Queued
  <2>2. disp[l] = "none" /\ \A d \in Loads : d # l => disp'[d] = disp[d]
    BY <1>0, <1>1 DEF TypeOK, LoadEnqueue, IInv, Fresh
  <2>3. UNCHANGED <<batch, chan, stopped>>
    BY <1>1 DEF LoadEnqueue
  <2> QED BY <2>1, <2>2, <2>3, KeepAskInv
<1>2. ASSUME NEW l \in Loads, LoadReturn(l)
      PROVE  Once(batch') /\ NoLongerPending' /\ TakesLater' /\ Caused'
  <2>1. UNCHANGED <<pending, disp, batch, stopped>>
    BY <1>2 DEF LoadReturn
  <2>2. \A k \in Loads : chan'[k] \in {chan[k], None}
    BY <1>0, <1>2 DEF LoadReturn, TypeOK
  <2>3. \A k \in Loads : Queued(k)' => Queued(k)
    BY <2>1 DEF Queued
  <2> QED BY <2>1, <2>2, <2>3, KeepAskInv
<1>3. ASSUME NEW l \in Loads, SendResult(l)
      PROVE  Once(batch') /\ NoLongerPending' /\ TakesLater' /\ Caused'
  <2> DEFINE i == sent[l] + 1
             r == batch[l][i]
  <2>1. i \in 1 .. Len(batch[l]) /\ r \in Loads
    <3>1. sent[l] < Len(batch[l]) /\ batch[l] \in Seq(Loads) /\ sent[l] \in Nat
      BY <1>0, <1>3 DEF IInv, TypeOK, Dispatches, SendResult
    <3> QED BY <3>1
  <2>2. /\ UNCHANGED <<pending, batch, stopped>>
        /\ chan'[r] = ResultAt(l, i) /\ \A k \in Loads : k # r => chan'[k] = chan[k]
        /\ disp[l] = "send" /\ disp'[l] \in {"done", "send"}
        /\ \A d \in Loads : d # l => disp'[d] = disp[d]
    BY <1>0, <1>3, <2>1 DEF SendResult, TypeOK
  <2>3. chan'[r].err # "stopped" /\ InBatch(batch, l, r)
    BY <2>1, <2>2 DEF ResultAt, InBatch
  <2>4. \A k \in Loads : Queued(k)' => Queued(k)
    BY <2>2 DEF Queued
  <2> HIDE DEF i, r
  <2> QED BY <2>1, <2>2, <2>3, <2>4, KeepAskInv
<1>4. ASSUME Stop
      PROVE  Once(batch') /\ NoLongerPending' /\ TakesLater' /\ Caused'
  <2>1. /\ batch' = batch /\ pending' = <<>> /\ stopped'
        /\ \A d \in Loads : disp'[d] = disp[d] \/ disp[d] = "armed"
        /\ \A l \in Loads : chan'[l] = chan[l] \/ chan'[l] = StoppedResult
    BY <1>4 DEF Stop, StopTimer, Disarmed
  <2>2. \A l \in Loads : ~Queued(l)'
    BY <2>1 DEF Queued
  <2> QED BY <2>1, <2>2, KeepAskInv DEF StoppedResult
<1>5. ASSUME NEW l \in Loads, LoadRefused(l) \/ TimerFire(l) \/ BatchReturn(l) \/ Cancel(l)
      PROVE  Once(batch') /\ NoLongerPending' /\ TakesLater' /\ Caused'
  <2>1. UNCHANGED <<pending, batch, chan, stopped>>
    BY <1>5 DEF LoadRefused, TimerFire, BatchReturn, Cancel
  <2>2. \A d \in Loads : \/ disp'[d] = disp[d] \/ disp[d] = "armed"
                         \/ disp[d] = "call" /\ disp'[d] = "send"
    BY <1>0, <1>5 DEF LoadRefused, TimerFire, BatchReturn, Cancel, TypeOK
  <2>3. \A k \in Loads : Queued(k)' => Queued(k)
    BY <2>1 DEF Queued
  <2> QED BY <2>1, <2>2, <2>3, KeepAskInv
<1>6. ASSUME Quiet \/ UNCHANGED vars
      PROVE  Once(batch') /\ NoLongerPending' /\ TakesLater' /\ Caused'
  <2>1. UNCHANGED <<pending, disp, batch, chan, stopped>>
    BY <1>6 DEF Quiet, vars
  <2>2. \A k \in Loads : Queued(k)' => Queued(k)
    BY <2>1 DEF Queued
  <2> QED BY <2>1, <2>2, KeepAskInv
<1>7. ASSUME NEW d \in Loads, DispatchTake(d)
      PROVE  Once(batch') /\ NoLongerPending' /\ TakesLater' /\ Caused'
  BY <1>0, <1>7, TakeAskInv
<1> QED
  BY <1>1, <1>2, <1>3, <1>4, <1>5, <1>6, <1>7 DEF Next, DispatchStep

-----------------------------------------------------------------------------
(* The steps of the contract *)

\* A new loader is what the contract begins with.
LEMMA InitContract == Init => Contract!Init
<1> SUFFICES ASSUME Init PROVE Contract!Init
  OBVIOUS
<1>1. \A l \in Loads : pc[l] = "idle"
  BY DEF Init
<1>2. \A l \in Loads : TimesAsked(l) = 0
  <2> SUFFICES ASSUME NEW l \in Loads PROVE TimesAsked(l) = 0
    OBVIOUS
  <2>1. {d \in Loads : \E i \in 1 .. Len(batch[d]) : batch[d][i] = l} = {}
    BY DEF Init
  <2>2. Cardinality({}) = 0
    BY FS_EmptySet, Zenon
  <2> QED BY <2>1, <2>2 DEF TimesAsked
<1> QED
  BY <1>1, <1>2 DEF Init, Contract!Init

\* What the steps of the contract say of calls and batches.
CallMoves(l, w) ==
  /\ \A k \in Loads : k # l => pc'[k] = pc[k]
  /\ pc'[l] = w /\ w # "idle"
SamePhase == \A l \in Loads : \/ pc'[l] = pc[l]
                              \/ {pc[l], pc'[l]} \cap {"idle", "done"} = {}
Calls == [l \in Loads |-> CASE pc[l] = "idle" -> "idle"
                            [] pc[l] = "done" -> "returned"
                            [] OTHER -> "open"]
Asks == [l \in Loads |-> TimesAsked(l)]

\* How a call looks to the contract after it moved.
LEMMA CallsMove ==
  /\ SamePhase => UNCHANGED Calls
  /\ \A l \in Loads : CallMoves(l, "done") => Calls' = [Calls EXCEPT ![l] = "returned"]
  /\ \A l \in Loads : (CallMoves(l, "wait") \/ CallMoves(l, "dispatch")) => Calls' = [Calls EXCEPT ![l] = "open"]
<1>1. SamePhase => UNCHANGED Calls
  BY DEF SamePhase, Calls
<1>2. ASSUME NEW l \in Loads, CallMoves(l, "done") PROVE Calls' = [Calls EXCEPT ![l] = "returned"]
  BY <1>2 DEF CallMoves, Calls
<1>3. ASSUME NEW l \in Loads, CallMoves(l, "wait") \/ CallMoves(l, "dispatch")
      PROVE  Calls' = [Calls EXCEPT ![l] = "open"]
  BY <1>3 DEF CallMoves, Calls
<1> QED BY <1>1, <1>2, <1>3

\* The caller that dispatched goes on to wait, and its call stays open.
LEMMA ResumeIsOpen ==
  ASSUME TypeOK, NEW d \in Loads, pc' = Resume(d) \/ pc' = pc
  PROVE  SamePhase
<1>1. \A k \in Loads : pc'[k] = pc[k] \/ (pc[k] = "dispatch" /\ pc'[k] = "wait")
  <2>1. pc \in [Loads -> {"idle", "dispatch", "wait", "done"}]
    BY DEF TypeOK
  <2>2. CASE pc' = [pc EXCEPT ![d] = "wait"] /\ pc[d] = "dispatch"
    BY <2>1, <2>2
  <2>3. CASE pc' = pc
    BY <2>3
  <2> QED BY <2>2, <2>3 DEF Resume
<1> QED BY <1>1 DEF SamePhase

\* Without a new batch nothing more is asked for.
LEMMA SameAsks == ASSUME batch' = batch PROVE Asks' = Asks
  BY DEF Asks, TimesAsked

\* The append in Load is an Open of the contract.
LEMMA Opens ==
  ASSUME NEW l \in Loads, pc[l] = "idle", Calls' = [Calls EXCEPT ![l] = "open"],
         Asks' = Asks, UNCHANGED <<out, cancelled, stopped>>
  PROVE  Contract!Open(l)
<1>1. Calls[l] = "idle"
  BY DEF Calls
<1> QED BY <1>1 DEF Contract!Open, Calls, Asks

\* A call that returns with a cause is a Return of the contract.
LEMMA Returns ==
  ASSUME NEW l \in Loads, NEW why \in {"result", "ctx", "stopped"},
         pc[l] # "done", pc[l] = "idle" => why = "ctx",
         CASE why = "result" -> Asks[l] = 1
           [] why = "ctx"    -> l \in cancelled
           [] why = "stopped" -> stopped,
         Calls' = [Calls EXCEPT ![l] = "returned"], out' = [out EXCEPT ![l] = why],
         Asks' = Asks, UNCHANGED <<cancelled, stopped>>
  PROVE  Contract!Return(l, why)
<1>1. Calls[l] \in {"idle", "open"} /\ (Calls[l] = "idle" => why = "ctx")
  BY DEF Calls
<1> QED BY <1>1 DEF Contract!Return, Contract!Cause, Calls, Asks

\* Calls that are handed over together for the first time are an Ask of the contract.
LEMMA AsksFor ==
  ASSUME NEW S \in SUBSET Loads, S # {}, \A l \in S : Asks[l] = 0 /\ pc[l] # "idle",
         Asks' = [l \in Loads |-> IF l \in S THEN 1 ELSE Asks[l]], Calls' = Calls,
         UNCHANGED <<out, cancelled, stopped>>
  PROVE  Contract!Ask(S)
<1>1. \A l \in S : Calls[l] # "idle"
  BY DEF Calls
<1> QED BY <1>1 DEF Contract!Ask, Calls, Asks

\* A nonempty batch asks for the calls in it, each for the first time.
LEMMA TakeAsks ==
  ASSUME AskInv, TypeOK', NEW d \in Loads, DispatchTake(d), pending # <<>>
  PROVE  Contract!Ask({l \in Loads : Queued(l)})
<1> DEFINE S == {l \in Loads : Queued(l)}
<1>1. S \in SUBSET Loads /\ S # {}
  <2>1. pending \in Seq(Loads)
    BY DEF AskInv, IInv, TypeOK
  <2>2. 1 \in 1 .. Len(pending) /\ pending[1] \in Loads
    BY <2>1
  <2> QED BY <2>2 DEF Queued
<1>2. \A l \in Loads : pc[l] = "idle" => ~Queued(l)
  BY DEF AskInv, IInv, Fresh
<1>3. \A l \in Loads : Asks[l] = Cardinality(Batches(batch, l))
  BY DEF Asks, TimesAsked, Batches, InBatch
<1>4. \A l \in Loads : Asks'[l] = Cardinality(Batches(batch', l))
  BY DEF Asks, TimesAsked, Batches, InBatch
<1>5. /\ Once(batch) /\ Once(batch')
      /\ \A l \in Loads : InBatch(batch', d, l) <=> Queued(l)
      /\ \A l, e \in Loads : e # d => (InBatch(batch', e, l) <=> InBatch(batch, e, l))
      /\ \A l \in Loads : ~InBatch(batch, d, l)
      /\ \A l, e \in Loads : InBatch(batch, e, l) => ~Queued(l)
  <2>1. Once(batch) /\ \A l, e \in Loads : InBatch(batch, e, l) => ~Queued(l)
    BY Zenon DEF AskInv, NoLongerPending
  <2> QED BY <2>1, TakeAskInv, Zenon
<1>6. \A l \in Loads : Queued(l) => Asks[l] = 0 /\ Asks'[l] = 1
  <2> SUFFICES ASSUME NEW l \in Loads, Queued(l) PROVE Asks[l] = 0 /\ Asks'[l] = 1
    OBVIOUS
  <2>1. ~ \E e \in Loads : InBatch(batch, e, l)
    BY <1>5, Zenon
  <2>2. \E e \in Loads : InBatch(batch', e, l)
    BY <1>5, Zenon
  <2>3. Cardinality(Batches(batch, l)) = IF \E e \in Loads : InBatch(batch, e, l) THEN 1 ELSE 0
    BY <1>5, TimesOf, Zenon
  <2>4. Cardinality(Batches(batch', l)) = IF \E e \in Loads : InBatch(batch', e, l) THEN 1 ELSE 0
    BY <1>5, TimesOf, Zenon
  <2> QED BY <1>3, <1>4, <2>1, <2>2, <2>3, <2>4, Zenon
<1>7. \A l \in Loads : ~Queued(l) => Asks'[l] = Asks[l]
  <2> SUFFICES ASSUME NEW l \in Loads, ~Queued(l) PROVE Asks'[l] = Asks[l]
    OBVIOUS
  <2>1. \A e \in Loads : InBatch(batch', e, l) <=> InBatch(batch, e, l)
    BY <1>5, Zenon
  <2>2. Batches(batch', l) = Batches(batch, l)
    BY <2>1, Zenon DEF Batches
  <2> QED BY <1>3, <1>4, <2>2, Zenon
<1>8. Asks' = [l \in Loads |-> IF l \in S THEN 1 ELSE Asks[l]]
  BY <1>6, <1>7 DEF Asks
<1>9. Calls' = Calls /\ UNCHANGED <<out, cancelled, stopped>>
  <2>1. pc' = pc /\ UNCHANGED <<out, cancelled, stopped>>
    BY DEF DispatchTake
  <2> QED BY <2>1 DEF Calls
<1>10. \A l \in S : Asks[l] = 0 /\ pc[l] # "idle"
  BY <1>2, <1>6
<1> HIDE DEF S
<1> QED BY <1>1, <1>8, <1>9, <1>10, AsksFor DEF S

\* A result is returned only to a call whose key was handed over.
LEMMA ReturnHasCause ==
  ASSUME AskInv, TypeOK', NEW l \in Loads, LoadReturn(l)
  PROVE  \E why \in {"result", "ctx", "stopped"} : Contract!Return(l, why)
<1>1. /\ pc[l] = "wait" /\ CallMoves(l, "done")
      /\ UNCHANGED <<batch, cancelled, stopped>>
  BY DEF LoadReturn, AskInv, IInv, TypeOK, CallMoves
<1>2. Calls' = [Calls EXCEPT ![l] = "returned"] /\ Asks' = Asks
  BY <1>1, CallsMove, SameAsks, Zenon
<1>3. Asks[l] = Cardinality(Batches(batch, l))
  BY DEF Asks, TimesAsked, Batches, InBatch
<1>4. (\E d \in Loads : InBatch(batch, d, l)) => Asks[l] = 1
  <2>1. Once(batch)
    BY DEF AskInv
  <2>2. Cardinality(Batches(batch, l)) = IF \E d \in Loads : InBatch(batch, d, l) THEN 1 ELSE 0
    BY <2>1, TimesOf, Zenon
  <2> QED BY <1>3, <2>2, Zenon
<1>5. chan[l] # None => IF chan[l].err = "stopped" THEN stopped ELSE Asks[l] = 1
  BY <1>4, Zenon DEF AskInv, Caused
<1>6. PICK why \in {"result", "ctx", "stopped"} :
        /\ out' = [out EXCEPT ![l] = why]
        /\ why = "result" => Asks[l] = 1
        /\ why = "ctx" => l \in cancelled
        /\ why = "stopped" => stopped
  <2>1. CASE /\ chan[l] # None
             /\ out' = [out EXCEPT ![l] = IF chan[l].err = "stopped" THEN "stopped" ELSE "result"]
    <3>1. CASE chan[l].err = "stopped"
      BY <2>1, <3>1, <1>5
    <3>2. CASE chan[l].err # "stopped"
      BY <2>1, <3>2, <1>5
    <3> QED BY <3>1, <3>2
  <2>2. CASE l \in cancelled /\ out' = [out EXCEPT ![l] = "ctx"]
    BY <2>2
  <2>3. CASE stopped /\ out' = [out EXCEPT ![l] = "stopped"]
    BY <2>3
  <2> QED BY <2>1, <2>2, <2>3 DEF LoadReturn
<1> QED BY <1>1, <1>2, <1>6, Returns

\* Every step of the loader is one of the contract, or none it can see.
LEMMA StepContract ==
  ASSUME AskInv, AskInv', [Next]_vars
  PROVE  [Contract!Next]_Contract!contractVars
<1> DEFINE Same == UNCHANGED <<Calls, Asks, out, cancelled, stopped>>
<1>0. TypeOK /\ TypeOK'
  BY DEF AskInv, IInv
<1>1. Same => UNCHANGED Contract!contractVars
  BY DEF Contract!contractVars, Calls, Asks
<1>2. ASSUME NEW l \in Loads, LoadRefused(l) PROVE Contract!Next
  <2>1. /\ pc[l] = "idle" /\ CallMoves(l, "done") /\ l \in cancelled
        /\ out' = [out EXCEPT ![l] = "ctx"] /\ UNCHANGED <<batch, cancelled, stopped>>
    BY <1>0, <1>2 DEF LoadRefused, CallMoves, TypeOK
  <2>2. Calls' = [Calls EXCEPT ![l] = "returned"] /\ Asks' = Asks
    BY <2>1, CallsMove, SameAsks, Zenon
  <2>3. Contract!Return(l, "ctx")
    BY <2>1, <2>2, Returns
  <2> QED BY <2>3 DEF Contract!Next
<1>3. ASSUME NEW l \in Loads, LoadEnqueue(l) PROVE Contract!Next
  <2>1. /\ CallMoves(l, "dispatch") \/ CallMoves(l, "wait")
        /\ UNCHANGED <<batch, out, cancelled, stopped>>
    BY <1>0, <1>3 DEF LoadEnqueue, CallMoves, TypeOK
  <2>2. Calls' = [Calls EXCEPT ![l] = "open"] /\ Asks' = Asks
    BY <2>1, CallsMove, SameAsks, Zenon
  <2>3. pc[l] = "idle"
    BY <1>3 DEF LoadEnqueue
  <2>4. Contract!Open(l)
    BY <2>1, <2>2, <2>3, Opens
  <2> QED BY <2>4 DEF Contract!Next
<1>4. ASSUME NEW l \in Loads, LoadReturn(l) PROVE Contract!Next
  BY <1>0, <1>4, ReturnHasCause DEF Contract!Next
<1>5. ASSUME NEW d \in Loads, DispatchTake(d) PROVE Contract!Next \/ Same
  <2>1. CASE pending # <<>>
    BY <1>0, <1>5, <2>1, TakeAsks DEF Contract!Next
  <2>2. CASE pending = <<>>
    <3>1. /\ UNCHANGED <<out, cancelled, stopped>> /\ disp[d] = "run"
          /\ batch' = [batch EXCEPT ![d] = <<>>]
          /\ pc' = Resume(d)
      BY <1>5, <2>2 DEF DispatchTake, TakePending
    <3>2. batch[d] = <<>> /\ batch' = batch
      BY <1>0, <3>1 DEF AskInv, TakesLater, TypeOK
    <3>3. SamePhase
      BY <1>0, <3>1, ResumeIsOpen
    <3> QED BY <3>1, <3>2, <3>3, CallsMove, SameAsks
  <2> QED BY <2>1, <2>2
<1>6. ASSUME NEW d \in Loads, SendResult(d) PROVE Same
  <2>1. /\ UNCHANGED <<batch, out, cancelled, stopped>>
        /\ pc' = Resume(d) \/ pc' = pc
    BY <1>6 DEF SendResult
  <2>2. SamePhase
    BY <1>0, <2>1, ResumeIsOpen
  <2> QED BY <2>1, <2>2, CallsMove, SameAsks
<1>7. ASSUME NEW l \in Loads, TimerFire(l) \/ BatchReturn(l) PROVE Same
  BY <1>7, SameAsks DEF TimerFire, BatchReturn, Calls
<1>8. ASSUME NEW l \in Loads, Cancel(l) PROVE Contract!Next
  <2>1. Contract!Cancel(l)
    BY <1>8, SameAsks DEF Cancel, Contract!Cancel, Asks
  <2> QED BY <2>1 DEF Contract!Next
<1>9. ASSUME Stop PROVE Contract!Next
  <2>1. Contract!Stop
    BY <1>9, SameAsks DEF Stop, Contract!Stop, Asks
  <2> QED BY <2>1 DEF Contract!Next
<1>10. ASSUME Quiet \/ UNCHANGED vars PROVE Same
  BY <1>10, SameAsks DEF Quiet, vars, Calls
<1> HIDE DEF Same
<1> QED
  BY <1>1, <1>2, <1>3, <1>4, <1>5, <1>6, <1>7, <1>8, <1>9, <1>10 DEF Next, DispatchStep

\* What LoadContract promises is kept for any number of calls, any limit and whatever timers,
\* Stop and contexts do: each call is answered once, its key handed over at most once and after
\* the call, and every answer has its cause.
THEOREM KeepsContract == Spec => ImplementsContract
<1>1. Spec => []AskInv
  BY InitAskInv, NextAskInv, PTL DEF Spec
<1>2. AskInv /\ AskInv' /\ [Next]_vars => [Contract!Next]_Contract!contractVars
  BY StepContract
<1> QED
  BY <1>1, <1>2, InitContract, PTL DEF Spec, ImplementsContract, Contract!Spec
=============================================================================
