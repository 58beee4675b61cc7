--------------------------- MODULE ExchangeProofs ---------------------------
(***************************************************************************)
(* Proofs about the Exchange iterator, for every number of partitions, any *)
(* rows in them and any parallelism, under every failure.                  *)
(***************************************************************************)
EXTENDS Exchange, FiniteSetTheorems, SequenceTheorems, TLAPS

\* Every step of the iterator keeps the flags and captured quit channels Boolean.
LEMMA FlagsStep == FlagsOK /\ [Next]_vars => FlagsOK'
<1> SUFFICES ASSUME FlagsOK, [Next]_vars PROVE FlagsOK'
  OBVIOUS
<1> USE DEF FlagsOK, tokenVars, channelVars, signalVars, startVars,
            iterVars, workerVars, consumerVars
<1>1. CASE Start
  <2>1. CASE StartBegin BY <2>1 DEF StartBegin, FillTokens
  <2>2. CASE StartEnter BY <2>2 DEF StartEnter
  <2>3. CASE StartCancelled BY <2>3 DEF StartCancelled
  <2>4. CASE StartCancelErr BY <2>4 DEF StartCancelErr, CloseTokens, SendErr, ErrRoom
  <2>5. CASE StartQuit BY <2>5 DEF StartQuit, CloseTokens
  <2>6. CASE StartPartition BY <2>6 DEF StartPartition
  <2>7. CASE StartNoMore BY <2>7 DEF StartNoMore, CloseTokens
  <2>8. CASE StartWait BY <2>8 DEF StartWait
  <2> QED BY <1>1, <2>1, <2>2, <2>3, <2>4, <2>5, <2>6, <2>7, <2>8 DEF Start
<1>2. CASE Iter
  <2>1. CASE IterEnter BY <2>1 DEF IterEnter
  <2>2. CASE IterCancelled BY <2>2 DEF IterCancelled
  <2>3. CASE IterQuit BY <2>3 DEF IterQuit
  <2>4. CASE IterToken BY <2>4 DEF IterToken
  <2>5. CASE IterNext BY <2>5 DEF IterNext
  <2>6. CASE IterErr BY <2>6 DEF IterErr, SendErr, ErrRoom
  <2> QED BY <1>2, <2>1, <2>2, <2>3, <2>4, <2>5, <2>6 DEF Iter
<1>3. ASSUME NEW p \in Partitions, Worker(p) PROVE FlagsOK'
  <2> USE DEF WorkerGoto
  <2>1. CASE WorkerBegin(p) BY <2>1 DEF WorkerBegin
  <2>2. CASE WorkerEnter(p) BY <2>2 DEF WorkerEnter
  <2>3. CASE WorkerPoll(p) BY <2>3 DEF WorkerPoll
  <2>4. CASE WorkerNext(p) BY <2>4 DEF WorkerNext
  <2>5. CASE WorkerSend(p) BY <2>5 DEF WorkerSend
  <2>6. CASE WorkerErr(p) BY <2>6 DEF WorkerErr, SendErr, ErrRoom
  <2>7. CASE WorkerClose(p) BY <2>7 DEF WorkerClose
  <2>8. CASE WorkerWgDone(p) BY <2>8 DEF WorkerWgDone
  <2>9. CASE WorkerRelease(p) BY <2>9 DEF WorkerRelease, ReleaseToken
  <2> QED BY <1>3, <2>1, <2>2, <2>3, <2>4, <2>5, <2>6, <2>7, <2>8, <2>9 DEF Worker
<1>4. CASE ConsumerCall BY <1>4 DEF ConsumerCall
<1>5. CASE ConsumerErr BY <1>5 DEF ConsumerErr, Close
<1>6. CASE ConsumerRow BY <1>6 DEF ConsumerRow
<1>7. CASE ConsumerEOF BY <1>7 DEF ConsumerEOF
<1>8. CASE ConsumerClose BY <1>8 DEF ConsumerClose, Close
<1>9. CASE Cancel BY <1>9 DEF Cancel
<1>10. CASE UNCHANGED vars BY <1>10 DEF vars
<1> QED
  BY <1>1, <1>2, <1>3, <1>4, <1>5, <1>6, <1>7, <1>8, <1>9, <1>10
  DEF Next, Receive

\* Every step keeps the program counters of the four kinds of goroutine in range.
LEMMA ControlStep == ControlOK /\ [Next]_vars => ControlOK'
<1> SUFFICES ASSUME ControlOK, [Next]_vars PROVE ControlOK'
  OBVIOUS
<1> USE DEF ControlOK, tokenVars, channelVars, signalVars, startVars,
            iterVars, workerVars, consumerVars
<1>1. CASE Start
  <2>1. CASE StartBegin BY <2>1 DEF StartBegin, FillTokens
  <2>2. CASE StartEnter BY <2>2 DEF StartEnter
  <2>3. CASE StartCancelled BY <2>3 DEF StartCancelled
  <2>4. CASE StartCancelErr BY <2>4 DEF StartCancelErr, CloseTokens, SendErr, ErrRoom
  <2>5. CASE StartQuit BY <2>5 DEF StartQuit, CloseTokens
  <2>6. CASE StartPartition BY <2>6 DEF StartPartition
  <2>7. CASE StartNoMore BY <2>7 DEF StartNoMore, CloseTokens
  <2>8. CASE StartWait BY <2>8 DEF StartWait
  <2> QED BY <1>1, <2>1, <2>2, <2>3, <2>4, <2>5, <2>6, <2>7, <2>8 DEF Start
<1>2. CASE Iter
  <2>1. CASE IterEnter BY <2>1 DEF IterEnter
  <2>2. CASE IterCancelled BY <2>2 DEF IterCancelled
  <2>3. CASE IterQuit BY <2>3 DEF IterQuit
  <2>4. CASE IterToken BY <2>4 DEF IterToken
  <2>5. CASE IterNext BY <2>5 DEF IterNext
  <2>6. CASE IterErr BY <2>6 DEF IterErr, SendErr, ErrRoom
  <2> QED BY <1>2, <2>1, <2>2, <2>3, <2>4, <2>5, <2>6 DEF Iter
<1>3. ASSUME NEW p \in Partitions, Worker(p) PROVE ControlOK'
  <2> USE DEF WorkerGoto
  <2>1. CASE WorkerBegin(p) BY <2>1 DEF WorkerBegin
  <2>2. CASE WorkerEnter(p) BY <2>2 DEF WorkerEnter
  <2>3. CASE WorkerPoll(p) BY <2>3 DEF WorkerPoll
  <2>4. CASE WorkerNext(p) BY <2>4 DEF WorkerNext
  <2>5. CASE WorkerSend(p) BY <2>5 DEF WorkerSend
  <2>6. CASE WorkerErr(p) BY <2>6 DEF WorkerErr, SendErr, ErrRoom
  <2>7. CASE WorkerClose(p) BY <2>7 DEF WorkerClose
  <2>8. CASE WorkerWgDone(p) BY <2>8 DEF WorkerWgDone
  <2>9. CASE WorkerRelease(p) BY <2>9 DEF WorkerRelease, ReleaseToken
  <2> QED BY <1>3, <2>1, <2>2, <2>3, <2>4, <2>5, <2>6, <2>7, <2>8, <2>9 DEF Worker
<1>4. CASE ConsumerCall BY <1>4 DEF ConsumerCall
<1>5. CASE ConsumerErr BY <1>5 DEF ConsumerErr, Close
<1>6. CASE ConsumerRow BY <1>6 DEF ConsumerRow
<1>7. CASE ConsumerEOF BY <1>7 DEF ConsumerEOF
<1>8. CASE ConsumerClose BY <1>8 DEF ConsumerClose, Close
<1>9. CASE Cancel BY <1>9 DEF Cancel
<1>10. CASE UNCHANGED vars BY <1>10 DEF vars
<1> QED
  BY <1>1, <1>2, <1>3, <1>4, <1>5, <1>6, <1>7, <1>8, <1>9, <1>10
  DEF Next, Receive

\* Every step keeps the channels, the tokens and the read positions in their types.
LEMMA DataStep == ControlOK /\ DataOK /\ [Next]_vars => DataOK'
<1> SUFFICES ASSUME ControlOK /\ DataOK, [Next]_vars PROVE DataOK'
  OBVIOUS
<1> USE ExchangeAssumption DEF DataOK, tokenVars, channelVars, signalVars, startVars,
            iterVars, workerVars, consumerVars
<1>1. CASE Start
  <2>1. CASE StartBegin BY <2>1 DEF StartBegin, FillTokens
  <2>2. CASE StartEnter BY <2>2 DEF StartEnter
  <2>3. CASE StartCancelled BY <2>3 DEF StartCancelled
  <2>4. CASE StartCancelErr BY <2>4 DEF StartCancelErr, CloseTokens, SendErr, ErrRoom
  <2>5. CASE StartQuit BY <2>5 DEF StartQuit, CloseTokens
  <2>6. CASE StartPartition BY <2>6 DEF StartPartition
  <2>7. CASE StartNoMore BY <2>7 DEF StartNoMore, CloseTokens
  <2>8. CASE StartWait BY <2>8 DEF StartWait
  <2> QED BY <1>1, <2>1, <2>2, <2>3, <2>4, <2>5, <2>6, <2>7, <2>8 DEF Start
<1>2. CASE Iter
  <2>1. CASE IterEnter BY <2>1 DEF IterEnter
  <2>2. CASE IterCancelled BY <2>2 DEF IterCancelled
  <2>3. CASE IterQuit BY <2>3 DEF IterQuit
  <2>4. CASE IterToken BY <2>4 DEF IterToken
  <2>5. CASE IterNext BY <2>5 DEF IterNext
  <2>6. CASE IterErr BY <2>6 DEF IterErr, SendErr, ErrRoom
  <2> QED BY <1>2, <2>1, <2>2, <2>3, <2>4, <2>5, <2>6 DEF Iter
<1>3. ASSUME NEW p \in Partitions, Worker(p) PROVE DataOK'
  <2> USE DEF WorkerGoto
  <2>1. CASE WorkerBegin(p) BY <2>1 DEF WorkerBegin
  <2>2. CASE WorkerEnter(p) BY <2>2 DEF WorkerEnter
  <2>3. CASE WorkerPoll(p) BY <2>3 DEF WorkerPoll
  <2>4. CASE WorkerNext(p)
    <3>1. read[p] + 1 \in Nat OBVIOUS
    <3>2. read' \in [Partitions -> Nat] BY <2>4, <3>1 DEF WorkerNext
    <3> QED BY <2>4, <3>2 DEF WorkerNext
  <2>5. CASE WorkerSend(p)
    <3>1. <<p, read[p]>> \in Rows BY DEF Rows
    <3>2. rows' \in Seq(Rows) BY <2>5, <3>1 DEF WorkerSend
    <3> QED BY <2>5, <3>2 DEF WorkerSend
  <2>6. CASE WorkerErr(p) BY <2>6 DEF WorkerErr, SendErr, ErrRoom
  <2>7. CASE WorkerClose(p) BY <2>7 DEF WorkerClose
  <2>8. CASE WorkerWgDone(p) BY <2>8 DEF WorkerWgDone
  <2>9. CASE WorkerRelease(p) BY <2>9 DEF WorkerRelease, ReleaseToken
  <2> QED BY <1>3, <2>1, <2>2, <2>3, <2>4, <2>5, <2>6, <2>7, <2>8, <2>9 DEF Worker
<1>4. CASE ConsumerCall BY <1>4 DEF ConsumerCall
<1>5. CASE ConsumerErr BY <1>5 DEF ConsumerErr, Close
<1>6. CASE ConsumerRow BY <1>6 DEF ConsumerRow
<1>7. CASE ConsumerEOF BY <1>7 DEF ConsumerEOF
<1>8. CASE ConsumerClose BY <1>8 DEF ConsumerClose, Close
<1>9. CASE Cancel BY <1>9 DEF Cancel
<1>10. CASE UNCHANGED vars BY <1>10 DEF vars
<1> QED
  BY <1>1, <1>2, <1>3, <1>4, <1>5, <1>6, <1>7, <1>8, <1>9, <1>10
  DEF Next, Receive

\* There are finitely many partition goroutines.
LEMMA RunningFinite == IsFiniteSet(Running) /\ Cardinality(Running) \in Nat
<1>1. IsFiniteSet(Partitions) BY FS_Interval, ExchangeAssumption DEF Partitions
<1>2. Running \subseteq Partitions BY DEF Running
<1> QED BY <1>1, <1>2, FS_Subset, FS_CardinalityType

\* What a step of a partition goroutine may do: it moves its own counter, which
\* was running and stays so unless the step is the release of the token.
LEMMA WorkerFrame ==
  ASSUME NEW p \in Partitions, ControlOK, Worker(p)
  PROVE  /\ wPc[p] \notin {"idle", "done"} /\ wPc'[p] # "idle"
         /\ wPc'[p] = "done" => WorkerRelease(p)
         /\ wPc[p] = "release" => wPc'[p] = "done"
         /\ \A q \in Partitions \ {p} : wPc'[q] = wPc[q]
         /\ UNCHANGED <<startVars, iterVars, consumerVars, signalVars, tokensChan,
                        rowsClosed>>
         /\ ~WorkerRelease(p) => UNCHANGED tokens
<1> USE DEF ControlOK, WorkerGoto, tokenVars, channelVars
<1>1. CASE WorkerBegin(p) BY <1>1 DEF WorkerBegin
<1>2. CASE WorkerEnter(p) BY <1>2 DEF WorkerEnter
<1>3. CASE WorkerPoll(p) BY <1>3 DEF WorkerPoll
<1>4. CASE WorkerNext(p) BY <1>4 DEF WorkerNext
<1>5. CASE WorkerSend(p) BY <1>5 DEF WorkerSend
<1>6. CASE WorkerErr(p) BY <1>6 DEF WorkerErr, SendErr, ErrRoom
<1>7. CASE WorkerClose(p) BY <1>7 DEF WorkerClose
<1>8. CASE WorkerWgDone(p) BY <1>8 DEF WorkerWgDone
<1>9. CASE WorkerRelease(p) BY <1>9 DEF WorkerRelease, ReleaseToken
<1> QED BY <1>1, <1>2, <1>3, <1>4, <1>5, <1>6, <1>7, <1>8, <1>9 DEF Worker

\* start, iterPartitions and the partition goroutines stay in step with each other.
LEMMA StagesStep == ControlOK /\ DataOK /\ StagesOK /\ [Next]_vars => StagesOK'
<1> SUFFICES ASSUME ControlOK /\ DataOK /\ StagesOK, [Next]_vars PROVE StagesOK'
  OBVIOUS
<1> USE ExchangeAssumption DEF ControlOK, DataOK, StagesOK, Partitions, tokenVars,
      channelVars, signalVars, startVars,
            iterVars, workerVars, consumerVars
<1>1. CASE Start
  <2>1. CASE StartBegin BY <2>1 DEF StartBegin, FillTokens
  <2>2. CASE StartEnter BY <2>2 DEF StartEnter
  <2>3. CASE StartCancelled BY <2>3 DEF StartCancelled
  <2>4. CASE StartCancelErr BY <2>4 DEF StartCancelErr, CloseTokens, SendErr, ErrRoom
  <2>5. CASE StartQuit BY <2>5 DEF StartQuit, CloseTokens
  <2>6. CASE StartPartition BY <2>6 DEF StartPartition
  <2>7. CASE StartNoMore BY <2>7 DEF StartNoMore, CloseTokens
  <2>8. CASE StartWait BY <2>8 DEF StartWait
  <2> QED BY <1>1, <2>1, <2>2, <2>3, <2>4, <2>5, <2>6, <2>7, <2>8 DEF Start
<1>2. CASE Iter
  <2>1. CASE IterEnter BY <2>1 DEF IterEnter
  <2>2. CASE IterCancelled BY <2>2 DEF IterCancelled
  <2>3. CASE IterQuit BY <2>3 DEF IterQuit
  <2>4. CASE IterToken BY <2>4 DEF IterToken
  <2>5. CASE IterNext BY <2>5 DEF IterNext
  <2>6. CASE IterErr BY <2>6 DEF IterErr, SendErr, ErrRoom
  <2> QED BY <1>2, <2>1, <2>2, <2>3, <2>4, <2>5, <2>6 DEF Iter
<1>3. ASSUME NEW p \in Partitions, Worker(p) PROVE StagesOK'
  <2> HIDE DEF Partitions
  <2>1. /\ wPc[p] # "idle"
        /\ \A q \in Partitions \ {p} : wPc'[q] = wPc[q]
        /\ UNCHANGED <<sPc, iPc, nextPart, tokensChan, started>>
    BY <1>3, WorkerFrame
  <2>2. \A q \in Partitions : wPc[q] = "idle" => wPc'[q] = "idle" BY <2>1
  <2>3. nextPart > 1 => nextPart - 1 \in Partitions
    BY ExchangeAssumption DEF Partitions
  <2> QED BY <2>1, <2>2, <2>3
<1>4. CASE ConsumerCall BY <1>4 DEF ConsumerCall
<1>5. CASE ConsumerErr BY <1>5 DEF ConsumerErr, Close
<1>6. CASE ConsumerRow BY <1>6 DEF ConsumerRow
<1>7. CASE ConsumerEOF BY <1>7 DEF ConsumerEOF
<1>8. CASE ConsumerClose BY <1>8 DEF ConsumerClose, Close
<1>9. CASE Cancel BY <1>9 DEF Cancel
<1>10. CASE UNCHANGED vars BY <1>10 DEF vars
<1> QED
  BY <1>1, <1>2, <1>3, <1>4, <1>5, <1>6, <1>7, <1>8, <1>9, <1>10
  DEF Next, Receive

\* No step breaks the account of the tokens: a token is in the channel, with
\* iterPartitions or with one partition goroutine.
LEMMA TokensStep ==
  TypeOK /\ StagesOK /\ TokensAccounted /\ [Next]_vars => TokensAccounted'
<1> SUFFICES ASSUME ControlOK, DataOK, StagesOK, TokensAccounted, [Next]_vars
             PROVE  TokensAccounted'
  BY DEF TypeOK
<1> DEFINE n == Cardinality(Running)
<1>n. n \in Nat /\ tokens \in Nat /\ Parallelism \in Nat
  BY RunningFinite, ExchangeAssumption DEF DataOK
<1> USE DEF TokensAccounted, HeldByIter, IterHoldsToken, tokenVars, channelVars,
            signalVars, startVars, iterVars, workerVars, consumerVars
\* every step that moves no partition goroutine leaves Running alone
<1>r. wPc' = wPc => Running' = Running BY DEF Running
<1> HIDE DEF n
<1>1. CASE Start
  <2>1. CASE StartBegin
    <3>1. \A p \in Partitions : wPc[p] = "idle"
      BY <2>1 DEF StartBegin, StagesOK, Partitions
    <3>2. Running' = {} BY <2>1, <3>1 DEF StartBegin, Running
    <3>3. Cardinality(Running') = 0 BY <3>2, FS_EmptySet
    <3> QED BY <2>1, <3>3, <1>n DEF StartBegin, FillTokens
  <2>2. CASE StartPartition
    <3> DEFINE p == nextPart - 1
    <3>1. p \in Partitions /\ wPc[p] = "idle"
      BY <2>2, ExchangeAssumption DEF StartPartition, StagesOK, DataOK, Partitions
    <3>2. wPc' = [wPc EXCEPT ![p] = "begin"] BY <2>2 DEF StartPartition
    <3> HIDE DEF p
    <3>3. Running' = Running \cup {p} /\ p \notin Running
      BY <3>1, <3>2 DEF Running, ControlOK
    <3>4. Cardinality(Running') = n + 1 BY <3>3, FS_AddElement, RunningFinite DEF n
    <3>5. tokensChan = "open" BY <2>2 DEF StartPartition, StagesOK
    <3> QED BY <2>2, <3>4, <3>5, <1>n DEF StartPartition, n
  <2>3. CASE StartEnter BY <2>3, <1>n, <1>r DEF StartEnter, n
  <2>4. CASE StartCancelled BY <2>4, <1>n, <1>r DEF StartCancelled, n
  <2>5. CASE StartCancelErr BY <2>5, <1>n, <1>r DEF StartCancelErr, CloseTokens,
        SendErr, ErrRoom, n
  <2>6. CASE StartQuit BY <2>6, <1>n, <1>r DEF StartQuit, CloseTokens, n
  <2>7. CASE StartNoMore BY <2>7, <1>n, <1>r DEF StartNoMore, CloseTokens, n
  <2>8. CASE StartWait BY <2>8, <1>n, <1>r DEF StartWait, n
  <2> QED BY <1>1, <2>1, <2>2, <2>3, <2>4, <2>5, <2>6, <2>7, <2>8 DEF Start
<1>2. CASE Iter
  <2>1. CASE IterEnter BY <2>1, <1>n, <1>r DEF IterEnter, n
  <2>2. CASE IterCancelled BY <2>2, <1>n, <1>r DEF IterCancelled, n
  <2>3. CASE IterQuit BY <2>3, <1>n, <1>r DEF IterQuit, n
  <2>4. CASE IterToken BY <2>4, <1>n, <1>r DEF IterToken, n
  <2>5. CASE IterNext BY <2>5, <1>n, <1>r DEF IterNext, n
  <2>6. CASE IterErr BY <2>6, <1>n, <1>r DEF IterErr, SendErr, ErrRoom, n
  <2> QED BY <1>2, <2>1, <2>2, <2>3, <2>4, <2>5, <2>6 DEF Iter
<1>3. ASSUME NEW p \in Partitions, Worker(p) PROVE TokensAccounted'
  <2>1. /\ wPc[p] \notin {"idle", "done"} /\ wPc'[p] # "idle"
        /\ wPc'[p] = "done" => WorkerRelease(p)
        /\ \A q \in Partitions \ {p} : wPc'[q] = wPc[q]
        /\ UNCHANGED <<iPc, tokensChan>>
        /\ ~WorkerRelease(p) => UNCHANGED tokens
    BY <1>3, WorkerFrame
  <2>2. CASE WorkerRelease(p)
    <3>1. wPc'[p] = "done" BY <2>2 DEF WorkerRelease, WorkerGoto, ControlOK
    <3>2. Running' = Running \ {p} /\ p \in Running BY <2>1, <3>1 DEF Running
    <3>3. Cardinality(Running') = n - 1
      BY <3>2, FS_RemoveElement, RunningFinite DEF n
    <3> QED BY <2>1, <2>2, <3>3, <1>n DEF WorkerRelease, ReleaseToken, n
  <2>3. CASE ~WorkerRelease(p)
    <3>1. Running' = Running BY <2>1, <2>3 DEF Running
    <3> QED BY <2>1, <2>3, <3>1, <1>n DEF n
  <2> QED BY <2>2, <2>3
<1>4. CASE ConsumerCall BY <1>4, <1>n, <1>r DEF ConsumerCall, n
<1>5. CASE ConsumerErr BY <1>5, <1>n, <1>r DEF ConsumerErr, Close, n
<1>6. CASE ConsumerRow BY <1>6, <1>n, <1>r DEF ConsumerRow, n
<1>7. CASE ConsumerEOF BY <1>7, <1>n, <1>r DEF ConsumerEOF, n
<1>8. CASE ConsumerClose BY <1>8, <1>n, <1>r DEF ConsumerClose, Close, n
<1>9. CASE Cancel BY <1>9, <1>n, <1>r DEF Cancel, n
<1>10. CASE UNCHANGED vars BY <1>10, <1>n, <1>r DEF vars, n
<1> QED
  BY <1>1, <1>2, <1>3, <1>4, <1>5, <1>6, <1>7, <1>8, <1>9, <1>10
  DEF Next, Receive

-----------------------------------------------------------------------------
\* The variables of the iterator keep their types; in particular the tokens
\* channel never holds more than its capacity.
THEOREM TypeCorrect == Spec => []TypeOK
<1>1. Init => TypeOK
  <2>1. Init => FlagsOK BY DEF Init, FlagsOK
  <2>2. Init => ControlOK BY DEF Init, ControlOK
  <2>3. Init => DataOK BY ExchangeAssumption DEF Init, DataOK
  <2> QED BY <2>1, <2>2, <2>3 DEF TypeOK
<1>2. TypeOK /\ [Next]_vars => TypeOK'
  BY FlagsStep, ControlStep, DataStep DEF TypeOK
<1> QED BY <1>1, <1>2, PTL DEF Spec

\* The stages of the goroutines and the account of the tokens hold always.
THEOREM TokenInvariant == Spec => []TokenInv
<1>1. Init => TokenInv
  <2>1. Init => StagesOK
    BY ExchangeAssumption DEF Init, StagesOK, Partitions
  <2>2. Init => Running = {} BY DEF Init, Running
  <2>3. Init => TokensAccounted
    <3>1. Cardinality({}) = 0 BY FS_EmptySet
    <3>2. 0 <= Parallelism BY ExchangeAssumption
    <3>3. Init => tokensChan # "open" BY DEF Init
    <3> QED BY <2>2, <3>1, <3>2, <3>3 DEF TokensAccounted
  <2> QED BY <2>1, <2>3 DEF TokenInv
<1>2. TypeOK /\ TokenInv /\ [Next]_vars => TokenInv'
  BY StagesStep, TokensStep DEF TypeOK, TokenInv
<1> QED BY <1>1, <1>2, TypeCorrect, PTL DEF Spec

\* No failure, cancellation or Close makes more than Parallelism goroutines
\* iterate partitions at once (the tokens of fillTokens / releaseToken).
THEOREM ParallelismBounded == Spec => []ParallelismBound
<1>1. TokenInv => ParallelismBound
  BY DEF TokenInv, TokensAccounted, ParallelismBound
<1> QED BY <1>1, TokenInvariant, PTL

\* releaseToken, which sends while it holds it.mut, never finds the channel full.
THEOREM ReleaseIsNonBlocking == Spec => []ReleaseNeverBlocks
<1>1. TypeOK /\ TokenInv => ReleaseNeverBlocks
  <2> SUFFICES ASSUME TypeOK, TokenInv, NEW p \in Partitions,
                      wPc[p] = "release", tokensChan = "open"
               PROVE  tokens < Parallelism
    BY DEF ReleaseNeverBlocks
  <2>1. p \in Running BY DEF Running
  <2>2. Cardinality(Running) # 0 BY <2>1, RunningFinite, FS_EmptySet
  <2>3. tokens + Cardinality(Running) + HeldByIter <= Parallelism
    BY DEF TokenInv, TokensAccounted
  <2> QED
    BY <2>2, <2>3, RunningFinite, ExchangeAssumption DEF TypeOK, DataOK, HeldByIter
<1> QED BY <1>1, TypeCorrect, TokenInvariant, PTL
-----------------------------------------------------------------------------
\* No partition is read past its end, nor before its goroutine exists.
LEMMA ReadStep == ControlOK /\ DataOK /\ ReadOK /\ [Next]_vars => ReadOK'
<1> SUFFICES ASSUME ControlOK /\ DataOK /\ ReadOK, [Next]_vars PROVE ReadOK'
  OBVIOUS
<1> USE ExchangeAssumption DEF ControlOK, DataOK, ReadOK, tokenVars, channelVars,
      signalVars, startVars,
            iterVars, workerVars, consumerVars
<1>1. CASE Start
  <2>1. CASE StartBegin BY <2>1 DEF StartBegin, FillTokens
  <2>2. CASE StartEnter BY <2>2 DEF StartEnter
  <2>3. CASE StartCancelled BY <2>3 DEF StartCancelled
  <2>4. CASE StartCancelErr BY <2>4 DEF StartCancelErr, CloseTokens, SendErr, ErrRoom
  <2>5. CASE StartQuit BY <2>5 DEF StartQuit, CloseTokens
  <2>6. CASE StartPartition BY <2>6 DEF StartPartition
  <2>7. CASE StartNoMore BY <2>7 DEF StartNoMore, CloseTokens
  <2>8. CASE StartWait BY <2>8 DEF StartWait
  <2> QED BY <1>1, <2>1, <2>2, <2>3, <2>4, <2>5, <2>6, <2>7, <2>8 DEF Start
<1>2. CASE Iter
  <2>1. CASE IterEnter BY <2>1 DEF IterEnter
  <2>2. CASE IterCancelled BY <2>2 DEF IterCancelled
  <2>3. CASE IterQuit BY <2>3 DEF IterQuit
  <2>4. CASE IterToken BY <2>4 DEF IterToken
  <2>5. CASE IterNext BY <2>5 DEF IterNext
  <2>6. CASE IterErr BY <2>6 DEF IterErr, SendErr, ErrRoom
  <2> QED BY <1>2, <2>1, <2>2, <2>3, <2>4, <2>5, <2>6 DEF Iter
<1>3. ASSUME NEW p \in Partitions, Worker(p) PROVE ReadOK'
  <2> USE DEF WorkerGoto
  <2>1. CASE WorkerBegin(p) BY <2>1 DEF WorkerBegin
  <2>2. CASE WorkerEnter(p) BY <2>2 DEF WorkerEnter
  <2>3. CASE WorkerPoll(p) BY <2>3 DEF WorkerPoll
  <2>4. CASE WorkerNext(p)
    <3>1. RowsIn[p] \in Nat BY DEF Partitions
    <3>2. /\ wPc'[p] = "send" => read[p] < RowsIn[p] /\ read'[p] = read[p] + 1
          /\ wPc'[p] # "send" => read'[p] = read[p]
          /\ wPc'[p] # "idle"
      BY <2>4 DEF WorkerNext
    <3>3. \A q \in Partitions \ {p} : wPc'[q] = wPc[q] /\ read'[q] = read[q]
      BY <2>4 DEF WorkerNext
    <3> QED BY <3>1, <3>2, <3>3
  <2>5. CASE WorkerSend(p) BY <2>5 DEF WorkerSend
  <2>6. CASE WorkerErr(p) BY <2>6 DEF WorkerErr, SendErr, ErrRoom
  <2>7. CASE WorkerClose(p) BY <2>7 DEF WorkerClose
  <2>8. CASE WorkerWgDone(p) BY <2>8 DEF WorkerWgDone
  <2>9. CASE WorkerRelease(p) BY <2>9 DEF WorkerRelease, ReleaseToken
  <2> QED BY <1>3, <2>1, <2>2, <2>3, <2>4, <2>5, <2>6, <2>7, <2>8, <2>9 DEF Worker
<1>4. CASE ConsumerCall BY <1>4 DEF ConsumerCall
<1>5. CASE ConsumerErr BY <1>5 DEF ConsumerErr, Close
<1>6. CASE ConsumerRow BY <1>6 DEF ConsumerRow
<1>7. CASE ConsumerEOF BY <1>7 DEF ConsumerEOF
<1>8. CASE ConsumerClose BY <1>8 DEF ConsumerClose, Close
<1>9. CASE Cancel BY <1>9 DEF Cancel
<1>10. CASE UNCHANGED vars BY <1>10 DEF vars
<1> QED
  BY <1>1, <1>2, <1>3, <1>4, <1>5, <1>6, <1>7, <1>8, <1>9, <1>10
  DEF Next, Receive

\* The sequence of rows sent so far grows by the row of WorkerSend and is not
\* changed by anything else: Next only moves a row from one part to the other.
LEMMA LogStep ==
  ASSUME ControlOK, DataOK, StagesOK, ReadOK, [Next]_vars
  PROVE  \/ log' = log /\ \A p \in Partitions : Sent(p)' = Sent(p)
         \/ \E p \in Partitions : WorkerSend(p)
<1> USE DEF tokenVars, channelVars, signalVars, startVars, iterVars, workerVars,
            consumerVars
<1> DEFINE Same == log' = log /\ \A p \in Partitions : Sent(p)' = Sent(p)
<1>0. (UNCHANGED <<delivered, rows, wPc, read>>) => Same BY DEF log, Sent
<1> SUFFICES Same \/ \E p \in Partitions : WorkerSend(p) OBVIOUS
<1> HIDE DEF Same
<1>1. CASE Start
  <2>1. CASE StartBegin BY <2>1, <1>0 DEF StartBegin, FillTokens
  <2>2. CASE StartEnter BY <2>2, <1>0 DEF StartEnter
  <2>3. CASE StartCancelled BY <2>3, <1>0 DEF StartCancelled
  <2>4. CASE StartCancelErr BY <2>4, <1>0 DEF StartCancelErr, CloseTokens, SendErr,
        ErrRoom
  <2>5. CASE StartQuit BY <2>5, <1>0 DEF StartQuit, CloseTokens
  <2>6. CASE StartPartition
    <3>1. \A p \in Partitions : Sent(p)' = Sent(p)
      BY <2>6 DEF StartPartition, Sent, ControlOK, ReadOK, StagesOK
    <3> QED BY <2>6, <3>1 DEF StartPartition, log, Same
  <2>7. CASE StartNoMore BY <2>7, <1>0 DEF StartNoMore, CloseTokens
  <2>8. CASE StartWait BY <2>8, <1>0 DEF StartWait
  <2> QED BY <1>1, <2>1, <2>2, <2>3, <2>4, <2>5, <2>6, <2>7, <2>8 DEF Start, Same
<1>2. CASE Iter
  <2>1. CASE IterEnter BY <2>1, <1>0 DEF IterEnter
  <2>2. CASE IterCancelled BY <2>2, <1>0 DEF IterCancelled
  <2>3. CASE IterQuit BY <2>3, <1>0 DEF IterQuit
  <2>4. CASE IterToken BY <2>4, <1>0 DEF IterToken
  <2>5. CASE IterNext BY <2>5, <1>0 DEF IterNext
  <2>6. CASE IterErr BY <2>6, <1>0 DEF IterErr, SendErr, ErrRoom
  <2> QED BY <1>2, <2>1, <2>2, <2>3, <2>4, <2>5, <2>6 DEF Iter, Same
<1>3. ASSUME NEW p \in Partitions, Worker(p), ~WorkerSend(p) PROVE Same
  <2>1. \A q \in Partitions \ {p} : Sent(q)' = Sent(q)
    <3>1. \A q \in Partitions \ {p} : wPc'[q] = wPc[q] BY <1>3, WorkerFrame
    <3>2. \A q \in Partitions \ {p} : read'[q] = read[q]
      BY <1>3 DEF Worker, WorkerBegin, WorkerEnter, WorkerPoll, WorkerNext, WorkerErr,
                  WorkerClose, WorkerWgDone, WorkerRelease, DataOK
    <3> QED BY <3>1, <3>2 DEF Sent
  <2>2. Sent(p)' = Sent(p) /\ UNCHANGED <<delivered, rows>>
    <3> USE DEF WorkerGoto, Sent, ControlOK, DataOK
    <3>1. CASE WorkerBegin(p) BY <3>1 DEF WorkerBegin
    <3>2. CASE WorkerEnter(p) BY <3>2 DEF WorkerEnter
    <3>3. CASE WorkerPoll(p) BY <3>3 DEF WorkerPoll
    <3>4. CASE WorkerNext(p) BY <3>4 DEF WorkerNext
    <3>5. CASE WorkerErr(p) BY <3>5 DEF WorkerErr, SendErr, ErrRoom
    <3>6. CASE WorkerClose(p) BY <3>6 DEF WorkerClose
    <3>7. CASE WorkerWgDone(p) BY <3>7 DEF WorkerWgDone
    <3>8. CASE WorkerRelease(p) BY <3>8 DEF WorkerRelease, ReleaseToken
    <3> QED BY <1>3, <3>1, <3>2, <3>3, <3>4, <3>5, <3>6, <3>7, <3>8 DEF Worker
  <2> QED BY <2>1, <2>2 DEF Same, log
<1>4. CASE ConsumerCall BY <1>4, <1>0 DEF ConsumerCall
<1>5. CASE ConsumerErr BY <1>5, <1>0 DEF ConsumerErr, Close
<1>6. CASE ConsumerRow
  <2>1. Append(delivered, Head(rows)) \o Tail(rows) = delivered \o rows
    BY <1>6 DEF ConsumerRow, DataOK
  <2> QED BY <1>6, <2>1 DEF ConsumerRow, Same, log, Sent
<1>7. CASE ConsumerEOF BY <1>7, <1>0 DEF ConsumerEOF
<1>8. CASE ConsumerClose BY <1>8, <1>0 DEF ConsumerClose, Close
<1>9. CASE Cancel BY <1>9, <1>0 DEF Cancel
<1>10. CASE UNCHANGED vars BY <1>10, <1>0 DEF vars
<1> QED
  BY <1>1, <1>2, <1>3, <1>4, <1>5, <1>6, <1>7, <1>8, <1>9, <1>10
  DEF Next, Receive, Same

\* No step loses, duplicates or reorders a row between rows.Next() and Next().
LEMMA RowsStep ==
  TypeOK /\ StagesOK /\ ReadOK /\ RowsOnceInOrder /\ [Next]_vars => RowsOnceInOrder'
<1> SUFFICES ASSUME ControlOK, DataOK, StagesOK, ReadOK, RowsOnceInOrder, [Next]_vars
             PROVE  RowsOnceInOrder'
  BY DEF TypeOK
<1>1. CASE log' = log /\ \A p \in Partitions : Sent(p)' = Sent(p)
  BY <1>1 DEF RowsOnceInOrder
<1>2. ASSUME NEW p \in Partitions, WorkerSend(p) PROVE RowsOnceInOrder'
  <2> DEFINE row == <<p, read[p]>>
             L == log
             m == Len(log)
  <2>1. /\ read[p] \in Nat /\ read[p] >= 1
        /\ Sent(p) = read[p] - 1 /\ Sent(p)' = read[p]
        /\ \A q \in Partitions \ {p} : Sent(q)' = Sent(q)
    BY <1>2
    DEF WorkerSend, WorkerGoto, Sent, ReadOK, ControlOK, DataOK
  <2>2. L \in Seq(Rows) /\ m \in Nat BY DEF log, DataOK
  <2>3. log' = Append(L, row)
    <3>1. row \in Rows BY <2>1 DEF Rows
    <3>2. delivered \o Append(rows, row) = Append(delivered \o rows, row)
      BY <3>1 DEF DataOK
    <3> QED BY <1>2, <3>2 DEF WorkerSend, log, consumerVars
  <2>4. /\ Len(log') = m + 1 /\ log'[m + 1] = row
        /\ \A j \in 1..m : log'[j] = L[j]
    BY <2>2, <2>3
  <2>5. \A j \in 1..m : L[j][1] = p => L[j][2] < read[p]
    <3> SUFFICES ASSUME NEW j \in 1..m, L[j][1] = p PROVE L[j][2] < read[p]
      OBVIOUS
    <3>1. PICK q \in Partitions : L[j] \in RowsUpTo(q, Sent(q))
      BY DEF RowsOnceInOrder
    <3>2. PICK i \in 1..Sent(q) : L[j] = <<q, i>> BY <3>1 DEF RowsUpTo
    <3>3. q = p /\ L[j][2] = i BY <3>2
    <3> QED BY <3>2, <3>3, <2>1
  <2>6. ASSUME NEW j \in 1..Len(log'), NEW k \in 1..Len(log'),
               j < k, log'[j][1] = log'[k][1]
        PROVE  log'[j][2] < log'[k][2]
    <3>1. j \in 1..m BY <2>6, <2>4, <2>2
    <3>2. CASE k \in 1..m
      <4>1. L[j][1] = L[k][1] BY <2>6, <3>1, <3>2, <2>4
      <4>2. L[j][2] < L[k][2] BY <2>6, <3>1, <3>2, <4>1 DEF RowsOnceInOrder
      <4> QED BY <3>1, <3>2, <2>4, <4>2
    <3>3. CASE k = m + 1
      <4>1. log'[k][1] = p /\ log'[k][2] = read[p] BY <3>3, <2>4
      <4>2. L[j][1] = p BY <2>6, <3>1, <2>4, <4>1
      <4>3. L[j][2] < read[p] BY <2>5, <3>1, <4>2
      <4>4. log'[j] = L[j] BY <3>1, <2>4
      <4> QED BY <4>1, <4>3, <4>4
    <3> QED BY <3>2, <3>3, <2>2, <2>4
  <2>7. {log'[j] : j \in 1..Len(log')} = {L[j] : j \in 1..m} \cup {row}
    <3>1. 1..(m + 1) = (1..m) \cup {m + 1} BY <2>2
    <3> QED BY <2>4, <3>1
  <2>8. RowsUpTo(p, Sent(p)') = RowsUpTo(p, Sent(p)) \cup {row}
    <3>1. 1..read[p] = (1..(read[p] - 1)) \cup {read[p]} BY <2>1
    <3> QED BY <2>1, <3>1 DEF RowsUpTo
  <2> DEFINE U(q) == RowsUpTo(q, Sent(q))
             V(q) == RowsUpTo(q, Sent(q)')
             All == UNION {U(q) : q \in Partitions}
             All2 == UNION {V(q) : q \in Partitions}
             InLog == {L[j] : j \in 1..m}
             InLog2 == {log'[j] : j \in 1..Len(log')}
  <2>9. V(p) = U(p) \cup {row} /\ \A q \in Partitions \ {p} : V(q) = U(q)
    BY <2>1, <2>8
  <2>10. InLog = All BY DEF RowsOnceInOrder
  <2>11. All2 = All \cup {row}
    <3> HIDE DEF U, V, row
    <3> QED BY <2>9
  <2>12. InLog2 = InLog \cup {row} BY <2>7
  <2>13. InLog2 = All2
    <3> HIDE DEF InLog, InLog2, All, All2, row
    <3> QED BY <2>10, <2>11, <2>12
  <2>14. {log'[j] : j \in 1..Len(log')} = (UNION {RowsUpTo(q,
        Sent(q)) : q \in Partitions})'
    BY <2>13 DEF RowsUpTo
  <2> QED BY <2>6, <2>14 DEF RowsOnceInOrder
<1> QED BY <1>1, <1>2, LogStep

\* start closes rows only after iterPartitions and all partition goroutines are
\* through, and the caller goes on only while nothing has ended the iteration.
LEMMA EndStep == ControlOK /\ DataOK /\ StagesOK /\ EndOK /\ [Next]_vars => EndOK'
<1> SUFFICES ASSUME ControlOK /\ DataOK /\ StagesOK /\ EndOK, [Next]_vars PROVE EndOK'
  OBVIOUS
<1> USE ExchangeAssumption DEF ControlOK, DataOK, StagesOK, EndOK, WgPending,
      tokenVars, channelVars, signalVars, startVars,
            iterVars, workerVars, consumerVars
<1>1. CASE Start
  <2>1. CASE StartBegin BY <2>1 DEF StartBegin, FillTokens
  <2>2. CASE StartEnter BY <2>2 DEF StartEnter
  <2>3. CASE StartCancelled BY <2>3 DEF StartCancelled
  <2>4. CASE StartCancelErr BY <2>4 DEF StartCancelErr, CloseTokens, SendErr, ErrRoom
  <2>5. CASE StartQuit BY <2>5 DEF StartQuit, CloseTokens
  <2>6. CASE StartPartition BY <2>6 DEF StartPartition
  <2>7. CASE StartNoMore BY <2>7 DEF StartNoMore, CloseTokens
  <2>8. CASE StartWait BY <2>8 DEF StartWait
  <2> QED BY <1>1, <2>1, <2>2, <2>3, <2>4, <2>5, <2>6, <2>7, <2>8 DEF Start
<1>2. CASE Iter
  <2>1. CASE IterEnter BY <2>1 DEF IterEnter
  <2>2. CASE IterCancelled BY <2>2 DEF IterCancelled
  <2>3. CASE IterQuit BY <2>3 DEF IterQuit
  <2>4. CASE IterToken BY <2>4 DEF IterToken
  <2>5. CASE IterNext
    <3>1. UNCHANGED <<wPc, sPc, cPc, result, quitOpen, rowsClosed>> BY <2>5 DEF IterNext
    <3>2. \A p \in Partitions : p < nextPart' /\ wPc[p] = "idle" =>
                                  iPc' = "send" /\ p = nextPart' - 1
      BY <2>5 DEF IterNext, Partitions
    <3> QED BY <2>5, <3>1, <3>2 DEF IterNext
  <2>6. CASE IterErr BY <2>6 DEF IterErr, SendErr, ErrRoom
  <2> QED BY <1>2, <2>1, <2>2, <2>3, <2>4, <2>5, <2>6 DEF Iter
<1>3. ASSUME NEW p \in Partitions, Worker(p) PROVE EndOK'
  <2>1. /\ wPc[p] \notin {"idle", "done"} /\ wPc'[p] # "idle"
        /\ wPc[p] = "release" => wPc'[p] = "done"
        /\ \A q \in Partitions \ {p} : wPc'[q] = wPc[q]
        /\ UNCHANGED <<sPc, iPc, nextPart, cPc, result, quitOpen, rowsClosed>>
    BY <1>3, WorkerFrame
  <2> QED BY <2>1
<1>4. CASE ConsumerCall BY <1>4 DEF ConsumerCall
<1>5. CASE ConsumerErr BY <1>5 DEF ConsumerErr, Close
<1>6. CASE ConsumerRow BY <1>6 DEF ConsumerRow
<1>7. CASE ConsumerEOF BY <1>7 DEF ConsumerEOF
<1>8. CASE ConsumerClose BY <1>8 DEF ConsumerClose, Close
<1>9. CASE Cancel BY <1>9 DEF Cancel
<1>10. CASE UNCHANGED vars BY <1>10 DEF vars
<1> QED
  BY <1>1, <1>2, <1>3, <1>4, <1>5, <1>6, <1>7, <1>8, <1>9, <1>10
  DEF Next, Receive

\* After `it.err <- e` there is an error to be read.
LEMMA SendErrNonEmpty == ASSUME DataOK, NEW e, SendErr(e) PROVE err' # <<>>
<1>1. err' = Append(err, e) /\ err \in Seq({"cancelled", "partitions", "open",
      "rows", "rowsClose"})
  BY DEF SendErr, DataOK
<1> QED BY <1>1

\* Once trouble has been met it is never forgotten: an error stays in it.err
\* until Next returns it, and Close is final.
LEMMA TroubleStays ==
  ASSUME TypeOK, EndOK, [Next]_vars, Untroubled' PROVE Untroubled
<1> USE DEF Untroubled, tokenVars, channelVars, signalVars, startVars, iterVars,
            workerVars, consumerVars
<1>1. CASE Start
  <2>1. UNCHANGED <<result, quitOpen>> /\ (StartCancelErr \/ UNCHANGED err)
    BY <1>1 DEF Start, StartBegin, StartEnter, StartCancelled, StartCancelErr,
          StartQuit,
                StartPartition, StartNoMore, StartWait
  <2>2. StartCancelErr => err' # <<>> BY SendErrNonEmpty DEF StartCancelErr, TypeOK
  <2> QED BY <2>1, <2>2
<1>2. CASE Iter
  <2>1. UNCHANGED <<result, quitOpen>> /\ (IterErr \/ UNCHANGED err)
    BY <1>2 DEF Iter, IterEnter, IterCancelled, IterQuit, IterToken, IterNext, IterErr
  <2>2. IterErr => err' # <<>> BY SendErrNonEmpty DEF IterErr, TypeOK
  <2> QED BY <2>1, <2>2
<1>3. ASSUME NEW p \in Partitions, Worker(p) PROVE Untroubled
  <2>1. UNCHANGED <<result, quitOpen>> BY <1>3, WorkerFrame DEF TypeOK
  <2>2. CASE WorkerErr(p) BY <2>1, <2>2 DEF WorkerErr, SendErr, ErrRoom, TypeOK, DataOK
  <2>3. CASE ~WorkerErr(p)
    BY <1>3, <2>1, <2>3
    DEF Worker, WorkerBegin, WorkerEnter, WorkerPoll, WorkerNext, WorkerSend,
          WorkerClose,
        WorkerWgDone, WorkerRelease
  <2> QED BY <2>2, <2>3
<1>4. CASE ConsumerCall BY <1>4 DEF ConsumerCall
<1>5. CASE ConsumerErr BY <1>5 DEF ConsumerErr
<1>6. CASE ConsumerRow BY <1>6 DEF ConsumerRow
<1>7. CASE ConsumerEOF BY <1>7 DEF ConsumerEOF, EndOK
<1>8. CASE ConsumerClose BY <1>8 DEF ConsumerClose, Close
<1>9. CASE Cancel BY <1>9 DEF Cancel
<1>10. CASE UNCHANGED vars BY <1>10 DEF vars
<1> QED
  BY <1>1, <1>2, <1>3, <1>4, <1>5, <1>6, <1>7, <1>8, <1>9, <1>10 DEF Next, Receive

\* A partition read short leaves trouble behind: an error, or a closed iterator.
LEMMA ShortReadsStep ==
  TypeOK /\ StagesOK /\ EndOK /\ ShortReadsRecorded /\ [Next]_vars => ShortReadsRecorded'
<1> SUFFICES ASSUME TypeOK /\ StagesOK /\ EndOK /\ ShortReadsRecorded,
      [Next]_vars PROVE ShortReadsRecorded'
  OBVIOUS
<1> USE ExchangeAssumption DEF ShortReadsRecorded, tokenVars, channelVars,
      signalVars, startVars,
            iterVars, workerVars, consumerVars
<1> SUFFICES ASSUME Untroubled' PROVE ShortReadsRecorded' OBVIOUS
<1>0. Untroubled BY TroubleStays
<1>t. ControlOK /\ DataOK /\ (~quitOpen => FALSE) BY <1>0 DEF TypeOK, Untroubled
<1>1. CASE Start
  <2>1. CASE StartBegin BY <2>1, <1>0, <1>t DEF ControlOK, DataOK, StartBegin,
        FillTokens
  <2>2. CASE StartEnter BY <2>2, <1>0, <1>t DEF ControlOK, DataOK, StartEnter
  <2>3. CASE StartCancelled BY <2>3, <1>0, <1>t DEF ControlOK, DataOK, StartCancelled
  <2>4. CASE StartCancelErr BY <2>4, <1>0, <1>t DEF ControlOK, DataOK,
        StartCancelErr, CloseTokens, SendErr, ErrRoom
  <2>5. CASE StartQuit BY <2>5, <1>0, <1>t DEF ControlOK, DataOK, StartQuit, CloseTokens
  <2>6. CASE StartPartition BY <2>6, <1>0, <1>t DEF ControlOK, DataOK, StartPartition
  <2>7. CASE StartNoMore BY <2>7, <1>0, <1>t DEF ControlOK, DataOK, StartNoMore,
        CloseTokens
  <2>8. CASE StartWait BY <2>8, <1>0, <1>t DEF ControlOK, DataOK, StartWait
  <2> QED BY <1>1, <2>1, <2>2, <2>3, <2>4, <2>5, <2>6, <2>7, <2>8 DEF Start
<1>2. CASE Iter
  <2>1. CASE IterEnter BY <2>1, <1>0, <1>t DEF ControlOK, DataOK, IterEnter
  <2>2. CASE IterCancelled BY <2>2, <1>0, <1>t DEF ControlOK, DataOK, IterCancelled
  <2>3. CASE IterQuit BY <2>3, <1>0, <1>t DEF ControlOK, DataOK, IterQuit
  <2>4. CASE IterToken BY <2>4, <1>0, <1>t DEF ControlOK, DataOK, IterToken
  <2>5. CASE IterNext BY <2>5, <1>0, <1>t DEF ControlOK, DataOK, IterNext
  <2>6. CASE IterErr
    <3>1. err' # <<>> BY <2>6, <1>t DEF IterErr, SendErr, DataOK
    <3> QED BY <3>1 DEF Untroubled
  <2> QED BY <1>2, <2>1, <2>2, <2>3, <2>4, <2>5, <2>6 DEF Iter
<1>3. ASSUME NEW p \in Partitions, Worker(p) PROVE ShortReadsRecorded'
  <2> USE DEF WorkerGoto
  <2>1. CASE WorkerBegin(p) BY <2>1, <1>0, <1>t DEF ControlOK, DataOK, WorkerBegin
  <2>2. CASE WorkerEnter(p) BY <2>2, <1>0, <1>t DEF ControlOK, DataOK, WorkerEnter
  <2>3. CASE WorkerPoll(p)
    <3>1. ~QuitSeen(p) BY <1>0 DEF QuitSeen, Untroubled
    <3>2. wPc'[p] \in {"cancelErr", "next"} /\ UNCHANGED <<iPc, nextPart, read>>
      BY <2>3, <3>1, <1>t DEF WorkerPoll, ControlOK
    <3>3. \A q \in Partitions \ {p} : wPc'[q] = wPc[q]
      BY <2>3, <1>t DEF WorkerPoll, ControlOK
    <3> QED BY <3>2, <3>3, <1>0
  <2>4. CASE WorkerNext(p) BY <2>4, <1>0, <1>t DEF ControlOK, DataOK, WorkerNext
  <2>5. CASE WorkerSend(p) BY <2>5, <1>0, <1>t DEF ControlOK, DataOK, WorkerSend
  <2>6. CASE WorkerErr(p)
    <3>1. err' # <<>> BY <2>6, <1>t DEF WorkerErr, SendErr, DataOK
    <3> QED BY <3>1 DEF Untroubled
  <2>7. CASE WorkerClose(p) BY <2>7, <1>0, <1>t DEF ControlOK, DataOK, WorkerClose
  <2>8. CASE WorkerWgDone(p) BY <2>8, <1>0, <1>t DEF ControlOK, DataOK, WorkerWgDone
  <2>9. CASE WorkerRelease(p) BY <2>9, <1>0, <1>t DEF ControlOK, DataOK,
        WorkerRelease, ReleaseToken
  <2> QED BY <1>3, <2>1, <2>2, <2>3, <2>4, <2>5, <2>6, <2>7, <2>8, <2>9 DEF Worker
<1>4. CASE ConsumerCall BY <1>4, <1>0, <1>t DEF ControlOK, DataOK, ConsumerCall
<1>5. CASE ConsumerErr BY <1>5, <1>0, <1>t DEF ControlOK, DataOK, ConsumerErr, Close
<1>6. CASE ConsumerRow BY <1>6, <1>0, <1>t DEF ControlOK, DataOK, ConsumerRow
<1>7. CASE ConsumerEOF BY <1>7, <1>0, <1>t DEF ControlOK, DataOK, ConsumerEOF
<1>8. CASE ConsumerClose BY <1>8, <1>0, <1>t DEF ControlOK, DataOK, ConsumerClose, Close
<1>9. CASE Cancel BY <1>9, <1>0, <1>t DEF ControlOK, DataOK, Cancel
<1>10. CASE UNCHANGED vars BY <1>10, <1>0 DEF vars
<1> QED
  BY <1>1, <1>2, <1>3, <1>4, <1>5, <1>6, <1>7, <1>8, <1>9, <1>10
  DEF Next, Receive

\* The invariant of the rows is inductive.
LEMMA RowInvStep == TypeOK /\ StagesOK /\ RowInv /\ [Next]_vars => RowInv'
<1> SUFFICES ASSUME TypeOK, StagesOK, RowInv, [Next]_vars PROVE RowInv'
  OBVIOUS
<1>1. ReadOK' /\ RowsOnceInOrder' /\ EndOK' /\ ShortReadsRecorded'
  BY ReadStep, RowsStep, EndStep, ShortReadsStep DEF TypeOK, RowInv
<1>2. TruncationIsRecorded'
  <2> USE DEF tokenVars, channelVars, signalVars, startVars, iterVars, workerVars,
              consumerVars
  <2>1. CASE ConsumerEOF
    <3> SUFFICES ASSUME err = <<>> PROVE Complete'
      BY <2>1 DEF ConsumerEOF, TruncationIsRecorded
    <3>1. /\ cPc = "next" /\ rows = <<>> /\ rowsClosed
          /\ UNCHANGED delivered
      BY <2>1 DEF ConsumerEOF
    <3>2. Untroubled BY <3>1 DEF RowInv, EndOK, Untroubled
    <3>3. \A p \in Partitions : wPc[p] \in {"release", "done"}
      <4>1. iPc = "done" /\ WgPending = {} /\ nextPart = Parts + 1
        BY <3>1, <3>2 DEF RowInv, EndOK, ShortReadsRecorded
      <4>2. \A p \in Partitions : wPc[p] # "idle"
        BY <4>1, ExchangeAssumption DEF RowInv, EndOK, Partitions
      <4> QED BY <4>1, <4>2 DEF WgPending
    <3>4. \A p \in Partitions : Sent(p) = RowsIn[p]
      BY <3>2, <3>3 DEF RowInv, ShortReadsRecorded, Sent
    <3>5. delivered = log
      BY <3>1 DEF log, TypeOK, DataOK
    <3>6. {delivered[j] : j \in 1..Len(delivered)}
            = UNION {RowsUpTo(p, Sent(p)) : p \in Partitions}
      BY <3>5 DEF RowInv, RowsOnceInOrder
    <3> QED BY <3>1, <3>4, <3>6 DEF Complete
  <2>2. CASE result' # "EOF"
    BY <2>2 DEF TruncationIsRecorded
  <2>3. CASE /\ result = "EOF" /\ result' = "EOF" /\ UNCHANGED delivered
             /\ err # <<>> => err' # <<>>
    BY <2>3 DEF TruncationIsRecorded, RowInv, Complete
  <2>4. ConsumerEOF \/ (result' # "EOF")
          \/ /\ result = "EOF" /\ result' = "EOF" /\ UNCHANGED delivered
             /\ err # <<>> => err' # <<>>
    <3>1. CASE Start
      <4>1. UNCHANGED <<result, delivered>> /\ (StartCancelErr \/ UNCHANGED err)
        BY <3>1 DEF Start, StartBegin, StartEnter, StartCancelled, StartCancelErr,
                    StartQuit, StartPartition, StartNoMore, StartWait
      <4>2. StartCancelErr => err' # <<>> BY SendErrNonEmpty DEF StartCancelErr, TypeOK
      <4> QED BY <4>1, <4>2
    <3>2. CASE Iter
      <4>1. UNCHANGED <<result, delivered>> /\ (IterErr \/ UNCHANGED err)
        BY <3>2 DEF Iter, IterEnter, IterCancelled, IterQuit, IterToken, IterNext,
              IterErr
      <4>2. IterErr => err' # <<>> BY SendErrNonEmpty DEF IterErr, TypeOK
      <4> QED BY <4>1, <4>2
    <3>3. ASSUME NEW p \in Partitions, Worker(p)
          PROVE  UNCHANGED <<result, delivered>> /\ (err # <<>> => err' # <<>>)
      <4>1. UNCHANGED <<result, delivered>> BY <3>3, WorkerFrame DEF TypeOK
      <4>2. WorkerErr(p) \/ UNCHANGED err
        BY <3>3 DEF Worker, WorkerBegin, WorkerEnter, WorkerPoll, WorkerNext,
              WorkerSend,
                    WorkerClose, WorkerWgDone, WorkerRelease
      <4>3. WorkerErr(p) => err' # <<>> BY SendErrNonEmpty DEF WorkerErr, TypeOK
      <4> QED BY <4>1, <4>2, <4>3
    <3>4. CASE ConsumerCall BY <3>4 DEF ConsumerCall
    <3>5. CASE ConsumerErr BY <3>5 DEF ConsumerErr
    <3>6. CASE ConsumerRow BY <3>6 DEF ConsumerRow, RowInv, EndOK
    <3>7. CASE ConsumerClose BY <3>7 DEF ConsumerClose
    <3>8. CASE Cancel BY <3>8 DEF Cancel
    <3>9. CASE UNCHANGED vars BY <3>9 DEF vars
    <3> QED
      BY <3>1, <3>2, <3>3, <3>4, <3>5, <3>6, <3>7, <3>8, <3>9 DEF Next, Receive
  <2> QED BY <2>1, <2>2, <2>3, <2>4
<1> QED BY <1>1, <1>2 DEF RowInv

\* A new iterator satisfies the invariant of the rows.
LEMMA RowInvInit == Init => RowInv
<1> SUFFICES ASSUME Init PROVE RowInv OBVIOUS
<1>1. ReadOK BY ExchangeAssumption DEF Init, ReadOK, Partitions
<1>2. RowsOnceInOrder
  <2>1. log = <<>> /\ \A p \in Partitions : Sent(p) = 0 BY DEF Init, log, Sent
  <2>2. Len(log) = 0 /\ 1..0 = {} BY <2>1
  <2>3. \A p \in Partitions : RowsUpTo(p, Sent(p)) = {} BY <2>1, <2>2 DEF RowsUpTo
  <2> QED BY <2>2, <2>3 DEF RowsOnceInOrder
<1>3. EndOK BY ExchangeAssumption DEF Init, EndOK, Partitions
<1>4. ShortReadsRecorded BY DEF Init, ShortReadsRecorded
<1>5. TruncationIsRecorded BY DEF Init, TruncationIsRecorded
<1> QED BY <1>1, <1>2, <1>3, <1>4, <1>5 DEF RowInv

-----------------------------------------------------------------------------
\* The invariant of the rows holds always.
THEOREM RowInvariant == Spec => []RowInv
<1>1. TypeOK /\ TokenInv /\ RowInv /\ [Next]_vars => RowInv'
  BY RowInvStep DEF TokenInv
<1> QED BY <1>1, RowInvInit, TypeCorrect, TokenInvariant, PTL DEF Spec

\* Rows are neither lost nor duplicated nor reordered within a partition on
\* their way from rows.Next() through the channel to the caller of Next.
THEOREM RowsExactlyOnce == Spec => []RowsOnceInOrder
<1>1. RowInv => RowsOnceInOrder BY DEF RowInv
<1> QED BY <1>1, RowInvariant, PTL

\* When Next answers io.EOF, either every row of every partition has been
\* delivered or the error that truncated the result is still in it.err.
THEOREM TruncationNeverSilent == Spec => []TruncationIsRecorded
<1>1. RowInv => TruncationIsRecorded BY DEF RowInv
<1> QED BY <1>1, RowInvariant, PTL

-----------------------------------------------------------------------------
(***************************************************************************)
(* Exchange implements PartitionedRows                                     *)
(***************************************************************************)
\* When the entries of a partition among the first m of a log are in the order of
\* their positions and these are 1..v, there are v of them.
LEMMA CountedByPosition ==
  ASSUME NEW L \in Seq(Rows), NEW m \in 0..Len(L), NEW p, NEW v \in Nat,
         \A j, k \in 1..m : j < k /\ L[j][1] = L[k][1] => L[j][2] < L[k][2],
         \A j \in 1..m : L[j][1] = p => L[j][2] \in 1..v,
         \A i \in 1..v : \E j \in 1..m : L[j] = <<p, i>>
  PROVE  Cardinality({j \in 1..m : L[j][1] = p}) = v
<1> DEFINE S == {j \in 1..m : L[j][1] = p}
           f == [j \in S |-> L[j][2]]
<1>1. \A j \in 1..m : L[j][2] \in Nat BY DEF Rows
<1>2. f \in Injection(S, 1..v)
  <2>1. f \in [S -> 1..v] OBVIOUS
  <2>2. \A j, k \in S : f[j] = f[k] => j = k
    <3> SUFFICES ASSUME NEW j \in S, NEW k \in S, j # k PROVE f[j] # f[k]
      OBVIOUS
    <3>1. j \in Nat /\ k \in Nat /\ (j < k \/ k < j) OBVIOUS
    <3> QED BY <1>1, <3>1
  <2> HIDE DEF f, S
  <2> QED BY <2>1, <2>2 DEF Injection, IsInjective
<1>3. f \in Surjection(S, 1..v)
  <2>1. ASSUME NEW i \in 1..v PROVE \E j \in S : f[j] = i
    <3>1. PICK j \in 1..m : L[j] = <<p, i>> OBVIOUS
    <3>2. j \in S /\ f[j] = i BY <3>1
    <3> QED BY <3>2
  <2> HIDE DEF f, S
  <2> QED BY <1>2, <2>1 DEF Surjection, Injection
<1>4. IsFiniteSet(1..v) /\ Cardinality(1..v) = v BY FS_Interval
<1> HIDE DEF f, S
<1>5. Cardinality(S) = Cardinality(1..v) BY <1>2, <1>3, <1>4, FS_Injection
<1> QED BY <1>4, <1>5 DEF S

\* PartitionedRows counts as Exchange does.
LEMMA SameCardinality == \A S : Caller!Cardinality(S) = Cardinality(S)
BY DEF Cardinality, IsFiniteSet, Caller!Cardinality, Caller!IsFiniteSet

\* The row that Next is about to return is the one that follows those of its
\* partition that have been returned.
LEMMA NextRowFollows ==
  ASSUME TypeOK, RowInv, rows # <<>>
  PROVE  \E p \in Partitions :
           /\ Caller!GivenOf(p) < RowsIn[p]
           /\ Head(rows) = <<p, Caller!GivenOf(p) + 1>>
<1> DEFINE m == Len(delivered)
           L == log
           p == Head(rows)[1]
           v == Head(rows)[2]
<1>1. /\ rows \in Seq(Rows) /\ delivered \in Seq(Rows) /\ m \in Nat
      /\ L \in Seq(Rows) /\ Len(L) = m + Len(rows) /\ Len(rows) \in Nat \ {0}
      /\ \A j \in 1..m : L[j] = delivered[j]
      /\ L[m + 1] = Head(rows)
  BY DEF TypeOK, DataOK, log
<1>2. p \in Partitions /\ v \in Nat /\ Head(rows) = <<p, v>> BY <1>1 DEF Rows
<1>3. \A q \in Partitions : Sent(q) \in Nat /\ Sent(q) <= RowsIn[q]
  BY ExchangeAssumption DEF Sent, TypeOK, DataOK, ControlOK, RowInv, ReadOK, Partitions
<1>4. {L[j] : j \in 1..Len(L)} = UNION {RowsUpTo(q, Sent(q)) : q \in Partitions}
  BY DEF RowInv, RowsOnceInOrder
<1>5. \A j, k \in 1..Len(L) : j < k /\ L[j][1] = L[k][1] => L[j][2] < L[k][2]
  BY DEF RowInv, RowsOnceInOrder
<1> HIDE DEF L
<1>6. \A j \in 1..Len(L) : L[j][1] = p => L[j][2] \in 1..Sent(p)
  <2> SUFFICES ASSUME NEW j \in 1..Len(L), L[j][1] = p PROVE L[j][2] \in 1..Sent(p)
    OBVIOUS
  <2>1. PICK q \in Partitions : L[j] \in RowsUpTo(q, Sent(q)) BY <1>4
  <2> QED BY <2>1 DEF RowsUpTo
<1>7. v \in 1..Sent(p) BY <1>1, <1>2, <1>6
<1>8. \A j \in 1..m : L[j][1] = p => L[j][2] \in 1..(v - 1)
  <2> SUFFICES ASSUME NEW j \in 1..m, L[j][1] = p PROVE L[j][2] \in 1..(v - 1)
    OBVIOUS
  <2>1. L[j][2] < L[m + 1][2] BY <1>1, <1>2, <1>5
  <2>2. L[j][2] \in 1..Sent(p) BY <1>1, <1>6
  <2> QED BY <1>1, <1>2, <1>3, <2>1, <2>2
<1>9. \A i \in 1..(v - 1) : \E j \in 1..m : L[j] = <<p, i>>
  <2> SUFFICES ASSUME NEW i \in 1..(v - 1) PROVE \E j \in 1..m : L[j] = <<p, i>>
    OBVIOUS
  <2>1. <<p, i>> \in RowsUpTo(p, Sent(p)) BY <1>2, <1>3, <1>7 DEF RowsUpTo
  <2>2. PICK j \in 1..Len(L) : L[j] = <<p, i>> BY <1>2, <1>4, <2>1
  <2>3. ~(j > m + 1)
    <3> SUFFICES ASSUME j > m + 1 PROVE FALSE OBVIOUS
    <3>1. m + 1 \in 1..Len(L) /\ L[m + 1][1] = L[j][1] BY <1>1, <1>2, <2>2
    <3>2. L[m + 1][2] < L[j][2] BY <1>1, <1>5, <3>1
    <3> QED BY <1>1, <1>2, <2>2, <3>2
  <2>4. j # m + 1 BY <1>1, <1>2, <2>2
  <2>5. j \in 1..m BY <1>1, <2>3, <2>4
  <2> QED BY <2>2, <2>5
<1>10. Cardinality({j \in 1..m : L[j][1] = p}) = v - 1
  <2>1. m \in 0..Len(L) /\ v - 1 \in Nat BY <1>1, <1>2, <1>3, <1>7
  <2>2. \A j, k \in 1..m : j < k /\ L[j][1] = L[k][1] => L[j][2] < L[k][2]
    BY <1>1, <1>5
  <2> HIDE DEF m, p, v
  <2> QED BY <1>1, <1>8, <1>9, <2>1, <2>2, CountedByPosition
<1>11. {j \in 1..m : L[j][1] = p} = {j \in DOMAIN delivered : delivered[j][1] = p}
  BY <1>1
<1> HIDE DEF m, p, v
<1>12. Caller!GivenOf(p) = v - 1 BY <1>10, <1>11, SameCardinality DEF Caller!GivenOf
<1>13. v - 1 < RowsIn[p] /\ v = (v - 1) + 1
  BY <1>2, <1>3, <1>7, ExchangeAssumption DEF Partitions
<1> QED BY <1>2, <1>12, <1>13

\* When rows is closed and empty and no error waits, the caller has been given every
\* row of every partition.
LEMMA AllGivenAtEnd ==
  ASSUME TypeOK, RowInv, cPc = "next", rows = <<>>, rowsClosed, err = <<>>
  PROVE  Caller!All
<1>1. Untroubled BY DEF RowInv, EndOK, Untroubled
<1>2. \A p \in Partitions : wPc[p] \in {"release", "done"}
  <2>1. iPc = "done" /\ WgPending = {} /\ nextPart = Parts + 1
    BY <1>1 DEF RowInv, EndOK, ShortReadsRecorded
  <2>2. \A p \in Partitions : wPc[p] # "idle"
    BY <2>1, ExchangeAssumption DEF RowInv, EndOK, Partitions
  <2> QED BY <2>1, <2>2 DEF WgPending
<1>3. \A p \in Partitions : Sent(p) = RowsIn[p]
  BY <1>1, <1>2 DEF RowInv, ShortReadsRecorded, Sent
<1>4. delivered = log BY DEF log, TypeOK, DataOK
<1> DEFINE L == delivered
           m == Len(delivered)
<1>5. L \in Seq(Rows) /\ m \in 0..Len(L) /\ DOMAIN L = 1..m BY DEF TypeOK, DataOK
<1>6. {L[j] : j \in 1..m} = UNION {RowsUpTo(q, Sent(q)) : q \in Partitions}
  BY <1>4 DEF RowInv, RowsOnceInOrder
<1>7. \A j, k \in 1..m : j < k /\ L[j][1] = L[k][1] => L[j][2] < L[k][2]
  BY <1>4 DEF RowInv, RowsOnceInOrder
<1> HIDE DEF L, m
<1>8. ASSUME NEW p \in Partitions PROVE Cardinality({j \in 1..m : L[j][1] = p}) = RowsIn[p]
  <2>1. RowsIn[p] \in Nat BY ExchangeAssumption DEF Partitions
  <2>2. ASSUME NEW j \in 1..m, L[j][1] = p PROVE L[j][2] \in 1..RowsIn[p]
    <3>1. PICK q \in Partitions : L[j] \in RowsUpTo(q, Sent(q)) BY <1>6
    <3> QED BY <1>3, <2>2, <3>1 DEF RowsUpTo
  <2>3. ASSUME NEW i \in 1..RowsIn[p] PROVE \E j \in 1..m : L[j] = <<p, i>>
    <3>1. <<p, i>> \in RowsUpTo(p, Sent(p)) BY <1>3 DEF RowsUpTo
    <3> QED BY <1>6, <3>1
  <2> QED BY <1>5, <1>7, <2>1, <2>2, <2>3, CountedByPosition
<1>9. \A p \in Partitions : Caller!GivenOf(p) = RowsIn[p]
  BY <1>5, <1>8, SameCardinality DEF Caller!GivenOf, L
<1> QED BY <1>9 DEF Caller!All, Partitions

\* A step that the caller does not see, but for an error that is reported.
LEMMA UnseenStep ==
  ASSUME UNCHANGED <<cPc, result, delivered>>, err' = err \/ err' # <<>>
  PROVE  [Caller!Next]_(Caller!vars)
<1>1. CASE (err # <<>> \/ result = "error") <=> (err' # <<>> \/ result' = "error")
  BY <1>1 DEF Caller!vars
<1>2. CASE ~(err # <<>> \/ result = "error") /\ (err' # <<>> \/ result' = "error")
  BY <1>2 DEF Caller!Next, Caller!Fail
<1> QED BY <1>1, <1>2

\* Every step of the iterator is a step of PartitionedRows, or one that the caller
\* does not see.
LEMMA CallerStep ==
  TypeOK /\ RowInv /\ [Next]_vars => [Caller!Next]_(Caller!vars)
<1> SUFFICES ASSUME TypeOK, RowInv, [Next]_vars PROVE [Caller!Next]_(Caller!vars)
  OBVIOUS
<1> USE DEF tokenVars, channelVars, signalVars, startVars, iterVars, workerVars, consumerVars
<1>1. CASE Start
  <2>1. UNCHANGED <<cPc, result, delivered>> /\ (StartCancelErr \/ UNCHANGED err)
    BY <1>1 DEF Start, StartBegin, StartEnter, StartCancelled, StartCancelErr, StartQuit,
                StartPartition, StartNoMore, StartWait
  <2>2. StartCancelErr => err' # <<>> BY SendErrNonEmpty DEF StartCancelErr, TypeOK
  <2> QED BY <2>1, <2>2, UnseenStep
<1>2. CASE Iter
  <2>1. UNCHANGED <<cPc, result, delivered>> /\ (IterErr \/ UNCHANGED err)
    BY <1>2 DEF Iter, IterEnter, IterCancelled, IterQuit, IterToken, IterNext, IterErr
  <2>2. IterErr => err' # <<>> BY SendErrNonEmpty DEF IterErr, TypeOK
  <2> QED BY <2>1, <2>2, UnseenStep
<1>3. ASSUME NEW p \in Partitions, Worker(p) PROVE [Caller!Next]_(Caller!vars)
  <2>1. UNCHANGED <<cPc, result, delivered>> BY <1>3, WorkerFrame DEF TypeOK
  <2>2. WorkerErr(p) \/ UNCHANGED err
    BY <1>3 DEF Worker, WorkerBegin, WorkerEnter, WorkerPoll, WorkerNext, WorkerSend,
                WorkerClose, WorkerWgDone, WorkerRelease
  <2>3. WorkerErr(p) => err' # <<>> BY SendErrNonEmpty DEF WorkerErr, TypeOK
  <2> QED BY <2>1, <2>2, <2>3, UnseenStep
<1>4. CASE ConsumerCall
  <2>1. result = "none" BY <1>4 DEF ConsumerCall, RowInv, EndOK
  <2> QED BY <1>4, <2>1 DEF ConsumerCall, Caller!Next, Caller!Call
<1>5. CASE ConsumerErr
  BY <1>5 DEF ConsumerErr, Caller!Next, Caller!Error
<1>6. CASE ConsumerRow
  <2>1. PICK p \in Partitions : /\ Caller!GivenOf(p) < RowsIn[p]
                                /\ Head(rows) = <<p, Caller!GivenOf(p) + 1>>
    BY <1>6, NextRowFollows DEF ConsumerRow
  <2>2. delivered' = Append(delivered, <<p, Caller!GivenOf(p) + 1>>)
    BY <1>6, <2>1 DEF ConsumerRow
  <2> QED BY <1>6, <2>1, <2>2 DEF ConsumerRow, Caller!Next, Caller!Row, Partitions
<1>7. CASE ConsumerEOF
  <2>1. Caller!All \/ err # <<>> BY <1>7, AllGivenAtEnd DEF ConsumerEOF
  <2>2. result = "none" BY <1>7 DEF ConsumerEOF, RowInv, EndOK
  <2> QED BY <1>7, <2>1, <2>2 DEF ConsumerEOF, Caller!Next, Caller!EOF
<1>8. CASE ConsumerClose
  BY <1>8 DEF ConsumerClose, Caller!Next, Caller!Close
<1>9. CASE Cancel BY <1>9, UnseenStep DEF Cancel
<1>10. CASE UNCHANGED vars BY <1>10, UnseenStep DEF vars
<1> QED
  BY <1>1, <1>2, <1>3, <1>4, <1>5, <1>6, <1>7, <1>8, <1>9, <1>10 DEF Next, Receive

\* The goroutines, channels and tokens of Exchange implement the abstract row
\* iterator, for any partitions, any parallelism and under every failure.
THEOREM ExchangeIsRowIter == Spec => IsRowIter
<1>1. Init => Caller!Init BY DEF Init, Caller!Init
<1> QED BY <1>1, CallerStep, TypeCorrect, RowInvariant, PTL DEF Spec, IsRowIter, Caller!Safety
=============================================================================
