------------------------------ MODULE Exchange ------------------------------
(***************************************************************************)
(* The Exchange plan node (sql/plan/exchange.go): a row iterator that runs *)
(* the partitions of a table on several goroutines.  Four kinds of         *)
(* goroutine take part, and each has a program counter here:               *)
(*                                                                         *)
(*   sPc     start(): hands the partitions out, waits, closes rows         *)
(*   iPc     iterPartitions(): takes a token, pulls the next partition     *)
(*   wPc[p]  the goroutine that iterates partition p (iterPartition)       *)
(*   cPc     the caller of Next() and Close()                              *)
(*                                                                         *)
(* A select evaluates its channel expressions once, when it is entered;    *)
(* quit() answers nil once Close has run.  The channel a goroutine is      *)
(* holding is therefore state of its own: xQuit = TRUE when it holds the   *)
(* real quit channel (which Close closes), FALSE when it holds nil (which  *)
(* is never ready) or is not in a select.                                  *)
(***************************************************************************)
EXTENDS Naturals, Sequences, FiniteSets

CONSTANTS
  Parts,        \* number of partitions that the PartitionIter yields
  RowsIn,       \* RowsIn[p]: rows of partition p
  Parallelism,  \* the node's Parallelism: tokens, and capacity of rows
  Faults        \* which of the events of FaultKinds the environment has

FaultKinds == {"partitions", "open", "rows", "rowsClose", "cancel", "earlyClose"}

ASSUME ExchangeAssumption ==
  /\ Parts \in Nat
  /\ RowsIn \in [1..Parts -> Nat]
  /\ Parallelism \in Nat \ {0}
  /\ Faults \subseteq FaultKinds

VARIABLES
  started,     \* it.started
  tokens,      \* number of tokens in tokensChan
  tokensChan,  \* "unset" | "open" | "nil" (closed and set to nil)
  rows,        \* buffered channel of rows, a row is <<partition, position>>
  rowsClosed,
  err,         \* buffered channel of errors, capacity 1
  quitOpen,    \* quitChan is not nil, and open
  cancelled,   \* ctx.Done() is closed
  sPc, sQuit,
  iPc, iQuit, iTok,
  nextPart,    \* partition that partitions.Next() yields next
  wPc, wQuit,
  read,        \* read[p]: rows that rows.Next() returned on partition p
  cPc,
  result,      \* what the last call of Next() that ended the iteration said
  delivered    \* rows that Next() returned, in order

vars == <<started, tokens, tokensChan, rows, rowsClosed, err, quitOpen,
          cancelled, sPc, sQuit, iPc, iQuit, iTok, nextPart, wPc, wQuit, read,
          cPc, result, delivered>>

Partitions == 1..Parts
Rows == Partitions \X Nat

tokenVars    == <<tokens, tokensChan>>
channelVars  == <<rows, rowsClosed, err>>
signalVars   == <<quitOpen, cancelled>>
startVars    == <<sPc, sQuit>>
iterVars     == <<iPc, iQuit, iTok, nextPart>>
workerVars   == <<wPc, wQuit, read>>
consumerVars == <<started, cPc, result, delivered>>

ErrRoom  == Len(err) < 1
SendErr(e) == ErrRoom /\ err' = Append(err, e)

(***************************************************************************)
(* newExchangeRowIter                                                      *)
(***************************************************************************)
Init ==
  /\ started = FALSE
  /\ tokens = 0 /\ tokensChan = "unset"
  /\ rows = <<>> /\ rowsClosed = FALSE /\ err = <<>>
  /\ quitOpen = TRUE /\ cancelled = FALSE
  /\ sPc = "idle" /\ sQuit = FALSE
  /\ iPc = "idle" /\ iQuit = FALSE /\ iTok = FALSE /\ nextPart = 1
  /\ wPc = [p \in Partitions |-> "idle"]
  /\ wQuit = [p \in Partitions |-> FALSE]
  /\ read = [p \in Partitions |-> 0]
  /\ cPc = "idle" /\ result = "none" /\ delivered = <<>>

-----------------------------------------------------------------------------
(***************************************************************************)
(* start()                                                                 *)
(***************************************************************************)
\* mutant: the fill loop runs once too often
FillTokensOneMore == tokens' = Parallelism + 1 /\ tokensChan' = "open"

FillTokens == tokens' = Parallelism /\ tokensChan' = "open"

CloseTokens == tokensChan' = "nil" /\ UNCHANGED tokens

\* fillTokens and `go it.iterPartitions(partitions)`
StartBegin ==
  /\ sPc = "begin"
  /\ FillTokens
  /\ sPc' = "enter" /\ iPc' = "enter"
  /\ UNCHANGED <<sQuit, iQuit, iTok, nextPart, channelVars, signalVars, workerVars,
                 consumerVars>>

\* the head of the select: quit() is evaluated
StartEnter ==
  /\ sPc = "enter"
  /\ sQuit' = quitOpen
  /\ sPc' = "select"
  /\ UNCHANGED <<tokenVars, channelVars, signalVars, iterVars, workerVars,
                 consumerVars>>

\* case <-it.ctx.Done()
StartCancelled ==
  /\ sPc = "select" /\ cancelled
  /\ sPc' = "cancelErr" /\ sQuit' = FALSE
  /\ UNCHANGED <<tokenVars, channelVars, signalVars, iterVars, workerVars,
                 consumerVars>>

\* it.err <- context.Canceled, which may have to wait for room
StartCancelErr ==
  /\ sPc = "cancelErr"
  /\ SendErr("cancelled")
  /\ CloseTokens
  /\ sPc' = "done"
  /\ UNCHANGED <<sQuit, rows, rowsClosed, signalVars, iterVars, workerVars,
                 consumerVars>>

\* case <-it.quit()
StartQuit ==
  /\ sPc = "select" /\ sQuit /\ ~quitOpen
  /\ CloseTokens
  /\ sPc' = "done" /\ sQuit' = FALSE
  /\ UNCHANGED <<channelVars, signalVars, iterVars, workerVars,
                 consumerVars>>

\* case p := <-partitions; the channel has no buffer, so this step is also
\* the sender's `ch <- p`.  The partition sent is the last one pulled.
StartPartition ==
  /\ sPc = "select" /\ iPc = "send"
  /\ LET p == nextPart - 1
     IN wPc' = [wPc EXCEPT ![p] = "begin"]
  /\ sPc' = "enter" /\ sQuit' = FALSE /\ iPc' = "enter"
  /\ UNCHANGED <<iQuit, iTok, nextPart, wQuit, read, tokenVars, channelVars,
                 signalVars, consumerVars>>

\* case _, ok := <-partitions with !ok
StartNoMore ==
  /\ sPc = "select" /\ iPc = "done"
  /\ CloseTokens
  /\ sPc' = "wait" /\ sQuit' = FALSE
  /\ UNCHANGED <<channelVars, signalVars, iterVars, workerVars,
                 consumerVars>>

\* mutant: wg.Wait() left out
WgPendingIgnored == {}

WgPending == {p \in Partitions : wPc[p] \notin {"idle", "release", "done"}}

\* wg.Wait(); close(it.rows)
StartWait ==
  /\ sPc = "wait" /\ WgPending = {}
  /\ rowsClosed' = TRUE
  /\ sPc' = "done"
  /\ UNCHANGED <<sQuit, rows, err, tokenVars, signalVars, iterVars, workerVars,
                 consumerVars>>

-----------------------------------------------------------------------------
(***************************************************************************)
(* iterPartitions()                                                        *)
(***************************************************************************)
IterEnter ==
  /\ iPc = "enter"
  /\ iQuit' = quitOpen /\ iTok' = (tokensChan = "open")
  /\ iPc' = "select"
  /\ UNCHANGED <<nextPart, tokenVars, channelVars, signalVars, startVars, workerVars,
                 consumerVars>>

IterCancelled ==
  /\ iPc = "select" /\ cancelled
  /\ iPc' = "cancelErr" /\ iQuit' = FALSE /\ iTok' = FALSE
  /\ UNCHANGED <<nextPart, tokenVars, channelVars, signalVars,
                 startVars, workerVars, consumerVars>>

IterQuit ==
  /\ iPc = "select" /\ iQuit /\ ~quitOpen
  /\ iPc' = "done" /\ iQuit' = FALSE /\ iTok' = FALSE
  /\ UNCHANGED <<nextPart, tokenVars, channelVars, signalVars,
                 startVars, workerVars, consumerVars>>

\* mutant: looks at the tokens without taking one
IterTokenPeek ==
  /\ iPc = "select" /\ iTok /\ (tokens > 0 \/ tokensChan = "nil")
  /\ iPc' = "next" /\ iQuit' = FALSE /\ iTok' = FALSE
  /\ UNCHANGED <<nextPart, tokenVars, channelVars, signalVars, startVars, workerVars,
                 consumerVars>>

\* case <-it.tokens(): a buffered token, or at once when the channel that the
\* select holds has been closed in the meantime
IterToken ==
  /\ iPc = "select" /\ iTok
  /\ \/ tokens > 0 /\ tokens' = tokens - 1
     \/ tokens = 0 /\ tokensChan = "nil" /\ UNCHANGED tokens
  /\ iPc' = "next" /\ iQuit' = FALSE /\ iTok' = FALSE
  /\ UNCHANGED <<nextPart, tokensChan, channelVars, signalVars,
                 startVars, workerVars, consumerVars>>

\* it.partitions.Next(): a partition, the end, or an error
IterNext ==
  /\ iPc = "next"
  /\ \/ nextPart <= Parts /\ iPc' = "send" /\ nextPart' = nextPart + 1
     \/ nextPart > Parts /\ iPc' = "done" /\ UNCHANGED nextPart
     \/ "partitions" \in Faults /\ iPc' = "nextErr" /\ UNCHANGED nextPart
  /\ UNCHANGED <<iQuit, iTok, tokenVars, channelVars, signalVars, startVars,
                 workerVars, consumerVars>>

\* it.err <- err or it.err <- context.Canceled, then close(ch)
IterErr ==
  /\ iPc \in {"nextErr", "cancelErr"}
  /\ SendErr(IF iPc = "nextErr" THEN "partitions" ELSE "cancelled")
  /\ iPc' = "done"
  /\ UNCHANGED <<iQuit, iTok, nextPart, rows, rowsClosed, tokenVars, signalVars,
                 startVars, workerVars, consumerVars>>

-----------------------------------------------------------------------------
(***************************************************************************)
(* iterPartition(p) and the goroutine around it                            *)
(***************************************************************************)
WorkerGoto(p, from, to) ==
  /\ wPc[p] = from
  /\ wPc' = [wPc EXCEPT ![p] = to]

\* TransformUp and node.RowIter; a failure returns before rows exists, so
\* there is nothing to close
WorkerBegin(p) ==
  /\ \/ WorkerGoto(p, "begin", "enter")
     \/ "open" \in Faults /\ WorkerGoto(p, "begin", "openErr")
  /\ UNCHANGED <<wQuit, read, tokenVars, channelVars, signalVars, startVars,
                 iterVars, consumerVars>>

WorkerEnter(p) ==
  /\ WorkerGoto(p, "enter", "poll")
  /\ wQuit' = [wQuit EXCEPT ![p] = quitOpen]
  /\ UNCHANGED <<read, tokenVars, channelVars, signalVars, startVars, iterVars,
                 consumerVars>>

QuitSeen(p) == wQuit[p] /\ ~quitOpen

\* the select has a default: it goes on only when no other case is ready
WorkerPoll(p) ==
  /\ \/ cancelled /\ WorkerGoto(p, "poll", "cancelErr")
     \/ QuitSeen(p) /\ WorkerGoto(p, "poll", "close")
     \/ ~cancelled /\ ~QuitSeen(p) /\ WorkerGoto(p, "poll", "next")
  /\ wQuit' = [wQuit EXCEPT ![p] = FALSE]
  /\ UNCHANGED <<read, tokenVars, channelVars, signalVars, startVars,
                 iterVars, consumerVars>>

\* mutant: io.EOF is not told from a row
WorkerNextPastEnd(p) ==
  /\ WorkerGoto(p, "next", "send")
  /\ read' = [read EXCEPT ![p] = IF @ < RowsIn[p] THEN @ + 1 ELSE @]
  /\ UNCHANGED <<wQuit, tokenVars, channelVars, signalVars, startVars, iterVars,
                 consumerVars>>

\* rows.Next(): a row, io.EOF, or an error
WorkerNext(p) ==
  /\ \/ /\ read[p] < RowsIn[p]
        /\ WorkerGoto(p, "next", "send")
        /\ read' = [read EXCEPT ![p] = @ + 1]
     \/ /\ read[p] = RowsIn[p]
        /\ WorkerGoto(p, "next", "close")
        /\ UNCHANGED read
     \/ /\ "rows" \in Faults
        /\ WorkerGoto(p, "next", "rowErr")
        /\ UNCHANGED read
  /\ UNCHANGED <<wQuit, tokenVars, channelVars, signalVars, startVars, iterVars,
                 consumerVars>>

\* it.rows <- row
WorkerSend(p) ==
  /\ WorkerGoto(p, "send", "enter")
  /\ Len(rows) < Parallelism
  /\ rows' = Append(rows, <<p, read[p]>>)
  /\ UNCHANGED <<wQuit, read, rowsClosed, err, tokenVars, signalVars, startVars,
                 iterVars, consumerVars>>

\* it.err <- err on the four error paths of iterPartition
WorkerErr(p) ==
  /\ \/ WorkerGoto(p, "openErr", "wgDone") /\ SendErr("open")
     \/ WorkerGoto(p, "rowErr", "close") /\ SendErr("rows")
     \/ WorkerGoto(p, "cancelErr", "close") /\ SendErr("cancelled")
     \/ WorkerGoto(p, "closeErr", "wgDone") /\ SendErr("rowsClose")
  /\ UNCHANGED <<wQuit, read, rows, rowsClosed, tokenVars, signalVars, startVars,
                 iterVars, consumerVars>>

\* the deferred rows.Close()
WorkerClose(p) ==
  /\ \/ WorkerGoto(p, "close", "wgDone")
     \/ "rowsClose" \in Faults /\ WorkerGoto(p, "close", "closeErr")
  /\ UNCHANGED <<wQuit, read, tokenVars, channelVars, signalVars, startVars,
                 iterVars, consumerVars>>

\* wg.Done()
WorkerWgDone(p) ==
  /\ WorkerGoto(p, "wgDone", "release")
  /\ UNCHANGED <<wQuit, read, tokenVars, channelVars, signalVars, startVars,
                 iterVars, consumerVars>>

\* mutant: the token is never given back
ReleaseNothing == tokensChan \in {"open", "nil"} /\ UNCHANGED tokens

\* releaseToken(): the send would block, holding it.mut, on a full channel
ReleaseToken ==
  \/ tokensChan = "open" /\ tokens < Parallelism /\ tokens' = tokens + 1
  \/ tokensChan = "nil" /\ UNCHANGED tokens

WorkerRelease(p) ==
  /\ WorkerGoto(p, "release", "done")
  /\ ReleaseToken
  /\ UNCHANGED <<tokensChan, wQuit, read, channelVars, signalVars, startVars,
                 iterVars, consumerVars>>

-----------------------------------------------------------------------------
(***************************************************************************)
(* Next() and Close(), called by one goroutine.  The caller stops after an *)
(* error or io.EOF; Close may be called again after that.                  *)
(***************************************************************************)
Close == quitOpen' = FALSE

ConsumerCall ==
  /\ cPc = "idle"
  /\ cPc' = "next"
  /\ started' = TRUE
  /\ sPc' = IF started THEN sPc ELSE "begin"
  /\ UNCHANGED <<result, delivered, sQuit, tokenVars, channelVars, signalVars,
                 iterVars, workerVars>>

ConsumerErr ==
  /\ cPc = "next" /\ err # <<>>
  /\ err' = Tail(err)
  /\ Close
  /\ result' = "error" /\ cPc' = "ended"
  /\ UNCHANGED <<started, delivered, rows, rowsClosed, cancelled, tokenVars,
                 startVars, iterVars, workerVars>>

ConsumerRow ==
  /\ cPc = "next" /\ rows # <<>>
  /\ delivered' = Append(delivered, Head(rows))
  /\ rows' = Tail(rows)
  /\ cPc' = "idle"
  /\ UNCHANGED <<started, result, rowsClosed, err, tokenVars, signalVars, startVars,
                 iterVars, workerVars>>

ConsumerEOF ==
  /\ cPc = "next" /\ rows = <<>> /\ rowsClosed
  /\ result' = "EOF" /\ cPc' = "ended"
  /\ UNCHANGED <<started, delivered, tokenVars, channelVars, signalVars, startVars,
                 iterVars, workerVars>>

ConsumerClose ==
  /\ \/ cPc = "ended"
     \/ cPc = "idle" /\ "earlyClose" \in Faults
  /\ Close
  /\ cPc' = "closed"
  /\ UNCHANGED <<started, result, delivered, cancelled, tokenVars, channelVars,
                 startVars, iterVars, workerVars>>

\* the context of the query is cancelled (KILL, a closed connection)
Cancel ==
  /\ "cancel" \in Faults /\ ~cancelled
  /\ cancelled' = TRUE
  /\ UNCHANGED <<quitOpen, tokenVars, channelVars, startVars, iterVars, workerVars,
                 consumerVars>>

-----------------------------------------------------------------------------
Start ==
  \/ StartBegin \/ StartEnter \/ StartCancelled \/ StartCancelErr \/ StartQuit
  \/ StartPartition \/ StartNoMore \/ StartWait

Iter ==
  IterEnter \/ IterCancelled \/ IterQuit \/ IterToken \/ IterNext \/ IterErr

Worker(p) ==
  \/ WorkerBegin(p) \/ WorkerEnter(p) \/ WorkerPoll(p) \/ WorkerNext(p)
  \/ WorkerSend(p) \/ WorkerErr(p) \/ WorkerClose(p) \/ WorkerWgDone(p)
  \/ WorkerRelease(p)

Receive == ConsumerErr \/ ConsumerRow \/ ConsumerEOF

Next ==
  \/ Start
  \/ Iter
  \/ \E p \in Partitions : Worker(p)
  \/ ConsumerCall \/ Receive \/ ConsumerClose
  \/ Cancel

Spec == Init /\ [][Next]_vars

\* The Go scheduler does not leave all goroutines waiting that can proceed, and the
\* caller keeps calling Next until it is told to stop.  Nothing is assumed of the
\* order in which the goroutines run.
Goroutines == Start \/ Iter \/ (\E p \in Partitions : Worker(p)) \/ Receive

FairSpec == Spec /\ WF_vars(Goroutines \/ ConsumerCall)
-----------------------------------------------------------------------------
FlagsOK ==
  /\ started \in BOOLEAN /\ rowsClosed \in BOOLEAN /\ quitOpen \in BOOLEAN
  /\ cancelled \in BOOLEAN /\ sQuit \in BOOLEAN /\ iQuit \in BOOLEAN
  /\ iTok \in BOOLEAN /\ wQuit \in [Partitions -> BOOLEAN]

ControlOK ==
  /\ sPc \in {"idle", "begin", "enter", "select", "cancelErr", "wait", "done"}
  /\ iPc \in {"idle", "enter", "select", "next", "send", "nextErr", "cancelErr",
              "done"}
  /\ wPc \in [Partitions -> {"idle", "begin", "openErr", "enter", "poll", "next",
                             "send", "rowErr", "cancelErr", "close", "closeErr",
                             "wgDone", "release", "done"}]
  /\ cPc \in {"idle", "next", "ended", "closed"}
  /\ result \in {"none", "error", "EOF"}
  /\ tokensChan \in {"unset", "open", "nil"}

DataOK ==
  /\ tokens \in 0..Parallelism
  /\ rows \in Seq(Rows) /\ delivered \in Seq(Rows)
  /\ err \in Seq({"cancelled", "partitions", "open", "rows", "rowsClose"})
  /\ nextPart \in 1..(Parts + 1)
  /\ read \in [Partitions -> Nat]

TypeOK == FlagsOK /\ ControlOK /\ DataOK

Running == {p \in Partitions : wPc[p] \notin {"idle", "done"}}

IterHoldsToken == iPc \in {"next", "send", "nextErr"}

\* The tokens discipline of fillTokens / tokens() / releaseToken: no more than
\* Parallelism goroutines iterate partitions at any moment, whatever errors,
\* cancellations and Close calls happen in between.
ParallelismBound == Cardinality(Running) <= Parallelism

\* releaseToken sends on tokensChan while it holds it.mut: the channel always
\* has room then, so no goroutine is stuck with the mutex in its hands.
ReleaseNeverBlocks ==
  \A p \in Partitions :
    wPc[p] = "release" /\ tokensChan = "open" => tokens < Parallelism

\* The account behind both: while the channel is open, the tokens in it, the
\* goroutines that owe one and the one that iterPartitions holds are at most
\* Parallelism; and a partition that was not handed out has no goroutine.
HeldByIter == IF IterHoldsToken THEN 1 ELSE 0

StagesOK ==
  /\ tokensChan = "unset" <=> sPc \in {"idle", "begin"}
  /\ tokensChan = "open" <=> sPc \in {"enter", "select", "cancelErr"}
  /\ ~started => sPc = "idle"
  /\ sPc \in {"idle", "begin"} => iPc = "idle"
  /\ iPc = "idle" => nextPart = 1
  /\ iPc = "send" => nextPart > 1 /\ wPc[nextPart - 1] = "idle"
  /\ \A p \in Partitions : p >= nextPart => wPc[p] = "idle"

TokensAccounted ==
  /\ Cardinality(Running) <= Parallelism
  /\ tokensChan = "open" => tokens + Cardinality(Running) + HeldByIter <= Parallelism

TokenInv == StagesOK /\ TokensAccounted

log == delivered \o rows
Sent(p) == IF wPc[p] = "send" THEN read[p] - 1 ELSE read[p]
RowsUpTo(p, n) == {<<p, i>> : i \in 1..n}

\* Every row that a partition goroutine sent is either delivered or still in
\* the channel, once, and the rows of one partition keep their order.
RowsOnceInOrder ==
  /\ \A j, k \in 1..Len(log) :
       j < k /\ log[j][1] = log[k][1] => log[j][2] < log[k][2]
  /\ {log[j] : j \in 1..Len(log)} = UNION {RowsUpTo(p, Sent(p)) : p \in Partitions}

Complete ==
  UNION {RowsUpTo(p, RowsIn[p]) : p \in Partitions}
    \subseteq {delivered[j] : j \in 1..Len(delivered)}

\* Next answers io.EOF on a truncated result only while the error that
\* truncated it sits unread in it.err: rows is closed after every goroutine
\* has reported what stopped it.
TruncationIsRecorded == result = "EOF" => Complete \/ err # <<>>

\* Why it holds: a partition that was read short, or not at all, has left an
\* error in it.err, or Next has returned one, or the iterator was closed.
ReadOK ==
  \A p \in Partitions :
    /\ read[p] <= RowsIn[p]
    /\ wPc[p] = "send" => read[p] >= 1
    /\ wPc[p] = "idle" => read[p] = 0

Untroubled == err = <<>> /\ result # "error" /\ quitOpen

EndOK ==
  /\ sPc = "wait" => iPc = "done"
  /\ rowsClosed => iPc = "done" /\ WgPending = {}
  /\ cPc \in {"idle", "next"} => quitOpen /\ result = "none"
  /\ \A p \in Partitions :
       p < nextPart /\ wPc[p] = "idle" => iPc = "send" /\ p = nextPart - 1

ShortReadsRecorded ==
  Untroubled =>
    /\ iPc = "done" => nextPart = Parts + 1
    /\ \A p \in Partitions :
         wPc[p] \in {"close", "closeErr", "wgDone", "release", "done"} =>
           read[p] = RowsIn[p]

RowInv == ReadOK /\ RowsOnceInOrder /\ EndOK /\ ShortReadsRecorded
              /\ TruncationIsRecorded

(***************************************************************************)
(* The caller's view of the iterator.  Nothing of the goroutines is seen   *)
(* but that one of them has reported an error.                             *)
(***************************************************************************)
Caller == INSTANCE PartitionedRows
  WITH given <- delivered, calling <- (cPc = "next"), answer <- result,
       trouble <- (err # <<>> \/ result = "error"), closed <- (cPc = "closed")

\* The four kinds of goroutine together are a row iterator: whatever fails and
\* whoever cancels, rows come one for each call of Next, once and in the order of
\* their partition, io.EOF follows the last row or an error that was reported, and
\* an error once reported is not lost (exchangeRowIter.Next).
IsRowIter == Caller!Safety

\* Nothing has failed or was cancelled, and the iterator was not closed early.
Smooth == err = <<>> /\ result # "error" /\ ~cancelled /\ (quitOpen \/ result = "EOF")

AllDone == sPc = "done" /\ iPc = "done" /\ \A p \in Partitions : wPc[p] = "done"

\* Every call of Next returns: there is a row, an error or the end of the rows for
\* it.  When nothing fails, the caller is told io.EOF, by then has every row of
\* every partition, however few tokens there are, and every goroutine that the
\* iterator started ends (exchangeRowIter.Next, start).
DrainedAndDone ==
  /\ Caller!Answered
  /\ []Smooth => <>[](result = "EOF" /\ Complete /\ AllDone)
=============================================================================
