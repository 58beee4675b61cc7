---------------------------- MODULE HandlerProofs ---------------------------
(***************************************************************************)
(* Proofs about the server, for any number of connections, commands, rows  *)
(* and tables.                                                             *)
(***************************************************************************)
EXTENDS Handler, FiniteSetTheorems, TLAPS

\* The commands of all connections but c are what they were.
OthersKept(c) == \A d \in Conns \ {c} : q'[d] = q[d]
\* ComQuery on c still serves the same command ...
CommandKept(c) == q'[c].pid = q[c].pid /\ q'[c].kind = q[c].kind /\ q'[c].target = q[c].target
\* ... and has passed on the same rows.
RowsKept(c) == q'[c].got = q[c].got /\ q'[c].sent = q[c].sent

\* A jump of ComQuery changes nothing else of the command.
LEMMA GotoStep ==
  ASSUME q \in [Conns -> Queries], NEW c \in Conns, NEW l \in ComQueryStates, Goto(c, l)
  PROVE  /\ q' \in [Conns -> Queries]
         /\ q'[c].pc = l /\ q'[c].res = q[c].res
         /\ OthersKept(c) /\ CommandKept(c) /\ RowsKept(c)
<1> USE DEF Goto
<1>1. q[c] \in Queries OBVIOUS
<1>2. q'[c] = [q[c] EXCEPT !.pc = l] OBVIOUS
<1>3. q'[c] \in Queries BY <1>1, <1>2 DEF Queries
<1>4. OthersKept(c) BY DEF OthersKept
<1>5. q' \in [Conns -> Queries] BY <1>3
<1> QED BY <1>1, <1>2, <1>4, <1>5 DEF Queries, CommandKept, RowsKept

\* Neither does its return, which sets the result.
LEMMA ReturnStep ==
  ASSUME q \in [Conns -> Queries], NEW c \in Conns, NEW r \in {"ok", "err"}, Return(c, r)
  PROVE  /\ q' \in [Conns -> Queries]
         /\ q'[c].pc = "idle" /\ q'[c].res = r
         /\ OthersKept(c) /\ CommandKept(c) /\ RowsKept(c)
<1> USE DEF Return
<1>1. q[c] \in Queries OBVIOUS
<1>2. q'[c] = [q[c] EXCEPT !.pc = "idle", !.res = r] OBVIOUS
<1>3. q'[c] \in Queries BY <1>1, <1>2 DEF Queries, ComQueryStates
<1>4. OthersKept(c) BY DEF OthersKept
<1>5. q' \in [Conns -> Queries] BY <1>3
<1> QED BY <1>1, <1>2, <1>4, <1>5 DEF Queries, CommandKept, RowsKept

\* A command begins with nothing read and nothing sent, or is refused.
LEMMA ComQueryStep ==
  ASSUME q \in [Conns -> Queries], NEW c \in Conns, ComQuery(c)
  PROVE  /\ q' \in [Conns -> Queries]
         /\ OthersKept(c)
         /\ \/ q' = q
            \/ /\ q'[c].pc = "pid" /\ q'[c].pid = 0 /\ q'[c].res = None
               /\ q'[c].kind \in Kinds /\ q'[c].target \in Conns
               /\ q'[c].got = 0 /\ q'[c].sent = 0
<1>1. CASE q' = q BY <1>1 DEF OthersKept
<1>2. ASSUME NEW k \in Kinds, NEW t \in Conns,
             q' = [q EXCEPT ![c] = [NoQuery EXCEPT !.pc = "pid", !.kind = k, !.target = t]]
      PROVE  /\ q' \in [Conns -> Queries]
             /\ OthersKept(c)
             /\ q'[c].pc = "pid" /\ q'[c].pid = 0 /\ q'[c].res = None
             /\ q'[c].kind \in Kinds /\ q'[c].target \in Conns
             /\ q'[c].got = 0 /\ q'[c].sent = 0
  <2>1. q'[c] = [pc |-> "pid", pid |-> 0, kind |-> k, target |-> t, got |-> 0, sent |-> 0,
                 batches |-> FALSE, res |-> None]
    BY <1>2 DEF NoQuery
  <2>2. q'[c] \in Queries BY <2>1, BoundsAssumption DEF Queries, ComQueryStates
  <2>3. q' \in [Conns -> Queries] BY <1>2, <2>2
  <2> QED BY <1>2, <2>1, <2>3 DEF OthersKept
<1> QED BY <1>1, <1>2 DEF ComQuery

\* A command that waits for its pid finds one.
LEMMA PidAvailable ==
  ASSUME TypeOK, PidsLeft, NEW c \in Conns, At(c, "pid")
  PROVE  pid + 1 \in Pids
<1> DEFINE W == {d \in Conns : At(d, "pid")}
<1>1. IsFiniteSet(W) BY FS_Subset, BoundsAssumption
<1>2. Cardinality(W) \in Nat /\ W # {} BY <1>1, FS_CardinalityType
<1>3. Cardinality(W) # 0 BY <1>1, <1>2, FS_EmptySet
<1>4. pid + Cardinality(W) <= MaxPid BY DEF PidsLeft
<1> HIDE DEF W
<1> QED BY <1>2, <1>3, <1>4, BoundsAssumption DEF TypeOK, Pids

\* nextPid gives the command a pid that no other command has.
LEMMA NextPidStep ==
  ASSUME TypeOK, PidsLeft, PidsOwned, NEW c \in Conns, NextPid(c)
  PROVE  /\ pid + 1 \in Pids
         /\ q' \in [Conns -> Queries] /\ job' \in [Pids -> Jobs]
         /\ OthersKept(c) /\ RowsKept(c)
         /\ q'[c].pid = pid + 1 /\ q'[c].kind = q[c].kind /\ q'[c].target = q[c].target
         /\ q'[c].res = q[c].res
         /\ q'[c].pc \in {"kill", "addProcess"}
         /\ q'[c].pc = "kill" => q[c].kind \in {"killQuery", "killConn"}
         /\ job'[pid + 1].conn = c /\ job'[pid + 1].kind = q[c].kind
         /\ \A i \in Pids \ {pid + 1} : job'[i] = job[i]
<1>t. q \in [Conns -> Queries] /\ job \in [Pids -> Jobs] BY DEF TypeOK
<1>1. pid + 1 \in Pids BY PidAvailable DEF NextPid
<1>2. q[c].kind \in Kinds BY DEF NextPid, PidsOwned
<1> DEFINE l == IF q[c].kind \in {"killQuery", "killConn"} THEN "kill" ELSE "addProcess"
<1>3. q'[c] = [q[c] EXCEPT !.pid = pid + 1, !.pc = l] BY <1>t DEF NextPid
<1>4. q[c] \in Queries BY <1>t
<1>5. q'[c] \in Queries
  <2>1. pid + 1 \in 0..MaxPid /\ l \in ComQueryStates
    BY <1>1, BoundsAssumption DEF Pids, ComQueryStates
  <2> HIDE DEF l
  <2> QED BY <2>1, <1>3, <1>4 DEF Queries
<1>6. q' \in [Conns -> Queries] /\ OthersKept(c) BY <1>5, <1>t DEF NextPid, OthersKept
<1>7. PICK n \in 0..MaxRows :
        job' = [job EXCEPT ![pid + 1] =
                 [conn |-> c, kind |-> q[c].kind,
                  rows |-> IF q[c].kind = "select" THEN n
                           ELSE IF q[c].kind = "dml" THEN 1 ELSE 0]]
  BY DEF NextPid
<1> DEFINE m == IF q[c].kind = "select" THEN n ELSE IF q[c].kind = "dml" THEN 1 ELSE 0
<1>8. m \in 0..(MaxRows + 1) BY BoundsAssumption
<1>9. job'[pid + 1] = [conn |-> c, kind |-> q[c].kind, rows |-> m] BY <1>1, <1>7, <1>t
<1> HIDE DEF m
<1>10. job'[pid + 1] \in Jobs BY <1>2, <1>8, <1>9 DEF Jobs
<1>11. job' \in [Pids -> Jobs] /\ \A i \in Pids \ {pid + 1} : job'[i] = job[i]
  BY <1>7, <1>10, <1>t
<1>12. /\ q'[c].pid = pid + 1 /\ q'[c].kind = q[c].kind /\ q'[c].target = q[c].target
       /\ q'[c].res = q[c].res /\ q'[c].pc = l /\ RowsKept(c)
  BY <1>3, <1>4 DEF Queries, RowsKept
<1> QED BY <1>1, <1>6, <1>9, <1>11, <1>12

\* The command that a connection runs has a pid.
LEMMA PidGiven ==
  ASSUME TypeOK, PidsOwned, NEW c \in Conns,
         q[c].pc \in CommandStates
  PROVE  q[c].pid \in Pids
<1>1. q[c] \in Queries BY DEF TypeOK
<1>2. q[c].pid \in 0..MaxPid BY <1>1 DEF Queries
<1> QED BY <1>2, BoundsAssumption DEF PidsOwned, Pids

\* A row that the reader has put on rowChan goes into r, or ends the command with an error.
LEMMA RecvRowStep ==
  ASSUME TypeOK, NEW c \in Conns, RecvRow(c)
  PROVE  /\ q' \in [Conns -> Queries]
         /\ OthersKept(c) /\ CommandKept(c) /\ q'[c].sent = q[c].sent
         /\ \/ /\ q'[c].pc = (IF q[c].kind = "dml" THEN "close" ELSE "loop")
               /\ q'[c].got = q[c].got + 1
            \/ q'[c].pc = "idle" /\ q'[c].res = "err"
<1>t. q \in [Conns -> Queries] /\ q[c] \in Queries BY DEF TypeOK
<1> DEFINE l == IF q[c].kind = "dml" THEN "close" ELSE "loop"
<1>1. CASE q' = [q EXCEPT ![c].got = @ + 1, ![c].pc = l]
  <2>1. q'[c] = [q[c] EXCEPT !.got = q[c].got + 1, !.pc = l] BY <1>1, <1>t
  <2>2. q[c].got \in 0..RowsBatch BY <1>t DEF Queries
  <2>3. q[c].got + 1 \in 0..RowsBatch BY <2>2, BoundsAssumption DEF RecvRow, InLoop
  <2>4. q'[c] \in Queries BY <2>1, <2>3, <1>t DEF Queries, ComQueryStates
  <2>5. q' \in [Conns -> Queries] /\ OthersKept(c) BY <1>1, <2>4, <1>t DEF OthersKept
  <2> QED BY <2>1, <2>5, <1>t DEF Queries, CommandKept
<1>2. CASE Return(c, "err") BY <1>2, <1>t, ReturnStep DEF RowsKept
<1> QED BY <1>1, <1>2 DEF RecvRow

\* A full batch goes to the client and r starts empty again, or the command fails.
LEMMA SendBatchStep ==
  ASSUME TypeOK, PidsOwned, RowsAccounted, NEW c \in Conns, SendBatch(c)
  PROVE  /\ q' \in [Conns -> Queries]
         /\ OthersKept(c) /\ CommandKept(c)
         /\ \/ /\ q'[c].pc = "loop"
               /\ q'[c].sent = q[c].sent + q[c].got /\ q'[c].got = 0
            \/ q'[c].pc = "idle" /\ q'[c].res = "err" /\ RowsKept(c)
<1>t. q \in [Conns -> Queries] /\ q[c] \in Queries BY DEF TypeOK
<1>1. CASE q' = [q EXCEPT ![c].sent = @ + q[c].got, ![c].got = 0, ![c].batches = TRUE]
  <2>1. q'[c] = [q[c] EXCEPT !.sent = q[c].sent + q[c].got, !.got = 0, !.batches = TRUE]
    BY <1>1, <1>t
  <2>2. q[c].got \in Nat /\ q[c].sent \in Nat BY <1>t, BoundsAssumption DEF Queries
  <2>3. q[c].pid \in Pids BY PidGiven DEF SendBatch, At, CommandStates
  <2>4. taken[q[c].pid] \in 0..(MaxRows + 1) BY <2>3 DEF TypeOK
  <2>5. q[c].sent + q[c].got + (IF reader[q[c].pid] = "row" THEN 1 ELSE 0) = taken[q[c].pid]
    BY DEF RowsAccounted, SendBatch
  <2>6. q[c].sent + q[c].got \in 0..(MaxRows + 1) BY <2>2, <2>4, <2>5, BoundsAssumption
  <2>7. q'[c] \in Queries
    <3>1. 0 \in 0..RowsBatch BY BoundsAssumption
    <3> QED BY <3>1, <2>1, <2>6, <1>t DEF Queries
  <2>8. q' \in [Conns -> Queries] /\ OthersKept(c) BY <1>1, <2>7, <1>t DEF OthersKept
  <2> QED BY <2>1, <2>8, <1>t DEF Queries, CommandKept, SendBatch, At
<1>2. CASE Return(c, "err") BY <1>2, <1>t, ReturnStep
<1> QED BY <1>1, <1>2 DEF SendBatch

\* The last callback sends what is left in r and ends the command.
LEMMA LastCallbackStep ==
  ASSUME TypeOK, PidsOwned, RowsAccounted, NEW c \in Conns, LastCallback(c)
  PROVE  /\ q' \in [Conns -> Queries]
         /\ OthersKept(c) /\ CommandKept(c)
         /\ q'[c].pc = "idle" /\ q'[c].res = "ok" /\ q'[c].sent = q[c].sent + q[c].got
<1>t. q \in [Conns -> Queries] /\ q[c] \in Queries BY DEF TypeOK
<1> DEFINE n == IF q[c].got = 0 /\ q[c].batches THEN q[c].sent ELSE q[c].sent + q[c].got
<1>1. q'[c] = [q[c] EXCEPT !.pc = "idle", !.res = "ok", !.sent = n] BY <1>t DEF LastCallback
<1>2. q[c].got \in Nat /\ q[c].sent \in Nat BY <1>t, BoundsAssumption DEF Queries
<1>3. q[c].pid \in Pids BY PidGiven DEF LastCallback, At, CommandStates
<1>4. taken[q[c].pid] \in 0..(MaxRows + 1) BY <1>3 DEF TypeOK
<1>5. q[c].sent + q[c].got <= taken[q[c].pid] BY DEF RowsAccounted, LastCallback, At
<1>6. n = q[c].sent + q[c].got BY <1>2
<1> HIDE DEF n
<1>7. n \in 0..(MaxRows + 1) BY <1>2, <1>4, <1>5, <1>6, BoundsAssumption
<1>8. q'[c] \in Queries BY <1>1, <1>7, <1>t DEF Queries, ComQueryStates
<1>9. q' \in [Conns -> Queries] /\ OthersKept(c) BY <1>8, <1>t DEF OthersKept, LastCallback
<1> QED BY <1>1, <1>6, <1>9, <1>t DEF Queries, CommandKept

\* Every step keeps the types of the commands.
LEMMA CommandTypes ==
  ASSUME TypeOK, HandlerInv, [Next]_vars
  PROVE  q' \in [Conns -> Queries] /\ job' \in [Pids -> Jobs]
<1>t. q \in [Conns -> Queries] /\ job \in [Pids -> Jobs] BY DEF TypeOK
<1>1. CASE UNCHANGED <<q, job>> BY <1>1, <1>t
<1>2. ASSUME NEW c \in Conns, NEW l \in ComQueryStates, Goto(c, l), UNCHANGED job
      PROVE  q' \in [Conns -> Queries] /\ job' \in [Pids -> Jobs]
  BY <1>2, <1>t, GotoStep
<1>3. ASSUME NEW c \in Conns, NEW r \in {"ok", "err"}, Return(c, r), UNCHANGED job
      PROVE  q' \in [Conns -> Queries] /\ job' \in [Pids -> Jobs]
  BY <1>3, <1>t, ReturnStep
<1>4. ASSUME NEW c \in Conns, NextPid(c)
      PROVE  q' \in [Conns -> Queries] /\ job' \in [Pids -> Jobs]
  BY <1>4, NextPidStep DEF HandlerInv
<1>5. ASSUME NEW c \in Conns, ComQuery(c) \/ RecvRow(c) \/ SendBatch(c) \/ LastCallback(c)
      PROVE  q' \in [Conns -> Queries] /\ job' \in [Pids -> Jobs]
  <2>1. UNCHANGED job BY <1>5 DEF ComQuery, RecvRow, SendBatch, LastCallback
  <2> QED BY <1>5, <1>t, <2>1, ComQueryStep, RecvRowStep, SendBatchStep, LastCallbackStep
          DEF HandlerInv
<1>6. ASSUME NEW c \in Conns, Closing(c) PROVE q' \in [Conns -> Queries] /\ job' \in [Pids -> Jobs]
  BY <1>2, <1>6 DEF Closing, ConnectionClosed, CloseSession, CloseHandler, CloseProcs, CloseLocks,
     ComQueryStates
<1>7. ASSUME NEW c \in Conns, Killing(c) PROVE q' \in [Conns -> Queries] /\ job' \in [Pids -> Jobs]
  BY <1>2, <1>3, <1>7 DEF Killing, HandleKill, KillRemove, KillSession, KillClose, ComQueryStates
<1>8. ASSUME NEW c \in Conns,
             AddProcess(c) \/ RunFails(c) \/ UnlockFails(c) \/ Run(c) \/ LookupConn(c) \/ RecvErr(c)
             \/ Timeout(c) \/ CloseRows(c)
      PROVE  q' \in [Conns -> Queries] /\ job' \in [Pids -> Jobs]
  BY <1>2, <1>3, <1>8 DEF AddProcess, RunFails, UnlockFails, Run, LookupConn, RecvErr, Timeout, CloseRows,
     ComQueryStates
<1>9. ASSUME NEW c \in Conns, Accept(c) \/ NewConnection(c) \/ Hangup(c)
      PROVE  q' \in [Conns -> Queries] /\ job' \in [Pids -> Jobs]
  BY <1>1, <1>9 DEF Accept, NewConnection, Hangup
<1>10. ASSUME NEW i \in Pids, Goroutine(i)
       PROVE  q' \in [Conns -> Queries] /\ job' \in [Pids -> Jobs]
  BY <1>1, <1>10 DEF Goroutine, ReaderQuit, ReaderNext, CheckerLook, IndexCreated
<1>11. CASE UNCHANGED vars BY <1>1, <1>11 DEF vars
<1> QED BY <1>4, <1>5, <1>6, <1>7, <1>8, <1>9, <1>10, <1>11 DEF Next, Querying

\* UnlockTables keeps the types of the locks.
LEMMA UnlockTypes ==
  ASSUME TypeOK, NEW c \in Conns, NEW failed \in SUBSET Recorded(c), UnlockTables(c, failed)
  PROVE  /\ locks' \subseteq Conns \X Tables /\ owner' \in [Tables -> Conns \cup {None}]
         /\ stuck' \subseteq Tables
BY DEF TypeOK, UnlockTables, Recorded

\* Every step keeps the types of the server.
LEMMA TypeStep == TypeOK /\ HandlerInv /\ [Next]_vars => TypeOK'
<1> SUFFICES ASSUME TypeOK, HandlerInv, [Next]_vars PROVE TypeOK'
  OBVIOUS
<1>q. q' \in [Conns -> Queries] /\ job' \in [Pids -> Jobs] BY CommandTypes
<1> USE <1>q DEF TypeOK, connVars, sessVars, procVars, goVars, lockVars
<1>1. ASSUME NEW c \in Conns, Accept(c) PROVE TypeOK'
  BY <1>1 DEF Accept
<1>2. ASSUME NEW c \in Conns, NewConnection(c) PROVE TypeOK'
  BY <1>2 DEF NewConnection, Last, Front
<1>3. ASSUME NEW c \in Conns, Hangup(c) PROVE TypeOK'
  BY <1>3 DEF Hangup
<1>4. ASSUME NEW c \in Conns, ComQuery(c) PROVE TypeOK'
  BY <1>4 DEF ComQuery
<1>5. ASSUME NEW c \in Conns, ConnectionClosed(c) PROVE TypeOK'
  BY <1>5 DEF ConnectionClosed
<1>6. ASSUME NEW c \in Conns, CloseSession(c) PROVE TypeOK'
  BY <1>6 DEF CloseSession, CloseConn
<1>7. ASSUME NEW c \in Conns, CloseHandler(c) PROVE TypeOK'
  BY <1>7 DEF CloseHandler
<1>8. ASSUME NEW c \in Conns, CloseProcs(c) PROVE TypeOK'
  BY <1>8 DEF CloseProcs, KillOnlyQueries, ProcsOf
<1>9. ASSUME NEW c \in Conns, CloseLocks(c) PROVE TypeOK'
  BY <1>9, UnlockTypes DEF CloseLocks
<1>10. ASSUME NEW c \in Conns, HandleKill(c) PROVE TypeOK'
  BY <1>10 DEF HandleKill, Kill, ProcsOf
<1>11. ASSUME NEW c \in Conns, KillRemove(c) PROVE TypeOK'
  BY <1>11 DEF KillRemove
<1>12. ASSUME NEW c \in Conns, KillClose(c) PROVE TypeOK'
  <2>1. q[c].target \in Conns BY <1>12 DEF KillClose, HandlerInv, PidsOwned, At
  <2> QED BY <1>12, <2>1 DEF KillClose
<1>12s. ASSUME NEW c \in Conns, KillSession(c) PROVE TypeOK'
  BY <1>12s DEF KillSession, CloseConn
<1>13. ASSUME NEW c \in Conns, NextPid(c) PROVE TypeOK'
  BY <1>13, PidAvailable DEF NextPid, HandlerInv, Pids
<1>14. ASSUME NEW c \in Conns, AddProcess(c) PROVE TypeOK'
  BY <1>14, PidGiven DEF AddProcess, HandlerInv, At, CommandStates
<1>15. ASSUME NEW c \in Conns, RunFails(c) PROVE TypeOK'
  BY <1>15 DEF RunFails, Done
<1>15u. ASSUME NEW c \in Conns, UnlockFails(c) PROVE TypeOK'
  BY <1>15u, UnlockTypes DEF UnlockFails, Done
<1>16. ASSUME NEW c \in Conns, Run(c) PROVE TypeOK'
  <2>1. indexer' \in [Pids -> {"none", "run", "done"}] BY <1>16 DEF Run
  <2>2. procs' \subseteq Pids /\ cancelled' \subseteq Pids BY <1>16 DEF Run, Done
  <2>3. ASSUME LockTables(c)
        PROVE  /\ locks' \subseteq Conns \X Tables /\ owner' \in [Tables -> Conns \cup {None}]
               /\ stuck' \subseteq Tables
    <3>1. PICK t \in Tables :
            /\ owner' = [owner EXCEPT ![t] = IF @ = None THEN c ELSE @]
            /\ locks' = IF owner[t] \in {None, c} THEN locks \cup {<<c, t>>} ELSE locks
      BY <2>3 DEF LockTables
    <3>2. locks' \subseteq Conns \X Tables BY <3>1
    <3>3. owner' \in [Tables -> Conns \cup {None}] BY <3>1
    <3> QED BY <2>3, <3>2, <3>3 DEF LockTables
  <2>4. /\ locks' \subseteq Conns \X Tables /\ owner' \in [Tables -> Conns \cup {None}]
        /\ stuck' \subseteq Tables
    BY <1>16, <2>3, UnlockTypes DEF Run
  <2> QED BY <1>16, <2>1, <2>2, <2>4 DEF Run
<1>17. ASSUME NEW c \in Conns, LookupConn(c) PROVE TypeOK'
  BY <1>17 DEF LookupConn
<1>18. ASSUME NEW c \in Conns, RecvRow(c) PROVE TypeOK'
  BY <1>18, PidGiven DEF RecvRow, Quit, InLoop, HandlerInv, At, CommandStates
<1>19. ASSUME NEW c \in Conns, RecvErr(c) PROVE TypeOK'
  <2>1. q[c].pid \in Pids BY <1>19, PidGiven DEF RecvErr, InLoop, HandlerInv, At, CommandStates
  <2>2. quit' \subseteq Pids BY <1>19, <2>1 DEF RecvErr, Quit
  <2>3. reader' \in [Pids -> {"none", "check", "next", "row", "eof", "err", "done"}]
    BY <1>19 DEF RecvErr
  <2>4. checker' \in [Pids -> Conns \cup {"none", "err", "done"}] BY <1>19 DEF RecvErr
  <2> QED BY <1>19, <2>2, <2>3, <2>4 DEF RecvErr
<1>20. ASSUME NEW c \in Conns, Timeout(c) PROVE TypeOK'
  BY <1>20, PidGiven DEF Timeout, Quit, InLoop, HandlerInv, At, CommandStates
<1>21. ASSUME NEW c \in Conns, SendBatch(c) PROVE TypeOK'
  BY <1>21, PidGiven DEF SendBatch, Quit, HandlerInv, At, CommandStates
<1>22. ASSUME NEW c \in Conns, CloseRows(c) PROVE TypeOK'
  BY <1>22, PidGiven DEF CloseRows, Done, Quit, HandlerInv, At, CommandStates
<1>23. ASSUME NEW c \in Conns, LastCallback(c) PROVE TypeOK'
  BY <1>23 DEF LastCallback
<1>24. ASSUME NEW i \in Pids, ReaderQuit(i) PROVE TypeOK'
  BY <1>24 DEF ReaderQuit
<1>25. ASSUME NEW i \in Pids, ReaderNext(i) PROVE TypeOK'
  <2>1. job[i].rows \in 0..(MaxRows + 1)
    <3>1. job[i] \in Jobs OBVIOUS
    <3> QED BY <3>1 DEF Jobs
  <2>2. taken' \in [Pids -> 0..(MaxRows + 1)]
    <3>1. CASE UNCHANGED taken BY <3>1
    <3>2. CASE taken[i] < job[i].rows /\ taken' = [taken EXCEPT ![i] = @ + 1]
      BY <2>1, <3>2, BoundsAssumption
    <3> QED BY <1>25, <3>1, <3>2 DEF ReaderNext
  <2>3. procs' \subseteq Pids /\ cancelled' \subseteq Pids BY <1>25 DEF ReaderNext, Done
  <2>4. reader' \in [Pids -> {"none", "check", "next", "row", "eof", "err", "done"}]
    <3>1. PICK r \in {"row", "eof", "err"} : reader' = [reader EXCEPT ![i] = r]
      BY <1>25 DEF ReaderNext
    <3> QED BY <3>1
  <2>5. UNCHANGED <<connVars, sessVars, job, q, checker, quit, indexer, lockVars>>
    BY <1>25 DEF ReaderNext
  <2> QED BY <2>2, <2>3, <2>4, <2>5
<1>26. ASSUME NEW i \in Pids, CheckerLook(i) PROVE TypeOK'
  BY <1>26 DEF CheckerLook
<1>27. ASSUME NEW i \in Pids, IndexCreated(i) PROVE TypeOK'
  BY <1>27 DEF IndexCreated, Done
<1>28. CASE UNCHANGED vars BY <1>28 DEF vars
<1> QED
  BY <1>1, <1>2, <1>3, <1>4, <1>5, <1>6, <1>7, <1>8, <1>9, <1>10, <1>11, <1>12, <1>13, <1>14,
    <1>12s, <1>15, <1>15u, <1>16, <1>17, <1>18, <1>19, <1>20, <1>21, <1>22, <1>23, <1>24, <1>25, <1>26, <1>27,
    <1>28 DEF Next, Closing, Killing, Querying, Goroutine

-----------------------------------------------------------------------------
(***************************************************************************)
(* What the steps leave alone                                              *)
(***************************************************************************)
\* The steps that serve a command keep its pid.
LEMMA ServingStep ==
  ASSUME TypeOK, HandlerInv, NEW c \in Conns, Killing(c) \/ Querying(c), ~NextPid(c)
  PROVE  /\ OthersKept(c) /\ CommandKept(c)
         /\ q[c].pc \in CommandStates
         /\ q'[c].pc \in (CommandStates \ {"kill", "addProcess"}) \cup {"idle"}
         /\ UNCHANGED <<conn, lc, broken, pid, job>>
<1>t. q \in [Conns -> Queries] BY DEF TypeOK
<1> USE DEF connVars, sessVars, At, CommandStates
<1>1. CASE Killing(c)
  <2> USE DEF CloseConn
  <2>1. CASE HandleKill(c) BY <1>t, <2>1, GotoStep, ReturnStep DEF HandleKill, ComQueryStates
  <2>2. CASE KillRemove(c) BY <1>t, <2>2, GotoStep, ReturnStep DEF KillRemove, ComQueryStates
  <2>3. CASE KillClose(c) BY <1>t, <2>3, ReturnStep DEF KillClose
  <2>4. CASE KillSession(c) BY <1>t, <2>4, GotoStep DEF KillSession, ComQueryStates
  <2> QED BY <1>1, <2>1, <2>2, <2>3, <2>4 DEF Killing
<1>2. CASE AddProcess(c) BY <1>t, <1>2, GotoStep DEF AddProcess, ComQueryStates
<1>3. CASE RunFails(c) \/ UnlockFails(c) BY <1>t, <1>3, ReturnStep DEF RunFails, UnlockFails
<1>4. CASE Run(c) BY <1>t, <1>4, GotoStep DEF Run, ComQueryStates
<1>5. CASE LookupConn(c) BY <1>t, <1>5, GotoStep, ReturnStep DEF LookupConn, ComQueryStates
<1>6. CASE RecvRow(c) BY <1>6, RecvRowStep DEF RecvRow, InLoop
<1>7. CASE RecvErr(c) BY <1>t, <1>7, GotoStep, ReturnStep DEF RecvErr, InLoop, ComQueryStates
<1>8. CASE Timeout(c) BY <1>t, <1>8, ReturnStep DEF Timeout, InLoop
<1>9. CASE SendBatch(c) BY <1>9, SendBatchStep DEF SendBatch, HandlerInv
<1>10. CASE CloseRows(c) BY <1>t, <1>10, GotoStep, ReturnStep DEF CloseRows, ComQueryStates
<1>11. CASE LastCallback(c) BY <1>11, LastCallbackStep DEF LastCallback, HandlerInv
<1> QED BY <1>1, <1>2, <1>3, <1>4, <1>5, <1>6, <1>7, <1>8, <1>9, <1>10, <1>11 DEF Querying

\* The steps of ConnectionClosed start and end outside of a command, and keep what is
\* known of the last one.
LEMMA ClosingStep ==
  ASSUME TypeOK, NEW c \in Conns, Closing(c)
  PROVE  /\ OthersKept(c) /\ CommandKept(c) /\ RowsKept(c) /\ q'[c].res = q[c].res
         /\ q[c].pc \in {"idle"} \cup ClosingStates /\ q'[c].pc \in {"idle"} \cup ClosingStates
         /\ UNCHANGED <<lc, broken, pid, job, reader, taken, indexer>>
<1>t. q \in [Conns -> Queries] BY DEF TypeOK
<1> USE <1>t, GotoStep DEF connVars, sessVars, goVars, At, ClosingStates, ComQueryStates
<1>1. CASE ConnectionClosed(c) BY <1>1 DEF ConnectionClosed
<1>2. CASE CloseSession(c) BY <1>2 DEF CloseSession, CloseConn
<1>3. CASE CloseHandler(c) BY <1>3 DEF CloseHandler
<1>4. CASE CloseProcs(c) BY <1>4 DEF CloseProcs
<1>5. CASE CloseLocks(c) BY <1>5 DEF CloseLocks
<1> QED BY <1>1, <1>2, <1>3, <1>4, <1>5 DEF Closing

\* The goroutines leave the commands of the connections alone.
LEMMA GoroutineStep ==
  ASSUME NEW i \in Pids, Goroutine(i)
  PROVE  UNCHANGED <<connVars, sessVars, job, q, lockVars>>
BY DEF Goroutine, ReaderQuit, ReaderNext, CheckerLook, IndexCreated

\* Only Engine.Query adds a process, and only that of its own command.
LEMMA ProcessAdded ==
  ASSUME [Next]_vars, NEW i \in Pids, i \in procs', i \notin procs
  PROVE  \E c \in Conns : AddProcess(c) /\ q[c].pid = i
<1> USE DEF procVars
<1>1. ASSUME NEW j \in Pids, Goroutine(j) PROVE FALSE
  BY <1>1 DEF Goroutine, ReaderQuit, ReaderNext, CheckerLook, IndexCreated, Done
<1>2. ASSUME NEW c \in Conns, Closing(c) PROVE FALSE
  BY <1>2 DEF Closing, ConnectionClosed, CloseSession, CloseHandler, CloseProcs, CloseLocks,
     KillOnlyQueries
<1>3. ASSUME NEW c \in Conns, Killing(c) PROVE FALSE
  BY <1>3 DEF Killing, HandleKill, KillRemove, KillSession, KillClose, Kill
<1>4. ASSUME NEW c \in Conns, Querying(c), ~AddProcess(c) PROVE FALSE
  BY <1>4 DEF Querying, NextPid, RunFails, UnlockFails, Run, LookupConn, RecvRow, RecvErr, Timeout, SendBatch,
     CloseRows, LastCallback, Done
<1>5. ASSUME NEW c \in Conns, Accept(c) \/ NewConnection(c) \/ Hangup(c) \/ ComQuery(c) PROVE FALSE
  BY <1>5 DEF Accept, NewConnection, Hangup, ComQuery
<1>6. ASSUME NEW c \in Conns, AddProcess(c) PROVE q[c].pid = i BY <1>6 DEF AddProcess
<1>7. CASE UNCHANGED vars BY <1>7 DEF vars
<1> QED BY <1>1, <1>2, <1>3, <1>4, <1>5, <1>6, <1>7 DEF Next

\* The reader of a command is started by its lookup of the connection, once.
LEMMA ReaderStarted ==
  ASSUME TypeOK, [Next]_vars, NEW i \in Pids, reader[i] = "none", reader'[i] # "none"
  PROVE  \E c \in Conns : LookupConn(c) /\ q[c].pid = i
<1> USE DEF goVars, TypeOK
<1>1. ASSUME NEW j \in Pids, Goroutine(j) PROVE FALSE
  BY <1>1 DEF Goroutine, ReaderQuit, ReaderNext, CheckerLook, IndexCreated
<1>2. ASSUME NEW c \in Conns, Closing(c) \/ Killing(c) PROVE FALSE
  BY <1>2 DEF Closing, ConnectionClosed, CloseSession, CloseHandler, CloseProcs, CloseLocks,
     Killing, HandleKill, KillRemove, KillSession, KillClose
<1>3. ASSUME NEW c \in Conns, Querying(c), ~LookupConn(c) PROVE FALSE
  <2>1. CASE RecvRow(c) BY <2>1 DEF RecvRow
  <2>2. CASE RecvErr(c) BY <2>2 DEF RecvErr
  <2> QED BY <1>3, <2>1, <2>2 DEF Querying, NextPid, AddProcess, RunFails, UnlockFails, Run, Timeout, SendBatch,
     CloseRows, LastCallback
<1>4. ASSUME NEW c \in Conns, Accept(c) \/ NewConnection(c) \/ Hangup(c) \/ ComQuery(c) PROVE FALSE
  BY <1>4 DEF Accept, NewConnection, Hangup, ComQuery
<1>5. ASSUME NEW c \in Conns, LookupConn(c) PROVE q[c].pid = i BY <1>5 DEF LookupConn
<1>6. CASE UNCHANGED vars BY <1>6 DEF vars
<1> QED BY <1>1, <1>2, <1>3, <1>4, <1>5, <1>6 DEF Next

\* Only the reader takes rows.
LEMMA RowTaken ==
  ASSUME TypeOK, [Next]_vars, NEW i \in Pids, taken'[i] # taken[i]
  PROVE  ReaderNext(i) /\ taken[i] < job[i].rows /\ taken'[i] = taken[i] + 1 /\ reader'[i] = "row"
<1> USE DEF goVars, TypeOK
<1>1. ASSUME NEW j \in Pids, Goroutine(j), ~ReaderNext(j) PROVE FALSE
  BY <1>1 DEF Goroutine, ReaderQuit, CheckerLook, IndexCreated
<1>2. ASSUME NEW c \in Conns, Closing(c) \/ Killing(c) PROVE FALSE
  BY <1>2 DEF Closing, ConnectionClosed, CloseSession, CloseHandler, CloseProcs, CloseLocks,
     Killing, HandleKill, KillRemove, KillSession, KillClose
<1>3. ASSUME NEW c \in Conns, Querying(c) PROVE FALSE
  BY <1>3 DEF Querying, NextPid, AddProcess, RunFails, UnlockFails, Run, LookupConn, RecvRow, RecvErr, Timeout,
     SendBatch, CloseRows, LastCallback
<1>4. ASSUME NEW c \in Conns, Accept(c) \/ NewConnection(c) \/ Hangup(c) \/ ComQuery(c) PROVE FALSE
  BY <1>4 DEF Accept, NewConnection, Hangup, ComQuery
<1>5. ASSUME NEW j \in Pids, ReaderNext(j)
      PROVE  j = i /\ taken[i] < job[i].rows /\ taken'[i] = taken[i] + 1 /\ reader'[i] = "row"
  BY <1>5 DEF ReaderNext
<1>6. CASE UNCHANGED vars BY <1>6 DEF vars
<1> QED BY <1>1, <1>2, <1>3, <1>4, <1>5, <1>6 DEF Next

\* An indexer is started by the run of its command, and then only ends.
LEMMA IndexerStarted ==
  ASSUME TypeOK, [Next]_vars, NEW i \in Pids, indexer'[i] # indexer[i]
  PROVE  \/ indexer[i] = "run" /\ indexer'[i] = "done"
         \/ \E c \in Conns : Run(c) /\ q[c].pid = i /\ q[c].kind = "indexAsync"
<1> USE DEF goVars, TypeOK
<1>1. ASSUME NEW j \in Pids, Goroutine(j) PROVE indexer[i] = "run" /\ indexer'[i] = "done"
  BY <1>1 DEF Goroutine, ReaderQuit, ReaderNext, CheckerLook, IndexCreated
<1>2. ASSUME NEW c \in Conns, Closing(c) \/ Killing(c) PROVE FALSE
  BY <1>2 DEF Closing, ConnectionClosed, CloseSession, CloseHandler, CloseProcs, CloseLocks,
     Killing, HandleKill, KillRemove, KillSession, KillClose
<1>3. ASSUME NEW c \in Conns, Querying(c), ~Run(c) PROVE FALSE
  BY <1>3 DEF Querying, NextPid, AddProcess, RunFails, UnlockFails, LookupConn, RecvRow, RecvErr, Timeout,
     SendBatch, CloseRows, LastCallback
<1>4. ASSUME NEW c \in Conns, Accept(c) \/ NewConnection(c) \/ Hangup(c) \/ ComQuery(c) PROVE FALSE
  BY <1>4 DEF Accept, NewConnection, Hangup, ComQuery
<1>5. ASSUME NEW c \in Conns, Run(c) PROVE q[c].pid = i /\ q[c].kind = "indexAsync" BY <1>5 DEF Run
<1>6. CASE UNCHANGED vars BY <1>6 DEF vars
<1> QED BY <1>1, <1>2, <1>3, <1>4, <1>5, <1>6 DEF Next

\* A step that changes the command of a connection is a step of that connection.
LEMMA OwnStep ==
  ASSUME TypeOK, HandlerInv, [Next]_vars, NEW d \in Conns, q'[d] # q[d]
  PROVE  ComQuery(d) \/ Closing(d) \/ Killing(d) \/ Querying(d)
<1>t. q \in [Conns -> Queries] BY DEF TypeOK
<1>1. ASSUME NEW c \in Conns, OthersKept(c) PROVE c = d BY <1>1 DEF OthersKept
<1>2. ASSUME NEW c \in Conns, ComQuery(c) PROVE c = d BY <1>1, <1>2, <1>t, ComQueryStep
<1>3. ASSUME NEW c \in Conns, Closing(c) PROVE c = d BY <1>1, <1>3, ClosingStep
<1>4. ASSUME NEW c \in Conns, Killing(c) \/ Querying(c) PROVE c = d
  BY <1>1, <1>4, ServingStep, NextPidStep DEF HandlerInv
<1>5. ASSUME NEW c \in Conns, Accept(c) \/ NewConnection(c) \/ Hangup(c) PROVE FALSE
  BY <1>5 DEF Accept, NewConnection, Hangup
<1>6. ASSUME NEW i \in Pids, Goroutine(i) PROVE FALSE BY <1>6, GoroutineStep
<1>7. CASE UNCHANGED vars BY <1>7 DEF vars
<1> QED BY <1>2, <1>3, <1>4, <1>5, <1>6, <1>7 DEF Next

\* A command runs on one connection.
LEMMA OneConnection ==
  ASSUME PidsOwned, NEW c \in Conns, NEW d \in Conns, q[c].pid = q[d].pid, q[c].pid # 0
  PROVE  c = d
BY DEF PidsOwned

\* What is known of a command does not change once it has its pid.
LEMMA JobKept ==
  ASSUME TypeOK, HandlerInv, [Next]_vars
  PROVE  /\ pid' >= pid
         /\ \A i \in Pids : i <= pid => job'[i] = job[i]
         /\ job' = job \/ \E c \in Conns : NextPid(c)
<1>t. q \in [Conns -> Queries] /\ pid \in 0..MaxPid BY DEF TypeOK
<1>1. CASE UNCHANGED <<pid, job>> BY <1>1, <1>t
<1>2. ASSUME NEW c \in Conns, NextPid(c)
      PROVE  pid' >= pid /\ \A i \in Pids : i <= pid => job'[i] = job[i]
  <2>1. pid' = pid + 1 BY <1>2 DEF NextPid
  <2>2. \A i \in Pids \ {pid + 1} : job'[i] = job[i] BY <1>2, NextPidStep DEF HandlerInv
  <2> QED BY <2>1, <2>2, <1>t DEF Pids
<1>3. ASSUME NEW c \in Conns, Killing(c) \/ Querying(c), ~NextPid(c) PROVE UNCHANGED <<pid, job>>
  BY <1>3, ServingStep
<1>4. ASSUME NEW c \in Conns, Closing(c) PROVE UNCHANGED <<pid, job>> BY <1>4, ClosingStep
<1>5. ASSUME NEW c \in Conns, Accept(c) \/ NewConnection(c) \/ Hangup(c) \/ ComQuery(c)
      PROVE  UNCHANGED <<pid, job>>
  BY <1>5 DEF Accept, NewConnection, Hangup, ComQuery, sessVars
<1>6. ASSUME NEW i \in Pids, Goroutine(i) PROVE UNCHANGED <<pid, job>>
  BY <1>6, GoroutineStep DEF sessVars
<1>7. CASE UNCHANGED vars BY <1>1, <1>7 DEF vars
<1> QED BY <1>1, <1>2, <1>3, <1>4, <1>5, <1>6, <1>7 DEF Next

\* A reader that was started stays so, and meets io.EOF after all rows.
LEMMA ReaderStays ==
  ASSUME TypeOK, [Next]_vars, NEW i \in Pids
  PROVE  /\ reader[i] # "none" => reader'[i] # "none"
         /\ reader'[i] = "eof" => reader[i] = "eof" \/ (ReaderNext(i) /\ taken[i] = job[i].rows)
<1> USE DEF goVars, TypeOK
<1>0. CASE UNCHANGED reader BY <1>0
<1>1. ASSUME NEW j \in Pids, Goroutine(j)
      PROVE  /\ reader[i] # "none" => reader'[i] # "none"
             /\ reader'[i] = "eof" => reader[i] = "eof" \/ (ReaderNext(i) /\ taken[i] = job[i].rows)
  <2>1. CASE ReaderQuit(j) BY <2>1 DEF ReaderQuit
  <2>2. CASE ReaderNext(j) BY <2>2 DEF ReaderNext
  <2>3. CASE CheckerLook(j) \/ IndexCreated(j) BY <2>3 DEF CheckerLook, IndexCreated
  <2> QED BY <1>1, <2>1, <2>2, <2>3 DEF Goroutine
<1>2. ASSUME NEW c \in Conns, Closing(c) \/ Killing(c) PROVE UNCHANGED reader
  BY <1>2 DEF Closing, ConnectionClosed, CloseSession, CloseHandler, CloseProcs, CloseLocks,
     Killing, HandleKill, KillRemove, KillSession, KillClose
<1>3. ASSUME NEW c \in Conns, Querying(c)
      PROVE  /\ reader[i] # "none" => reader'[i] # "none"
             /\ reader'[i] = "eof" => reader[i] = "eof"
  <2>1. CASE RecvRow(c) BY <2>1 DEF RecvRow
  <2>2. CASE RecvErr(c) BY <2>2 DEF RecvErr
  <2>3. CASE LookupConn(c) BY <2>3 DEF LookupConn
  <2> QED BY <1>3, <2>1, <2>2, <2>3 DEF Querying, NextPid, AddProcess, RunFails, UnlockFails, Run, Timeout,
     SendBatch, CloseRows, LastCallback
<1>4. ASSUME NEW c \in Conns, Accept(c) \/ NewConnection(c) \/ Hangup(c) \/ ComQuery(c)
      PROVE  UNCHANGED reader
  BY <1>4 DEF Accept, NewConnection, Hangup, ComQuery
<1>5. CASE UNCHANGED vars BY <1>5 DEF vars
<1> QED BY <1>0, <1>1, <1>2, <1>3, <1>4, <1>5 DEF Next

-----------------------------------------------------------------------------
(***************************************************************************)
(* The inductive invariant, part by part                                   *)
(***************************************************************************)
LEMMA PidsLeftStep ==
  ASSUME TypeOK, HandlerInv, [Next]_vars
  PROVE  PidsLeft'
<1> DEFINE W == {d \in Conns : At(d, "pid")}
<1>t. q \in [Conns -> Queries] /\ pid \in Nat /\ MaxPid \in Nat BY BoundsAssumption DEF TypeOK
<1>w. IsFiniteSet(W) /\ Cardinality(W) \in Nat /\ IsFiniteSet(W') /\ Cardinality(W') \in Nat
  <2>1. W \subseteq Conns /\ W' \subseteq Conns OBVIOUS
  <2> QED BY <2>1, FS_Subset, FS_CardinalityType, BoundsAssumption
<1>i. pid + Cardinality(W) <= MaxPid BY DEF HandlerInv, PidsLeft
<1>p. SUFFICES pid' + Cardinality(W') <= MaxPid BY DEF PidsLeft
<1>1. ASSUME UNCHANGED pid, \A d \in Conns : At(d, "pid")' => At(d, "pid")
      PROVE  pid' + Cardinality(W') <= MaxPid
  <2>1. W' \subseteq W BY <1>1
  <2>2. Cardinality(W') <= Cardinality(W) BY <2>1, <1>w, FS_Subset
  <2> HIDE DEF W
  <2> QED BY <1>1, <1>i, <1>t, <1>w, <2>2
<1>2. ASSUME NEW c \in Conns, NextPid(c) PROVE pid' + Cardinality(W') <= MaxPid
  <2>1. OthersKept(c) /\ q'[c].pc # "pid" BY <1>2, NextPidStep DEF HandlerInv
  <2>2. W' = W \ {c} /\ c \in W
    <3>1. At(c, "pid") /\ ~At(c, "pid")' BY <1>2, <2>1 DEF NextPid, At
    <3>2. \A d \in Conns \ {c} : At(d, "pid")' <=> At(d, "pid") BY <2>1 DEF OthersKept, At
    <3> QED BY <3>1, <3>2
  <2>3. Cardinality(W') = Cardinality(W) - 1 BY <2>2, <1>w, FS_RemoveElement
  <2>4. pid' = pid + 1 BY <1>2 DEF NextPid
  <2> HIDE DEF W
  <2> QED BY <1>i, <1>t, <1>w, <2>3, <2>4
<1>3. ASSUME NEW c \in Conns, ComQuery(c) PROVE pid' + Cardinality(W') <= MaxPid
  <2>1. W' = W \/ W' = W \cup {c} BY <1>3, <1>t, ComQueryStep DEF OthersKept, At
  <2>2. Cardinality(W') <= Cardinality(W) + 1
    <3> HIDE DEF W
    <3>1. Cardinality(W \cup {c}) = IF c \in W THEN Cardinality(W) ELSE Cardinality(W) + 1
      BY <1>w, FS_AddElement
    <3>2. Cardinality(W') = Cardinality(W) \/ Cardinality(W') = Cardinality(W \cup {c})
      BY <2>1, Zenon
    <3> QED BY <1>w, <3>1, <3>2
  <2>3. pid' = pid /\ pid + Cardinality(W) < MaxPid BY <1>3 DEF ComQuery
  <2> HIDE DEF W
  <2> QED BY <1>t, <1>w, <2>2, <2>3
<1>4. ASSUME NEW c \in Conns, Killing(c) \/ Querying(c), ~NextPid(c)
      PROVE  pid' + Cardinality(W') <= MaxPid
  BY <1>1, <1>4, ServingStep DEF OthersKept, CommandStates, At
<1>5. ASSUME NEW c \in Conns, Closing(c) PROVE pid' + Cardinality(W') <= MaxPid
  BY <1>1, <1>5, ClosingStep DEF OthersKept, ClosingStates, At
<1>6. ASSUME UNCHANGED <<q, pid>> PROVE pid' + Cardinality(W') <= MaxPid BY <1>1, <1>6 DEF At
<1>7. ASSUME NEW c \in Conns, Accept(c) \/ NewConnection(c) \/ Hangup(c)
      PROVE  pid' + Cardinality(W') <= MaxPid
  BY <1>6, <1>7 DEF Accept, NewConnection, Hangup, sessVars
<1>8. ASSUME NEW i \in Pids, Goroutine(i) PROVE pid' + Cardinality(W') <= MaxPid
  BY <1>6, <1>8, GoroutineStep DEF sessVars
<1>9. CASE UNCHANGED vars BY <1>6, <1>9 DEF vars
<1> HIDE DEF W
<1> QED BY <1>2, <1>3, <1>4, <1>5, <1>7, <1>8, <1>9 DEF Next

\* Every step keeps the states of ConnectionClosed with the connection that is closing.
LEMMA PhasesStep ==
  ASSUME TypeOK, HandlerInv, [Next]_vars
  PROVE  Phases'
<1>t. q \in [Conns -> Queries] /\ conn \in [Conns -> {"none", "accepted", "open", "closing", "closed"}]
  BY DEF TypeOK
<1> USE DEF HandlerInv, Phases, At
<1>1. ASSUME UNCHANGED <<q, conn>> PROVE Phases' BY <1>1
<1>2. ASSUME NEW c \in Conns, UNCHANGED conn, OthersKept(c), q'[c].pc \notin ClosingStates,
             conn[c] \notin {"none", "accepted", "closed"}
      PROVE  Phases'
  BY <1>2 DEF OthersKept
<1>3. ASSUME NEW c \in Conns, Killing(c) \/ Querying(c), ~NextPid(c) PROVE Phases'
  BY <1>2, <1>3, ServingStep DEF CommandStates, ClosingStates
<1>4. ASSUME NEW c \in Conns, NextPid(c) PROVE Phases'
  <2>1. UNCHANGED conn BY <1>4 DEF NextPid, connVars
  <2> QED BY <1>2, <1>4, <2>1, NextPidStep DEF NextPid, ClosingStates
<1>5. ASSUME NEW c \in Conns, ComQuery(c) PROVE Phases'
  <2>1. UNCHANGED conn /\ conn[c] = "open" BY <1>5 DEF ComQuery, connVars
  <2> QED BY <1>1, <1>2, <1>5, <1>t, <2>1, ComQueryStep DEF ClosingStates
<1>6. ASSUME NEW c \in Conns, Closing(c) PROVE Phases'
  <2> USE <1>t, GotoStep DEF connVars, OthersKept, ComQueryStates, ClosingStates
  <2>1. CASE ConnectionClosed(c) BY <2>1 DEF ConnectionClosed
  <2>2. CASE CloseSession(c) BY <2>2 DEF CloseSession
  <2>3. CASE CloseHandler(c) BY <2>3 DEF CloseHandler
  <2>4. CASE CloseProcs(c) BY <2>4 DEF CloseProcs
  <2>5. CASE CloseLocks(c) BY <2>5 DEF CloseLocks
  <2> QED BY <1>6, <2>1, <2>2, <2>3, <2>4, <2>5 DEF Closing
<1>7. ASSUME NEW c \in Conns, Accept(c) \/ NewConnection(c) \/ Hangup(c) PROVE Phases'
  BY <1>7, <1>t DEF Accept, NewConnection, Hangup, ClosingStates
<1>8. ASSUME NEW i \in Pids, Goroutine(i) PROVE Phases' BY <1>1, <1>8, GoroutineStep DEF connVars
<1>9. CASE UNCHANGED vars BY <1>1, <1>9 DEF vars
<1> QED BY <1>3, <1>4, <1>5, <1>6, <1>7, <1>8, <1>9 DEF Next

\* Every step keeps a pid with the command that nextPid gave it to.
LEMMA PidsOwnedStep ==
  ASSUME TypeOK, HandlerInv, [Next]_vars
  PROVE  PidsOwned'
<1>t. q \in [Conns -> Queries] /\ pid \in 0..MaxPid /\ job \in [Pids -> Jobs]
  BY DEF TypeOK
<1>n. pid' \in 0..MaxPid BY TypeStep DEF TypeOK
<1>b. \A d \in Conns : q[d].pid \in 0..MaxPid
  <2>1. \A d \in Conns : q[d] \in Queries BY <1>t
  <2> QED BY <2>1 DEF Queries
<1>o. PidsOwned BY DEF HandlerInv
<1>u. ASSUME NEW i \in Pids, pid' >= pid, i > pid'
      PROVE  i \notin procs' /\ reader'[i] = "none" /\ indexer'[i] = "none"
  <2>1. i > pid /\ i \notin procs /\ reader[i] = "none" /\ indexer[i] = "none"
    BY <1>o, <1>t, <1>n, <1>u, BoundsAssumption DEF PidsOwned, Pids, TypeOK
  <2>2. ASSUME NEW c \in Conns, q[c].pc \in CommandStates PROVE q[c].pid # i
    BY <1>o, <1>b, <1>t, <2>1, <2>2 DEF PidsOwned, Pids
  <2>3. i \notin procs' BY <2>1, <2>2, ProcessAdded DEF AddProcess, At, CommandStates
  <2>4. reader'[i] = "none" BY <2>1, <2>2, ReaderStarted DEF LookupConn, At, CommandStates
  <2>5. indexer'[i] = "none" BY <2>1, <2>2, IndexerStarted DEF Run, At, CommandStates
  <2> QED BY <2>3, <2>4, <2>5
<1> DEFINE Owned(d) ==
             /\ At(d, "pid") => q[d].pid = 0 /\ q[d].kind \in Kinds /\ q[d].target \in Conns
             /\ q[d].pc \in CommandStates => q[d].pid # 0
             /\ q[d].pc \in {"kill", "killRemove", "killSession", "killClose"} =>
                  q[d].kind \in {"killQuery", "killConn"} /\ q[d].target \in Conns
             /\ q[d].pid = 0 => q[d].res = None /\ q[d].sent = 0 /\ q[d].got = 0
             /\ q[d].pid # 0 =>
                  q[d].pid <= pid /\ job[q[d].pid].conn = d /\ job[q[d].pid].kind = q[d].kind
<1>w. \A d \in Conns : Owned(d) BY <1>o DEF PidsOwned
<1>s. ASSUME pid' >= pid, \A d \in Conns : Owned(d)' PROVE PidsOwned'
  <2> HIDE DEF Owned
  <2>1. \A d \in Conns : Owned(d)' BY <1>s
  <2> USE DEF Owned
  <2> QED BY <1>s, <1>u, <2>1 DEF PidsOwned
<1> USE DEF At
<1>1. ASSUME UNCHANGED <<q, pid, job>> PROVE PidsOwned'
  <2>1. \A d \in Conns : Owned(d)' BY <1>1, <1>w
  <2> QED BY <1>1, <1>s, <1>t, <2>1
<1>2. ASSUME NEW c \in Conns, Killing(c) \/ Querying(c), ~NextPid(c) PROVE PidsOwned'
  <2>1. /\ OthersKept(c) /\ CommandKept(c) /\ UNCHANGED <<pid, job>>
        /\ q[c].pc \in CommandStates
        /\ q'[c].pc \in (CommandStates \ {"kill", "addProcess"}) \cup {"idle"}
    BY <1>2, ServingStep
  <2>2. q'[c].pc \in {"killRemove", "killSession", "killClose"}
        => q[c].pc \in {"kill", "killRemove", "killSession", "killClose"}
    <3>1. CASE HandleKill(c) BY <3>1 DEF HandleKill
    <3>2. CASE KillRemove(c) BY <3>2 DEF KillRemove
    <3>3. CASE KillSession(c) \/ KillClose(c) BY <3>3 DEF KillSession, KillClose
    <3>4. CASE Querying(c)
      <4> USE <1>t, GotoStep, ReturnStep DEF ComQueryStates
      <4>1. CASE AddProcess(c) BY <4>1 DEF AddProcess
      <4>2. CASE RunFails(c) \/ UnlockFails(c) BY <4>2 DEF RunFails, UnlockFails
      <4>3. CASE Run(c) BY <4>3 DEF Run
      <4>4. CASE LookupConn(c) BY <4>4 DEF LookupConn
      <4>5. CASE RecvRow(c) BY <4>5, RecvRowStep
      <4>6. CASE RecvErr(c) BY <4>6 DEF RecvErr
      <4>7. CASE Timeout(c) BY <4>7 DEF Timeout
      <4>8. CASE SendBatch(c) BY <4>8, SendBatchStep DEF HandlerInv
      <4>9. CASE CloseRows(c) BY <4>9 DEF CloseRows
      <4>10. CASE LastCallback(c) BY <4>10, LastCallbackStep DEF HandlerInv
      <4> QED BY <1>2, <3>4, <4>1, <4>2, <4>3, <4>4, <4>5, <4>6, <4>7, <4>8, <4>9, <4>10 DEF Querying
    <3> QED BY <1>2, <3>1, <3>2, <3>3, <3>4 DEF Killing
  <2>3. Owned(c)' BY <1>w, <2>1, <2>2 DEF CommandKept, CommandStates
  <2>4. ASSUME NEW d \in Conns \ {c} PROVE Owned(d)' BY <1>w, <2>1, <2>4 DEF OthersKept
  <2> QED BY <1>s, <1>t, <2>1, <2>3, <2>4
<1>3. ASSUME NEW c \in Conns, NextPid(c) PROVE PidsOwned'
  <2>1. pid' = pid + 1 BY <1>3 DEF NextPid
  <2>2. Owned(c)'
    <3>1. /\ q'[c].pid = pid + 1 /\ q'[c].kind = q[c].kind /\ q'[c].target = q[c].target
          /\ q'[c].pc \in {"kill", "addProcess"}
          /\ q'[c].pc = "kill" => q[c].kind \in {"killQuery", "killConn"}
          /\ job'[pid + 1].conn = c /\ job'[pid + 1].kind = q[c].kind
      BY <1>3, NextPidStep DEF HandlerInv
    <3>2. q[c].target \in Conns BY <1>3, <1>w DEF NextPid
    <3> QED BY <1>t, <2>1, <3>1, <3>2 DEF CommandStates
  <2>3. ASSUME NEW d \in Conns \ {c} PROVE Owned(d)'
    <3>1. q'[d] = q[d] /\ \A i \in Pids \ {pid + 1} : job'[i] = job[i]
      BY <1>3, NextPidStep DEF HandlerInv, OthersKept
    <3>2. q[d].pid # 0 => q[d].pid \in Pids \ {pid + 1} BY <1>b, <1>t, <1>w DEF Pids
    <3> QED BY <1>b, <1>t, <1>w, <2>1, <3>1, <3>2
  <2> QED BY <1>s, <1>t, <2>1, <2>2, <2>3
<1>4. ASSUME NEW c \in Conns, ComQuery(c) PROVE PidsOwned'
  <2>1. UNCHANGED <<pid, job>> BY <1>4 DEF ComQuery
  <2>2. Owned(c)' BY <1>4, <1>t, <1>w, <2>1, ComQueryStep DEF CommandStates
  <2>3. ASSUME NEW d \in Conns \ {c} PROVE Owned(d)'
    BY <1>4, <1>t, <1>w, <2>1, ComQueryStep DEF OthersKept
  <2> QED BY <1>s, <1>t, <2>1, <2>2, <2>3
<1>5. ASSUME NEW c \in Conns, Closing(c) PROVE PidsOwned'
  <2>1. /\ OthersKept(c) /\ CommandKept(c) /\ RowsKept(c) /\ q'[c].res = q[c].res
        /\ q'[c].pc \in {"idle"} \cup ClosingStates /\ UNCHANGED <<pid, job>>
    BY <1>5, ClosingStep
  <2>2. Owned(c)' BY <1>w, <2>1 DEF CommandKept, RowsKept, CommandStates, ClosingStates
  <2>3. ASSUME NEW d \in Conns \ {c} PROVE Owned(d)' BY <1>w, <2>1 DEF OthersKept
  <2> QED BY <1>s, <1>t, <2>1, <2>2, <2>3
<1>6. ASSUME NEW c \in Conns, Accept(c) \/ NewConnection(c) \/ Hangup(c) PROVE PidsOwned'
  BY <1>1, <1>6 DEF Accept, NewConnection, Hangup, sessVars
<1>7. ASSUME NEW i \in Pids, Goroutine(i) PROVE PidsOwned' BY <1>1, <1>7, GoroutineStep DEF sessVars
<1>8. CASE UNCHANGED vars BY <1>1, <1>8 DEF vars
<1> QED BY <1>2, <1>3, <1>4, <1>5, <1>6, <1>7, <1>8 DEF Next

\* Before its goroutines are started a command has passed nothing on.
LEMMA NotStartedStep ==
  ASSUME TypeOK, HandlerInv, [Next]_vars
  PROVE  NotStarted'
<1>t. q \in [Conns -> Queries] /\ pid \in 0..MaxPid BY DEF TypeOK
<1>o. PidsOwned /\ NotStarted BY DEF HandlerInv
<1>1. ASSUME NEW i \in Pids
      PROVE  /\ reader'[i] = "none" => taken'[i] = 0
             /\ indexer'[i] = "run" => job'[i].kind = "indexAsync"
  <2>1. reader'[i] = "none" => taken'[i] = 0
    <3>1. CASE taken'[i] # taken[i] BY <3>1, RowTaken
    <3>2. CASE taken'[i] = taken[i] BY <1>o, <3>2, ReaderStays DEF NotStarted
    <3> QED BY <3>1, <3>2
  <2>2. CASE indexer[i] = "run"
    <3>1. i <= pid BY <1>o, <1>t, <2>2 DEF PidsOwned, Pids
    <3> QED BY <1>o, <2>1, <2>2, <3>1, JobKept DEF NotStarted
  <2>3. CASE indexer[i] # "run" /\ indexer'[i] = "run"
    <3>1. PICK c \in Conns : Run(c) /\ q[c].pid = i /\ q[c].kind = "indexAsync"
      BY <2>3, IndexerStarted
    <3>2. UNCHANGED job BY <3>1 DEF Run
    <3>3. i # 0 BY DEF Pids
    <3> QED BY <1>o, <2>1, <3>1, <3>2, <3>3 DEF PidsOwned
  <2> QED BY <2>1, <2>2, <2>3
<1> DEFINE Before(d) ==
     /\ q[d].pc \in {"kill", "killRemove", "killSession", "killClose", "addProcess"} => q[d].pid \notin procs
     /\ q[d].pc \in {"kill", "killRemove", "killSession", "killClose", "addProcess", "run"}
          => indexer[q[d].pid] = "none"
     /\ q[d].pc \in {"kill", "killRemove", "killSession", "killClose", "addProcess", "run", "lookup"}
          => reader[q[d].pid] = "none" /\ q[d].sent = 0 /\ q[d].got = 0
<1>b. ASSUME NEW d \in Conns PROVE Before(d) BY <1>o DEF NotStarted
<1>2. ASSUME NEW d \in Conns, q'[d] = q[d], q[d].pc \in CommandStates PROVE Before(d)'
  <2> DEFINE i == q[d].pid
  <2>1. i \in Pids /\ i # 0 BY <1>2, <1>o, PidGiven DEF PidsOwned
  <2>2. ASSUME NEW c \in Conns, q[c].pid = i,
               AddProcess(c) \/ LookupConn(c) \/ Run(c)
        PROVE  FALSE
    <3>1. c = d BY <1>o, <2>1, <2>2, OneConnection
    <3>2. q'[d].pc # q[d].pc
      BY <2>2, <3>1, <1>t, GotoStep, ReturnStep DEF AddProcess, LookupConn, Run, At, ComQueryStates
    <3> QED BY <1>2, <3>2
  <2> HIDE DEF i
  <2>3. i \notin procs => i \notin procs' BY <2>1, <2>2, ProcessAdded
  <2>4. reader[i] = "none" => reader'[i] = "none" BY <2>1, <2>2, ReaderStarted
  <2>5. indexer[i] = "none" => indexer'[i] = "none" BY <2>1, <2>2, IndexerStarted
  <2> QED BY <1>2, <1>b, <2>3, <2>4, <2>5 DEF i
<1>3. ASSUME NEW d \in Conns, Killing(d) \/ AddProcess(d) \/ Run(d) PROVE Before(d)'
  <2>1. q[d].pid \in Pids /\ q'[d].pid = q[d].pid
    BY <1>3, <1>o, ServingStep, PidGiven DEF CommandKept, Querying, NextPid, Run, AddProcess, At,
       Killing, HandleKill, KillRemove, KillSession, KillClose
  <2>2. CASE Killing(d)
    <3>1. UNCHANGED <<reader, indexer>> /\ procs' \subseteq procs
      BY <2>2 DEF Killing, HandleKill, KillRemove, KillSession, KillClose, Kill, procVars, goVars
    <3>2. q[d].pc \in {"kill", "killRemove", "killSession", "killClose"} /\ RowsKept(d)
      BY <1>t, <2>2, GotoStep, ReturnStep
         DEF Killing, HandleKill, KillRemove, KillSession, KillClose, At, ComQueryStates
    <3> QED BY <1>b, <2>1, <3>1, <3>2 DEF RowsKept
  <2>3. CASE AddProcess(d)
    <3>1. At(d, "addProcess") /\ q'[d].pc = "run" /\ RowsKept(d) /\ UNCHANGED <<reader, indexer>>
      BY <1>t, <2>3, GotoStep DEF AddProcess, ComQueryStates, goVars
    <3> QED BY <1>b, <2>1, <3>1 DEF RowsKept, At
  <2>4. CASE Run(d)
    <3>1. At(d, "run") /\ q'[d].pc = "lookup" /\ RowsKept(d) /\ UNCHANGED reader
      BY <1>t, <2>4, GotoStep DEF Run, ComQueryStates
    <3> QED BY <1>b, <2>1, <3>1 DEF RowsKept, At
  <2> QED BY <1>3, <2>2, <2>3, <2>4
<1>4. ASSUME NEW d \in Conns, NextPid(d) PROVE Before(d)'
  <2>1. /\ pid + 1 \in Pids /\ q'[d].pid = pid + 1 /\ RowsKept(d)
        /\ UNCHANGED <<procs, reader, indexer>>
    BY <1>4, NextPidStep DEF HandlerInv, NextPid, procVars, goVars
  <2>2. pid + 1 \notin procs /\ reader[pid + 1] = "none" /\ indexer[pid + 1] = "none"
    BY <1>o, <1>t, <2>1 DEF PidsOwned
  <2>3. q[d].sent = 0 /\ q[d].got = 0 BY <1>4, <1>o DEF PidsOwned, NextPid
  <2> QED BY <2>1, <2>2, <2>3 DEF RowsKept
<1>5. ASSUME NEW d \in Conns, q'[d].pc \in {"idle", "pid", "loop", "close", "last"} \cup ClosingStates
      PROVE  Before(d)'
  BY <1>5 DEF ClosingStates
<1>6. ASSUME NEW d \in Conns, q'[d] # q[d] PROVE Before(d)'
  <2> HIDE DEF Before
  <2> USE <1>t, <1>5, GotoStep, ReturnStep DEF ComQueryStates
  <2>1. CASE ComQuery(d) BY <1>6, <2>1, ComQueryStep
  <2>2. CASE Closing(d) BY <2>2, ClosingStep
  <2>3. CASE RunFails(d) \/ UnlockFails(d) BY <2>3 DEF RunFails, UnlockFails
  <2>4. CASE LookupConn(d) BY <2>4 DEF LookupConn
  <2>5. CASE RecvRow(d) BY <2>5, RecvRowStep
  <2>6. CASE RecvErr(d) BY <2>6 DEF RecvErr
  <2>7. CASE Timeout(d) BY <2>7 DEF Timeout
  <2>8. CASE SendBatch(d) BY <2>8, SendBatchStep DEF HandlerInv
  <2>9. CASE CloseRows(d) BY <2>9 DEF CloseRows
  <2>10. CASE LastCallback(d) BY <2>10, LastCallbackStep DEF HandlerInv
  <2> QED BY <1>3, <1>4, <1>6, <2>1, <2>2, <2>3, <2>4, <2>5, <2>6, <2>7, <2>8, <2>9, <2>10, OwnStep
          DEF Querying
<1>7. ASSUME NEW d \in Conns PROVE Before(d)'
  <2>1. CASE q'[d] = q[d] /\ q[d].pc \notin CommandStates
    BY <2>1 DEF CommandStates
  <2> HIDE DEF Before
  <2> QED BY <1>2, <1>6, <2>1
<1> QED BY <1>1, <1>7 DEF NotStarted

\* While a connection waits in the row loop, its reader puts a row on rowChan exactly
\* when it takes one.
LEMMA RowOnChannel ==
  ASSUME TypeOK, HandlerInv, [Next]_vars, NEW d \in Conns, At(d, "loop"), q'[d] = q[d]
  PROVE  LET i == q[d].pid IN
         (IF reader'[i] = "row" THEN 1 ELSE 0) - (IF reader[i] = "row" THEN 1 ELSE 0)
           = taken'[i] - taken[i]
<1> DEFINE i == q[d].pid
<1>t. q \in [Conns -> Queries] BY DEF TypeOK
<1>o. i \in Pids /\ i # 0 /\ PidsOwned
  BY PidGiven DEF HandlerInv, At, CommandStates, PidsOwned
<1>n. taken[i] \in Int BY <1>o DEF TypeOK
<1> HIDE DEF i
<1>1. CASE UNCHANGED <<reader, taken>> BY <1>1, <1>n DEF i
<1>2. ASSUME NEW j \in Pids, Goroutine(j)
      PROVE  (IF reader'[i] = "row" THEN 1 ELSE 0) - (IF reader[i] = "row" THEN 1 ELSE 0)
               = taken'[i] - taken[i]
  <2> USE <1>o, <1>n DEF TypeOK
  <2>1. CASE ReaderQuit(j) BY <2>1 DEF ReaderQuit
  <2>2. CASE ReaderNext(j) BY <2>2 DEF ReaderNext
  <2>3. CASE CheckerLook(j) \/ IndexCreated(j) BY <2>3 DEF CheckerLook, IndexCreated
  <2> QED BY <1>2, <2>1, <2>2, <2>3 DEF Goroutine
<1>3. ASSUME NEW c \in Conns, Closing(c) \/ Killing(c) PROVE UNCHANGED <<reader, taken>>
  BY <1>3 DEF Closing, ConnectionClosed, CloseSession, CloseHandler, CloseProcs, CloseLocks,
     Killing, HandleKill, KillRemove, KillSession, KillClose, goVars
<1>4. ASSUME NEW c \in Conns, Querying(c)
      PROVE  (IF reader'[i] = "row" THEN 1 ELSE 0) - (IF reader[i] = "row" THEN 1 ELSE 0)
               = taken'[i] - taken[i]
  <2>1. CASE RecvRow(c) \/ RecvErr(c) \/ LookupConn(c)
    <3>1. c # d
      <4>1. SUFFICES ASSUME c = d PROVE FALSE OBVIOUS
      <4>2. q'[d].pc # "loop" \/ q'[d].got # q[d].got
        <5>1. CASE RecvRow(d)
          <6>1. q[d] \in Queries BY <1>t
          <6>2. q[d].got \in Int BY <6>1 DEF Queries
          <6> QED BY <5>1, <6>2, RecvRowStep
        <5>2. CASE RecvErr(d) BY <1>t, <5>2, GotoStep, ReturnStep DEF RecvErr, ComQueryStates
        <5>3. CASE LookupConn(d) BY <5>3 DEF LookupConn, At
        <5> QED BY <2>1, <4>1, <5>1, <5>2, <5>3
      <4> QED BY <4>2 DEF At
    <3>2. q[c].pid # i BY <1>o, <3>1, OneConnection DEF i
    <3>3. reader'[i] = reader[i] BY <2>1, <1>o, <3>2 DEF RecvRow, RecvErr, LookupConn, TypeOK
    <3>4. UNCHANGED taken BY <2>1 DEF RecvRow, RecvErr, LookupConn
    <3> QED BY <1>n, <3>3, <3>4
  <2>2. CASE UNCHANGED <<reader, taken>> BY <2>2, <1>n
  <2> QED BY <1>4, <2>1, <2>2 DEF Querying, NextPid, AddProcess, RunFails, UnlockFails, Run, Timeout,
     SendBatch, CloseRows, LastCallback, goVars
<1>5. ASSUME NEW c \in Conns, Accept(c) \/ NewConnection(c) \/ Hangup(c) \/ ComQuery(c)
      PROVE  UNCHANGED <<reader, taken>>
  BY <1>5 DEF Accept, NewConnection, Hangup, ComQuery, goVars
<1>6. CASE UNCHANGED vars BY <1>1, <1>6 DEF vars
<1> QED BY <1>1, <1>2, <1>3, <1>4, <1>5, <1>6 DEF Next, i

\* Every step keeps account of the rows that the reader has taken.
LEMMA RowsAccountedStep ==
  ASSUME TypeOK, HandlerInv, [Next]_vars
  PROVE  RowsAccounted'
<1>t. /\ q \in [Conns -> Queries] /\ pid \in 0..MaxPid /\ MaxPid \in Nat
      /\ job \in [Pids -> Jobs] /\ taken \in [Pids -> 0..(MaxRows + 1)]
  BY BoundsAssumption DEF TypeOK
<1>o. PidsOwned /\ RowsAccounted /\ NotStarted BY DEF HandlerInv
<1>m. ASSUME NEW i \in Pids PROVE taken[i] \in Nat /\ taken'[i] \in Nat /\ taken'[i] >= taken[i]
  <2>1. taken[i] \in Nat BY <1>t, BoundsAssumption
  <2> QED BY <2>1, RowTaken
<1>j. ASSUME NEW i \in Pids
      PROVE  job[i].rows \in 0..(MaxRows + 1) /\ job'[i].rows \in 0..(MaxRows + 1)
  <2>1. job[i] \in Jobs /\ job'[i] \in Jobs BY <1>t, CommandTypes
  <2> QED BY <2>1 DEF Jobs
<1>1. ASSUME NEW i \in Pids
      PROVE  /\ taken'[i] <= job'[i].rows
             /\ reader'[i] = "eof" => taken'[i] = job'[i].rows
  <2>1. CASE job' = job
    <3>1. taken'[i] <= job'[i].rows
      <4>1. CASE taken'[i] = taken[i] BY <1>o, <2>1, <4>1 DEF RowsAccounted
      <4>2. CASE taken'[i] # taken[i] BY <1>j, <1>m, <2>1, <4>2, RowTaken
      <4> QED BY <4>1, <4>2
    <3>2. ASSUME reader'[i] = "eof" PROVE taken'[i] = job'[i].rows
      <4>1. taken'[i] = taken[i] BY <3>2, RowTaken
      <4> QED BY <1>o, <2>1, <3>2, <4>1, ReaderStays DEF RowsAccounted
    <3> QED BY <3>1, <3>2
  <2>2. ASSUME NEW c \in Conns, NextPid(c)
        PROVE  /\ taken'[i] <= job'[i].rows
               /\ reader'[i] = "eof" => taken'[i] = job'[i].rows
    <3>1. UNCHANGED <<taken, reader>> BY <2>2 DEF NextPid, goVars
    <3>2. CASE i = pid + 1
      <4>1. reader[i] = "none" BY <1>o, <1>t, <3>2 DEF PidsOwned
      <4>2. taken[i] = 0 BY <1>o, <4>1 DEF NotStarted
      <4> QED BY <1>j, <3>1, <4>1, <4>2, BoundsAssumption
    <3>3. CASE i # pid + 1
      <4>1. job'[i] = job[i] BY <2>2, <3>3, NextPidStep DEF HandlerInv
      <4> QED BY <1>o, <3>1, <4>1 DEF RowsAccounted
    <3> QED BY <3>2, <3>3
  <2> QED BY <2>1, <2>2, JobKept
<1> DEFINE Rows(d) ==
      /\ q[d].pid # 0 => q[d].sent <= taken[q[d].pid]
      /\ At(d, "loop") =>
           q[d].sent + q[d].got + (IF reader[q[d].pid] = "row" THEN 1 ELSE 0) = taken[q[d].pid]
      /\ q[d].pc \in {"close", "last"} =>
           /\ q[d].sent + q[d].got <= taken[q[d].pid]
           /\ q[d].kind = "select" => q[d].sent + q[d].got = job[q[d].pid].rows
<1>r. ASSUME NEW d \in Conns PROVE Rows(d) BY <1>o DEF RowsAccounted
<1>n. ASSUME NEW d \in Conns
      PROVE  q[d].sent \in Nat /\ q[d].got \in Nat /\ q[d].pid \in 0..MaxPid
  <2>1. q[d] \in Queries BY <1>t
  <2> QED BY <2>1, BoundsAssumption DEF Queries
<1>p. ASSUME NEW d \in Conns, q[d].pid # 0
      PROVE  q[d].pid \in Pids /\ job'[q[d].pid] = job[q[d].pid]
  BY <1>n, <1>o, <1>p, <1>t, JobKept DEF PidsOwned, Pids
<1>2. ASSUME NEW d \in Conns, q'[d] = q[d] PROVE Rows(d)'
  <2>1. CASE q[d].pid = 0
    <3>1. q[d].pc \notin CommandStates BY <1>o, <2>1 DEF PidsOwned
    <3> QED BY <1>2, <2>1, <3>1 DEF CommandStates, At
  <2>2. CASE q[d].pid # 0
    <3> DEFINE i == q[d].pid
    <3>1. i \in Pids /\ job'[i] = job[i] BY <1>p, <2>2
    <3>2. taken[i] \in Nat /\ taken'[i] \in Nat /\ taken'[i] >= taken[i] BY <1>m, <3>1
    <3>3. At(d, "loop") =>
            (IF reader'[i] = "row" THEN 1 ELSE 0) - (IF reader[i] = "row" THEN 1 ELSE 0)
              = taken'[i] - taken[i]
      BY <1>2, RowOnChannel
    <3>4. q'[d].pid = i /\ q'[d].sent = q[d].sent /\ q'[d].got = q[d].got /\ q'[d].pc = q[d].pc
          /\ q'[d].kind = q[d].kind
      BY <1>2
    <3>5. q[d].sent <= taken'[i] BY <1>n, <1>r, <2>2, <3>2
    <3>6. q[d].pc \in {"close", "last"} =>
            /\ q[d].sent + q[d].got <= taken'[i]
            /\ q[d].kind = "select" => q[d].sent + q[d].got = job'[i].rows
      BY <1>n, <1>r, <3>1, <3>2
    <3>7. At(d, "loop") => q[d].sent + q[d].got + (IF reader'[i] = "row" THEN 1 ELSE 0) = taken'[i]
      BY <1>n, <1>r, <3>2, <3>3
    <3> HIDE DEF i
    <3> QED BY <3>4, <3>5, <3>6, <3>7 DEF At
  <2> QED BY <2>1, <2>2
<1>3. ASSUME NEW d \in Conns, ComQuery(d) \/ NextPid(d), q'[d] # q[d] PROVE Rows(d)'
  <2>1. q'[d].sent = 0 /\ q'[d].pc \notin {"loop", "close", "last"}
    <3>1. CASE ComQuery(d) BY <1>3, <1>t, <3>1, ComQueryStep
    <3>2. CASE NextPid(d)
      <4>1. q[d].sent = 0 BY <1>o, <3>2 DEF NextPid, PidsOwned
      <4> QED BY <3>2, <4>1, NextPidStep DEF HandlerInv, RowsKept
    <3> QED BY <1>3, <3>1, <3>2
  <2>2. q'[d].pid # 0 => q'[d].pid \in Pids
    <3>1. q'[d] \in Queries BY CommandTypes
    <3> QED BY <3>1, <1>t DEF Queries, Pids
  <2> QED BY <1>m, <2>1, <2>2 DEF At
<1>4. ASSUME NEW d \in Conns, Closing(d) PROVE Rows(d)'
  <2>1. CommandKept(d) /\ RowsKept(d) /\ q'[d].pc \notin {"loop", "close", "last"}
    BY <1>4, ClosingStep DEF ClosingStates
  <2>2. q[d].pid # 0 => taken[q[d].pid] \in Nat /\ taken'[q[d].pid] \in Nat
                        /\ taken'[q[d].pid] >= taken[q[d].pid]
    BY <1>m, <1>p
  <2> QED BY <1>n, <1>r, <2>1, <2>2 DEF At, CommandKept, RowsKept
<1>5. ASSUME NEW d \in Conns, Killing(d) \/ Querying(d), ~NextPid(d) PROVE Rows(d)'
  <2> DEFINE i == q[d].pid
  <2>1. CommandKept(d) /\ q[d].pc \in CommandStates BY <1>5, ServingStep
  <2>2. i \in Pids /\ i # 0 /\ job'[i] = job[i] BY <1>o, <1>p, <2>1 DEF PidsOwned
  <2>3. taken[i] \in Nat /\ taken'[i] \in Nat /\ taken'[i] >= taken[i] BY <1>m, <2>2
  <2>n. q[d].sent \in Nat /\ q[d].got \in Nat BY <1>n
  <2>r. /\ q[d].sent <= taken[i]
        /\ At(d, "loop") => q[d].sent + q[d].got + (IF reader[i] = "row" THEN 1 ELSE 0) = taken[i]
        /\ q[d].pc \in {"close", "last"} =>
             /\ q[d].sent + q[d].got <= taken[i]
             /\ q[d].kind = "select" => q[d].sent + q[d].got = job[i].rows
    BY <1>r, <2>2
  <2>4. ASSUME q'[d].sent = q[d].sent, q'[d].pc \notin {"loop", "close", "last"} PROVE Rows(d)'
    BY <2>n, <2>r, <2>1, <2>3, <2>4 DEF CommandKept, At
  <2>5. CASE LookupConn(d)
    <3>1. q[d].sent = 0 /\ q[d].got = 0 /\ reader[i] = "none" /\ RowsKept(d)
      BY <1>o, <1>t, <2>5, GotoStep, ReturnStep DEF NotStarted, LookupConn, At, ComQueryStates
    <3>2. taken[i] = 0 /\ taken'[i] = 0 BY <1>o, <2>2, <2>5, <3>1 DEF NotStarted, LookupConn
    <3>3. q'[d].pc = "idle" \/ (q'[d].pc = "loop" /\ reader'[i] = "check")
      BY <1>t, <2>2, <2>5, GotoStep, ReturnStep DEF LookupConn, ComQueryStates, TypeOK
    <3> HIDE DEF i
    <3> QED BY <2>1, <3>1, <3>2, <3>3 DEF CommandKept, RowsKept, At, i
  <2>6. CASE RecvRow(d)
    <3>1. At(d, "loop") /\ reader[i] = "row" /\ reader'[i] = "check" /\ taken'[i] = taken[i]
      BY <2>2, <2>6 DEF RecvRow, InLoop, TypeOK
    <3>2. CASE q'[d].pc = "idle" BY <2>4, <2>6, <3>2, RecvRowStep
    <3>3. CASE /\ q'[d].pc = (IF q[d].kind = "dml" THEN "close" ELSE "loop")
               /\ q'[d].got = q[d].got + 1 /\ q'[d].sent = q[d].sent
      <4>1. q[d].sent + q[d].got + 1 = taken[i] BY <2>r, <3>1
      <4> HIDE DEF i
      <4> QED BY <2>1, <2>3, <2>n, <2>r, <3>1, <3>3, <4>1 DEF CommandKept, At, i
    <3> QED BY <2>6, <3>2, <3>3, RecvRowStep
  <2>7. CASE RecvErr(d)
    <3>1. At(d, "loop") /\ taken'[i] = taken[i] /\ RowsKept(d)
      BY <1>t, <2>7, GotoStep, ReturnStep DEF RecvErr, InLoop, ComQueryStates
    <3>2. CASE q'[d].pc = "idle" BY <2>4, <3>1, <3>2 DEF RowsKept
    <3>3. CASE reader[i] = "eof" /\ q'[d].pc = "close"
      <4>1. q[d].sent + q[d].got = taken[i] BY <2>n, <2>r, <3>1, <3>3
      <4>2. taken[i] = job[i].rows BY <1>o, <2>2, <3>3 DEF RowsAccounted
      <4> HIDE DEF i
      <4> QED BY <2>1, <2>2, <2>3, <2>n, <2>r, <3>1, <3>3, <4>1, <4>2 DEF CommandKept, RowsKept, At, i
    <3> QED BY <1>t, <2>7, <3>2, <3>3, GotoStep, ReturnStep DEF RecvErr, ComQueryStates
  <2>8. CASE SendBatch(d)
    <3>1. At(d, "loop") /\ taken'[i] = taken[i] /\ reader'[i] = reader[i]
      BY <2>8 DEF SendBatch
    <3>2. CASE q'[d].pc = "idle" /\ RowsKept(d) BY <2>4, <3>2 DEF RowsKept
    <3>3. CASE q'[d].pc = "loop" /\ q'[d].sent = q[d].sent + q[d].got /\ q'[d].got = 0
      <4> HIDE DEF i
      <4> QED BY <2>1, <2>3, <2>n, <2>r, <3>1, <3>3 DEF CommandKept, At, i
    <3> QED BY <2>8, <3>2, <3>3, SendBatchStep DEF HandlerInv
  <2>9. CASE CloseRows(d)
    <3>1. q[d].pc = "close" /\ q'[d].pc \in {"last", "idle"} /\ RowsKept(d)
      BY <1>t, <2>9, GotoStep, ReturnStep DEF CloseRows, At, ComQueryStates
    <3> HIDE DEF i
    <3> QED BY <2>1, <2>2, <2>3, <2>n, <2>r, <3>1 DEF CommandKept, RowsKept, At, i
  <2>10. CASE LastCallback(d)
    <3>1. q[d].pc = "last" /\ q'[d].pc = "idle" /\ q'[d].sent = q[d].sent + q[d].got
      BY <2>10, LastCallbackStep DEF LastCallback, At, HandlerInv
    <3> HIDE DEF i
    <3> QED BY <2>1, <2>2, <2>3, <2>n, <2>r, <3>1 DEF CommandKept, At, i
  <2>11. CASE Killing(d) \/ AddProcess(d) \/ RunFails(d) \/ UnlockFails(d) \/ Run(d) \/ Timeout(d)
    <3>1. RowsKept(d) /\ q'[d].pc \notin {"loop", "close", "last"}
      BY <1>t, <2>11, GotoStep, ReturnStep DEF Killing, HandleKill, KillRemove, KillSession, KillClose, AddProcess,
         RunFails, UnlockFails, Run, Timeout, ComQueryStates
    <3> QED BY <2>4, <3>1 DEF RowsKept
  <2> QED BY <1>5, <2>5, <2>6, <2>7, <2>8, <2>9, <2>10, <2>11 DEF Querying
<1>6. ASSUME NEW d \in Conns PROVE Rows(d)'
  <2> HIDE DEF Rows
  <2> QED BY <1>2, <1>3, <1>4, <1>5, OwnStep
<1> QED BY <1>1, <1>6 DEF RowsAccounted

\* A command that returns without an error has passed on all of its rows.
LEMMA CompleteStep ==
  ASSUME TypeOK, HandlerInv, [Next]_vars
  PROVE  Complete'
<1>t. q \in [Conns -> Queries] BY DEF TypeOK
<1>o. PidsOwned /\ NotStarted /\ RowsAccounted /\ Complete BY DEF HandlerInv
<1> DEFINE Ended(d) ==
      /\ At(d, "last") /\ IsQuery(q[d].pid) => q[d].pid \notin procs
      /\ q[d].pc \in {"idle"} \cup ClosingStates /\ q[d].res = "ok"
         => /\ q[d].kind = "select" => q[d].sent = job[q[d].pid].rows
            /\ IsQuery(q[d].pid) => q[d].pid \notin procs
<1>c. ASSUME NEW d \in Conns PROVE Ended(d) BY <1>o DEF Complete
<1>p. ASSUME NEW d \in Conns, q[d].pid # 0
      PROVE  q[d].pid \in Pids /\ job'[q[d].pid] = job[q[d].pid]
  <2>1. q[d] \in Queries BY <1>t
  <2>2. q[d].pid \in 0..MaxPid BY <2>1 DEF Queries
  <2> QED BY <1>o, <1>p, <2>2, JobKept, BoundsAssumption DEF PidsOwned, Pids
<1>2. ASSUME NEW d \in Conns, q'[d] = q[d] PROVE Ended(d)'
  <2>1. CASE q[d].pid = 0
    <3>1. ~At(d, "last") /\ q[d].res = None BY <1>o, <2>1 DEF PidsOwned, CommandStates, At
    <3> QED BY <1>2, <3>1, NoneAssumption DEF At
  <2>2. CASE q[d].pid # 0
    <3>1. q[d].pid \notin procs => q[d].pid \notin procs'
      <4>1. ASSUME NEW c \in Conns, AddProcess(c), q[c].pid = q[d].pid PROVE FALSE
        <5>1. c = d BY <1>o, <2>2, <4>1, OneConnection
        <5> QED BY <1>2, <1>t, <4>1, <5>1, GotoStep DEF AddProcess, At, ComQueryStates
      <4> QED BY <1>p, <2>2, <4>1, ProcessAdded
    <3>2. job'[q[d].pid] = job[q[d].pid] BY <1>p, <2>2
    <3> QED BY <1>2, <1>c, <3>1, <3>2 DEF At, IsQuery
  <2> QED BY <2>1, <2>2
<1>3. ASSUME NEW d \in Conns, Closing(d) PROVE Ended(d)'
  <2>1. /\ CommandKept(d) /\ RowsKept(d) /\ q'[d].res = q[d].res /\ UNCHANGED job
        /\ q[d].pc \in {"idle"} \cup ClosingStates /\ q'[d].pc \in {"idle"} \cup ClosingStates
    BY <1>3, ClosingStep
  <2>2. procs' \subseteq procs
    BY <1>3 DEF Closing, ConnectionClosed, CloseSession, CloseHandler, CloseProcs, CloseLocks,
       KillOnlyQueries, procVars
  <2> QED BY <1>c, <2>1, <2>2 DEF CommandKept, RowsKept, IsQuery, At, ClosingStates
<1>4. ASSUME NEW d \in Conns, q'[d].pc # "last",
             q'[d].pc \notin {"idle"} \cup ClosingStates \/ q'[d].res = "err"
      PROVE  Ended(d)'
  BY <1>4 DEF At
<1>5. ASSUME NEW d \in Conns, HandleKill(d) \/ KillClose(d) PROVE Ended(d)'
  <2>1. q[d].kind # "select" /\ q[d].pid \notin procs BY <1>5, <1>o
    DEF HandleKill, KillClose, PidsOwned, NotStarted, At
  <2>2. procs' \subseteq procs BY <1>5 DEF HandleKill, KillClose, Kill, procVars
  <2>3. CommandKept(d) /\ q'[d].pc # "last"
    BY <1>5, <1>t, GotoStep, ReturnStep DEF HandleKill, KillClose, ComQueryStates
  <2> QED BY <2>1, <2>2, <2>3 DEF CommandKept, At
<1>6. ASSUME NEW d \in Conns, CloseRows(d) PROVE Ended(d)'
  <2>1. CASE q'[d].res = "err" /\ q'[d].pc = "idle" BY <1>4, <2>1
  <2>2. CASE q'[d].pc = "last" /\ CommandKept(d)
    <3>1. UNCHANGED job BY <1>6 DEF CloseRows
    <3>2. IsQuery(q[d].pid) => q[d].pid \notin procs' BY <1>6 DEF CloseRows, Done
    <3> QED BY <2>2, <3>1, <3>2 DEF CommandKept, IsQuery, ClosingStates
  <2> QED BY <1>6, <1>t, <2>1, <2>2, GotoStep, ReturnStep DEF CloseRows, ComQueryStates
<1>7. ASSUME NEW d \in Conns, LastCallback(d) PROVE Ended(d)'
  <2>1. At(d, "last") /\ UNCHANGED <<job, procs>> BY <1>7 DEF LastCallback, procVars
  <2>2. CommandKept(d) /\ q'[d].pc = "idle" /\ q'[d].sent = q[d].sent + q[d].got
    BY <1>7, <1>o, LastCallbackStep
  <2>3. q[d].kind = "select" => q[d].sent + q[d].got = job[q[d].pid].rows
    BY <1>o, <2>1 DEF RowsAccounted, At
  <2> QED BY <1>c, <2>1, <2>2, <2>3 DEF CommandKept, IsQuery, At
<1>8. ASSUME NEW d \in Conns, q'[d] # q[d] PROVE Ended(d)'
  <2> HIDE DEF Ended
  <2> USE <1>t, <1>4, GotoStep, ReturnStep DEF ComQueryStates, ClosingStates
  <2>1. CASE ComQuery(d) BY <1>8, <2>1, ComQueryStep
  <2>2. CASE NextPid(d) BY <2>2, NextPidStep DEF HandlerInv
  <2>3. CASE KillRemove(d) \/ KillSession(d) BY <2>3 DEF KillRemove, KillSession
  <2>4. CASE AddProcess(d) BY <2>4 DEF AddProcess
  <2>5. CASE RunFails(d) \/ UnlockFails(d) BY <2>5 DEF RunFails, UnlockFails
  <2>6. CASE Run(d) BY <2>6 DEF Run
  <2>7. CASE LookupConn(d) BY <2>7 DEF LookupConn
  <2>8. CASE RecvRow(d) BY <2>8, RecvRowStep
  <2>9. CASE RecvErr(d) BY <2>9 DEF RecvErr
  <2>10. CASE Timeout(d) BY <2>10 DEF Timeout
  <2>11. CASE SendBatch(d) BY <2>11, SendBatchStep DEF HandlerInv
  <2> QED BY <1>3, <1>5, <1>6, <1>7, <1>8, <2>1, <2>2, <2>3, <2>4, <2>5, <2>6, <2>7, <2>8, <2>9,
             <2>10, <2>11, OwnStep DEF Killing, Querying
<1>9. ASSUME NEW d \in Conns PROVE Ended(d)'
  <2> HIDE DEF Ended
  <2> QED BY <1>2, <1>8
<1> QED BY <1>9 DEF Complete, IsQuery

\* Every step keeps the tables that a connection owns on its record.
LEMMA LocksRecordedStep ==
  ASSUME TypeOK, HandlerInv, [Next]_vars
  PROVE  LocksRecorded'
<1>o. LocksRecorded BY DEF HandlerInv
<1>t. owner \in [Tables -> Conns \cup {None}] /\ locks \subseteq Conns \X Tables BY DEF TypeOK
<1>1. CASE UNCHANGED lockVars BY <1>o, <1>1 DEF LocksRecorded, lockVars
<1>2. ASSUME NEW c \in Conns, NEW failed \in SUBSET Recorded(c), UnlockTables(c, failed)
      PROVE  LocksRecorded'
  <2>1. ASSUME NEW t \in Tables, owner'[t] # None
        PROVE  <<owner'[t], t>> \in locks' \/ t \in stuck'
    <3>1. CASE t \in failed BY <1>2, <3>1 DEF UnlockTables
    <3>2. CASE t \notin failed
      <4>1. t \notin Recorded(c) /\ owner'[t] = owner[t] BY <1>2, <2>1, <3>2 DEF UnlockTables
      <4>2. <<owner[t], t>> \in locks \/ t \in stuck BY <1>o, <2>1, <4>1 DEF LocksRecorded
      <4>3. CASE t \in stuck BY <1>2, <4>1, <4>3 DEF UnlockTables
      <4>4. CASE <<owner[t], t>> \in locks
        <5>1. owner[t] # c BY <4>1, <4>4 DEF Recorded
        <5> QED BY <1>2, <4>1, <4>4, <5>1 DEF UnlockTables
      <4> QED BY <4>2, <4>3, <4>4
    <3> QED BY <3>1, <3>2
  <2> QED BY <2>1 DEF LocksRecorded
<1>3. ASSUME NEW c \in Conns, LockTables(c) PROVE LocksRecorded'
  <2>1. PICK t \in Tables :
          /\ owner' = [owner EXCEPT ![t] = IF @ = None THEN c ELSE @]
          /\ locks' = IF owner[t] \in {None, c} THEN locks \cup {<<c, t>>} ELSE locks
          /\ UNCHANGED stuck
    BY <1>3 DEF LockTables
  <2>2. ASSUME NEW u \in Tables, owner'[u] # None
        PROVE  <<owner'[u], u>> \in locks' \/ u \in stuck'
    <3>1. CASE u # t \/ owner[t] # None
      <4>1. owner'[u] = owner[u] BY <1>t, <2>1, <3>1
      <4> QED BY <1>o, <2>1, <2>2, <4>1 DEF LocksRecorded
    <3>2. CASE u = t /\ owner[t] = None
      <4>1. owner'[u] = c BY <1>t, <2>1, <3>2
      <4> QED BY <2>1, <3>2, <4>1
    <3> QED BY <3>1, <3>2
  <2> QED BY <2>2 DEF LocksRecorded
<1>4. ASSUME NEW c \in Conns, Closing(c) \/ Killing(c) \/ Querying(c) PROVE LocksRecorded'
  BY <1>1, <1>2, <1>3, <1>4 DEF Closing, ConnectionClosed, CloseSession, CloseHandler, CloseProcs,
     CloseLocks, Killing, HandleKill, KillRemove, KillSession, KillClose, Querying, NextPid, AddProcess, RunFails, UnlockFails,
     Run, LookupConn, RecvRow, RecvErr, Timeout, SendBatch, CloseRows, LastCallback
<1>5. ASSUME NEW c \in Conns, Accept(c) \/ NewConnection(c) \/ Hangup(c) \/ ComQuery(c)
      PROVE  LocksRecorded'
  BY <1>1, <1>5 DEF Accept, NewConnection, Hangup, ComQuery
<1>6. ASSUME NEW i \in Pids, Goroutine(i) PROVE LocksRecorded' BY <1>1, <1>6, GoroutineStep
<1>7. CASE UNCHANGED vars BY <1>1, <1>7 DEF vars, lockVars
<1> QED BY <1>4, <1>5, <1>6, <1>7 DEF Next

\* A connection gets a session only from its own command, an entry of the handler only
\* when it is new, and a lock only from a LOCK TABLES of its own.
LEMMA ConnectionGains ==
  ASSUME TypeOK, [Next]_vars, NEW c \in Conns
  PROVE  /\ c \in sessions' \ sessions => ComQuery(c)
         /\ hc[c] = Absent /\ hc'[c] # Absent => NewConnection(c)
         /\ \A t \in Tables : <<c, t>> \in locks' \ locks => Run(c)
         /\ conn'[c] # conn[c] => Accept(c) \/ NewConnection(c) \/ Closing(c)
<1> USE DEF TypeOK, connVars, sessVars, lockVars
<1> DEFINE Gains == /\ c \in sessions' \ sessions => ComQuery(c)
                    /\ hc[c] = Absent /\ hc'[c] # Absent => NewConnection(c)
                    /\ \A t \in Tables : <<c, t>> \in locks' \ locks => Run(c)
                    /\ conn'[c] # conn[c] => Accept(c) \/ NewConnection(c) \/ Closing(c)
<1>1. ASSUME UNCHANGED conn, sessions' \subseteq sessions,
             UNCHANGED hc \/ \E d \in Conns : hc' = [hc EXCEPT ![d] = Absent],
             locks' \subseteq locks
      PROVE  Gains
  BY <1>1
<1>2. ASSUME NEW d \in Conns, Accept(d) PROVE Gains BY <1>2 DEF Accept
<1>3. ASSUME NEW d \in Conns, NewConnection(d) PROVE Gains BY <1>3 DEF NewConnection
<1>4. ASSUME NEW d \in Conns, Hangup(d) PROVE Gains BY <1>4 DEF Hangup
<1>5. ASSUME NEW d \in Conns, ComQuery(d) PROVE Gains
  <2>1. c \in sessions' \ sessions => c = d BY <1>5 DEF ComQuery
  <2> QED BY <1>5, <2>1 DEF ComQuery
<1>6. ASSUME NEW d \in Conns, Closing(d) PROVE Gains
  <2>1. /\ sessions' \subseteq sessions
        /\ UNCHANGED hc \/ hc' = [hc EXCEPT ![d] = Absent]
        /\ locks' \subseteq locks
        /\ \/ UNCHANGED conn
           \/ conn' = [conn EXCEPT ![d] = "closing"]
           \/ conn' = [conn EXCEPT ![d] = "closed"]
    BY <1>6 DEF Closing, ConnectionClosed, CloseSession, CloseHandler, CloseProcs, CloseLocks,
       CloseConn, UnlockTables
  <2>2. conn'[c] # conn[c] => c = d BY <2>1
  <2> QED BY <1>6, <2>1, <2>2
<1>7. ASSUME NEW d \in Conns, Killing(d) PROVE Gains
  <2>1. /\ UNCHANGED <<conn, lockVars>> /\ sessions' \subseteq sessions
        /\ UNCHANGED hc \/ hc' = [hc EXCEPT ![q[d].target] = Absent]
    BY <1>7 DEF Killing, HandleKill, KillRemove, KillSession, KillClose, CloseConn
  <2> QED BY <2>1
<1>8. ASSUME NEW d \in Conns, Querying(d), ~Run(d) PROVE Gains
  <2>1. UNCHANGED <<conn, hc, sessions>> /\ locks' \subseteq locks
    BY <1>8 DEF Querying, NextPid, AddProcess, RunFails, UnlockFails, LookupConn, RecvRow, RecvErr, Timeout,
       SendBatch, CloseRows, LastCallback, UnlockTables
  <2> QED BY <1>1, <2>1
<1>9. ASSUME NEW d \in Conns, Run(d) PROVE Gains
  <2>1. UNCHANGED <<conn, hc, sessions>> BY <1>9 DEF Run
  <2>2. ASSUME NEW t \in Tables, <<c, t>> \in locks' \ locks PROVE c = d
    <3>1. LockTables(d) BY <1>9, <2>2 DEF Run, UnlockTables
    <3> QED BY <2>2, <3>1 DEF LockTables
  <2> QED BY <1>9, <2>1, <2>2
<1>10. ASSUME NEW i \in Pids, Goroutine(i) PROVE Gains BY <1>1, <1>10, GoroutineStep
<1>11. ASSUME UNCHANGED vars PROVE Gains BY <1>1, <1>11 DEF vars
<1> HIDE DEF Gains, TypeOK, connVars, sessVars, lockVars
<1>12. ASSUME NEW d \in Conns, Querying(d) PROVE Gains BY <1>8, <1>9, <1>12
<1>13. Gains
  BY <1>2, <1>3, <1>4, <1>5, <1>6, <1>7, <1>10, <1>11, <1>12 DEF Next
<1> QED BY <1>13 DEF Gains

\* What ConnectionClosed has removed stays removed.
LEMMA ClosedStepwiseStep ==
  ASSUME TypeOK, HandlerInv, [Next]_vars
  PROVE  ClosedStepwise'
<1>t. /\ q \in [Conns -> Queries] /\ hc \in [Conns -> Conns \cup {None, Absent}]
      /\ conn \in [Conns -> {"none", "accepted", "open", "closing", "closed"}]
      /\ pid \in 0..MaxPid /\ procs \subseteq Pids
  BY DEF TypeOK
<1>o. Phases /\ PidsOwned /\ ClosedStepwise BY DEF HandlerInv
<1> DEFINE Gone(c) ==
      /\ Removed(c, {"closeHandler", "closeProcs", "closeLocks"}) => c \notin sessions
      /\ Removed(c, {"closeProcs", "closeLocks"}) => hc[c] = Absent
      /\ Removed(c, {"closeLocks"}) => ~\E i \in procs : job[i].conn = c /\ IsQuery(i)
      /\ Removed(c, {}) => \A t \in Tables : <<c, t>> \notin locks
<1>g. ASSUME NEW c \in Conns PROVE Gone(c) BY <1>o DEF ClosedStepwise
<1> USE DEF Removed, At
<1>p. ASSUME NEW c \in Conns, q'[c] = q[c] \/ Closing(c),
             ~\E i \in procs : job[i].conn = c /\ IsQuery(i)
      PROVE  ~\E i \in procs' : job'[i].conn = c /\ IsQuery(i)'
  <2>1. SUFFICES ASSUME NEW i \in procs', job'[i].conn = c, IsQuery(i)' PROVE FALSE
    OBVIOUS
  <2>2. i \in Pids BY TypeStep DEF TypeOK
  <2>3. CASE i \in procs
    <3>1. i <= pid BY <1>o, <1>t, <2>2, <2>3 DEF PidsOwned, Pids
    <3>2. job'[i] = job[i] BY <2>2, <3>1, JobKept
    <3> QED BY <1>p, <2>1, <2>3, <3>2 DEF IsQuery
  <2>4. CASE i \notin procs
    <3>1. PICK d \in Conns : AddProcess(d) /\ q[d].pid = i BY <2>1, <2>2, <2>4, ProcessAdded
    <3>2. job[i].conn = d /\ UNCHANGED job
      BY <1>o, <3>1 DEF AddProcess, PidsOwned, CommandStates
    <3>3. c = d BY <2>1, <3>2
    <3>4. q'[d].pc = "run" /\ q[d].pc = "addProcess" BY <1>t, <3>1, GotoStep DEF AddProcess, ComQueryStates
    <3> QED BY <1>p, <3>3, <3>4, ClosingStep DEF ClosingStates
  <2> QED BY <2>3, <2>4
<1>1. ASSUME NEW c \in Conns, q'[c] = q[c], ~Closing(c) PROVE Gone(c)'
  <2>1. CASE conn'[c] # conn[c]
    <3>1. Accept(c) \/ NewConnection(c) BY <1>1, <2>1, ConnectionGains
    <3>2. conn'[c] # "closed" /\ q[c].pc = "idle"
      BY <1>o, <1>t, <3>1 DEF Accept, NewConnection, Phases
    <3> QED BY <1>1, <3>2
  <2>2. CASE conn'[c] = conn[c]
    <3>1. Removed(c, {"closeHandler", "closeProcs", "closeLocks"}) => ~ComQuery(c)
      BY DEF ComQuery
    <3>2. Removed(c, {"closeProcs", "closeLocks"}) => ~NewConnection(c)
      BY <1>o DEF NewConnection, Phases, ClosingStates
    <3>3. ~Run(c) BY <1>1, <1>t, GotoStep DEF Run, ComQueryStates
    <3>4. /\ c \in sessions' \ sessions => ComQuery(c)
          /\ hc[c] = Absent /\ hc'[c] # Absent => NewConnection(c)
          /\ \A t \in Tables : <<c, t>> \in locks' \ locks => Run(c)
      BY ConnectionGains
    <3>5. Removed(c, {"closeLocks"}) => ~\E i \in procs' : job'[i].conn = c /\ IsQuery(i)'
      BY <1>1, <1>g, <1>p
    <3> HIDE DEF IsQuery
    <3> QED BY <1>1, <1>g, <2>2, <3>1, <3>2, <3>3, <3>4, <3>5
  <2> QED BY <2>1, <2>2
<1>2. ASSUME NEW c \in Conns, q'[c] # q[c], ~Closing(c) PROVE Gone(c)'
  <2>1. UNCHANGED conn /\ conn[c] # "closed" /\ q'[c].pc \notin ClosingStates
    <3>1. CASE ComQuery(c) BY <1>2, <1>t, <3>1, ComQueryStep DEF ComQuery, connVars, ClosingStates
    <3>2. CASE NextPid(c) BY <1>o, <3>2, NextPidStep DEF NextPid, connVars, ClosingStates, Phases, HandlerInv
    <3>3. CASE (Killing(c) \/ Querying(c)) /\ ~NextPid(c)
      BY <1>o, <3>3, ServingStep DEF CommandStates, ClosingStates, Phases
    <3> QED BY <1>2, <3>1, <3>2, <3>3, OwnStep
  <2> QED BY <2>1 DEF ClosingStates
<1>3. ASSUME NEW c \in Conns, Closing(c) PROVE Gone(c)'
  <2>p. ASSUME ~\E i \in procs : job[i].conn = c /\ IsQuery(i)
        PROVE  ~\E i \in procs' : job'[i].conn = c /\ IsQuery(i)'
    BY <1>3, <1>p, <2>p
  <2> USE <1>t, <1>g, GotoStep DEF ComQueryStates, connVars, sessVars, lockVars
  <2>1. CASE ConnectionClosed(c) BY <2>1 DEF ConnectionClosed
  <2>2. CASE CloseSession(c)
    <3>1. q'[c].pc = "closeHandler" /\ conn'[c] = conn[c] /\ conn[c] # "closed"
      BY <1>o, <2>2 DEF CloseSession, Phases
    <3>2. c \notin sessions' BY <2>2 DEF CloseSession, CloseConn
    <3> QED BY <3>1, <3>2
  <2>3. CASE CloseHandler(c)
    <3>1. q'[c].pc = "closeProcs" /\ conn'[c] = conn[c] /\ conn[c] # "closed"
      BY <1>o, <2>3 DEF CloseHandler, Phases
    <3>2. q[c].pc = "closeHandler" /\ sessions' = sessions /\ hc'[c] = Absent
      BY <2>3 DEF CloseHandler
    <3> QED BY <3>1, <3>2
  <2>4. CASE CloseProcs(c)
    <3>1. q'[c].pc = "closeLocks" /\ conn'[c] = conn[c] /\ conn[c] # "closed"
      BY <1>o, <2>4 DEF CloseProcs, Phases
    <3>2. q[c].pc = "closeProcs" /\ sessions' = sessions /\ hc' = hc BY <2>4 DEF CloseProcs
    <3>3. ~\E i \in procs' : job'[i].conn = c /\ IsQuery(i)'
      BY <2>4 DEF CloseProcs, KillOnlyQueries, ProcsOf, IsQuery
    <3> HIDE DEF IsQuery
    <3> QED BY <3>1, <3>2, <3>3
  <2>5. CASE CloseLocks(c)
    <3>1. q[c].pc = "closeLocks" /\ sessions' = sessions /\ hc' = hc BY <2>5 DEF CloseLocks
    <3>2. ~\E i \in procs' : job'[i].conn = c /\ IsQuery(i)' BY <2>p, <3>1
    <3>3. \A t \in Tables : <<c, t>> \notin locks' BY <2>5 DEF CloseLocks, UnlockTables
    <3> QED BY <3>1, <3>2, <3>3
  <2> QED BY <1>3, <2>1, <2>2, <2>3, <2>4, <2>5 DEF Closing
<1>4. ASSUME NEW c \in Conns PROVE Gone(c)'
  <2> HIDE DEF Gone
  <2> QED BY <1>1, <1>2, <1>3
<1> QED BY <1>4 DEF ClosedStepwise, IsQuery

-----------------------------------------------------------------------------
\* The handler before the first connection.
LEMMA InitialState == Init => TypeOK /\ HandlerInv
<1> SUFFICES ASSUME Init PROVE TypeOK /\ HandlerInv
  OBVIOUS
<1> USE BoundsAssumption DEF Init
<1>1. NoQuery \in Queries BY DEF NoQuery, Queries, ComQueryStates
<1>2. NoJob \in Jobs BY DEF NoJob, Jobs
<1>3. TypeOK
  <2>0. smLocked \in BOOLEAN BY Zenon
  <2>1. lc \in Seq(Conns) /\ pid \in 0..MaxPid OBVIOUS
  <2>2. q \in [Conns -> Queries] /\ job \in [Pids -> Jobs] BY <1>1, <1>2
  <2>3. taken \in [Pids -> 0..(MaxRows + 1)]
    <3>1. 0 \in 0..(MaxRows + 1) OBVIOUS
    <3> QED BY <3>1
  <2> QED BY <2>0, <2>1, <2>2, <2>3 DEF TypeOK
<1>4. \A c \in Conns : q[c] = NoQuery OBVIOUS
<1>5. NoQuery.pc = "idle" /\ NoQuery.pid = 0 /\ NoQuery.res = None /\ NoQuery.got = 0 /\ NoQuery.sent = 0
  BY DEF NoQuery
<1> USE DEF At
<1>6. PidsLeft
  <2>1. {d \in Conns : At(d, "pid")} = {} BY <1>4, <1>5
  <2>2. Cardinality({d \in Conns : At(d, "pid")}) = 0 BY <2>1, FS_EmptySet
  <2> QED BY <2>2 DEF PidsLeft
<1>7. Phases BY <1>4, <1>5 DEF Phases, ClosingStates
<1>8. PidsOwned BY <1>4, <1>5 DEF PidsOwned, CommandStates
<1>9. NotStarted BY <1>4, <1>5 DEF NotStarted
<1>10. RowsAccounted BY <1>4, <1>5 DEF RowsAccounted, NoJob
<1>11. Complete BY <1>4, <1>5, NoneAssumption DEF Complete
<1>12. ClosedStepwise BY <1>4, <1>5 DEF ClosedStepwise, Removed
<1>13. LocksRecorded BY DEF LocksRecorded
<1> QED BY <1>3, <1>6, <1>7, <1>8, <1>9, <1>10, <1>11, <1>12, <1>13 DEF HandlerInv

\* The server keeps its types and its inductive invariant.
THEOREM HandlerInvariant == Spec => [](TypeOK /\ HandlerInv)
<1>1. TypeOK /\ HandlerInv /\ [Next]_vars => (TypeOK /\ HandlerInv)'
  <2> SUFFICES ASSUME TypeOK, HandlerInv, [Next]_vars PROVE TypeOK' /\ HandlerInv'
    OBVIOUS
  <2>1. PidsLeft' /\ Phases' /\ PidsOwned' /\ NotStarted'
    BY PidsLeftStep, PhasesStep, PidsOwnedStep, NotStartedStep
  <2>2. RowsAccounted' /\ Complete' /\ ClosedStepwise' /\ LocksRecorded'
    BY RowsAccountedStep, CompleteStep, ClosedStepwiseStep, LocksRecordedStep
  <2> QED BY <2>1, <2>2, TypeStep DEF HandlerInv
<1> QED BY <1>1, InitialState, PTL DEF Spec

\* Every variable of the server keeps its type, and no more rows are passed on than a
\* result has.
THEOREM TypeCorrect == Spec => []TypeOK
BY HandlerInvariant, PTL

\* ConnectionClosed leaves nothing of a connection behind: no session, no entry of the
\* handler, no query in the process list, no record of a locked table, and a locked
\* table only if its Unlock failed.
THEOREM ClosedConnectionsLeaveNothing == Spec => []NothingLeftBehind
<1>1. TypeOK /\ HandlerInv => NothingLeftBehind
  <2> SUFFICES ASSUME TypeOK, HandlerInv, NEW c \in Conns, conn[c] = "closed"
               PROVE  /\ c \notin sessions /\ hc[c] = Absent
                      /\ ~\E i \in procs : job[i].conn = c /\ IsQuery(i)
                      /\ \A t \in Tables : <<c, t>> \notin locks /\ (owner[t] = c => t \in stuck)
    BY DEF NothingLeftBehind
  <2>1. /\ c \notin sessions /\ hc[c] = Absent
        /\ ~\E i \in procs : job[i].conn = c /\ IsQuery(i)
        /\ \A t \in Tables : <<c, t>> \notin locks
    BY DEF HandlerInv, ClosedStepwise, Removed
  <2>2. \A t \in Tables : owner[t] = c => t \in stuck
    BY <2>1, NoneAssumption DEF HandlerInv, LocksRecorded
  <2> QED BY <2>1, <2>2
<1> QED BY <1>1, HandlerInvariant, PTL

\* A command that ComQuery reports as successful has passed every row of its result to
\* the callback, once, and has left the process list.
THEOREM SuccessfulCommandsAreComplete == Spec => []SuccessIsComplete
<1>1. HandlerInv => SuccessIsComplete BY DEF HandlerInv, Complete, SuccessIsComplete, At
<1> QED BY <1>1, HandlerInvariant, PTL

\* A step cancels a running CREATE INDEX only as it ends it, or as a KILL of the
\* connection of the index.
LEMMA IndexStep ==
  ASSUME TypeOK, HandlerInv, [Next]_vars, NEW i \in Pids, indexer[i] = "run",
         i \in cancelled' \ cancelled
  PROVE  \/ indexer'[i] = "done"
         \/ \E c \in Conns : At(c, "kill") /\ q[c].target = job[i].conn
<1>o. PidsOwned /\ NotStarted BY DEF HandlerInv
<1>1. job[i].kind = "indexAsync" /\ ~IsQuery(i) BY <1>o DEF NotStarted, IsQuery
<1> USE DEF procVars, TypeOK
<1>2. ASSUME NEW j \in Pids, Goroutine(j) PROVE indexer'[i] = "done"
  <2>1. CASE IndexCreated(j) BY <2>1 DEF IndexCreated, Done
  <2> QED BY <1>1, <1>2, <2>1 DEF Goroutine, ReaderQuit, ReaderNext, CheckerLook, Done
<1>3. ASSUME NEW c \in Conns, Closing(c) PROVE FALSE
  BY <1>1, <1>3 DEF Closing, ConnectionClosed, CloseSession, CloseHandler, CloseProcs, CloseLocks,
     KillOnlyQueries
<1>4. ASSUME NEW c \in Conns, Killing(c) PROVE At(c, "kill") /\ q[c].target = job[i].conn
  BY <1>4 DEF Killing, HandleKill, KillRemove, KillSession, KillClose, Kill, ProcsOf
<1>5. ASSUME NEW c \in Conns, RunFails(c) \/ UnlockFails(c) \/ Run(c) PROVE FALSE
  <2>1. indexer[q[c].pid] = "none" BY <1>5, <1>o DEF RunFails, UnlockFails, Run, At, NotStarted
  <2>2. q[c].pid = i BY <1>5 DEF RunFails, UnlockFails, Run, Done
  <2> QED BY <2>1, <2>2
<1>6. ASSUME NEW c \in Conns, CloseRows(c) PROVE FALSE BY <1>1, <1>6 DEF CloseRows, Done
<1>7. ASSUME NEW c \in Conns,
             NextPid(c) \/ AddProcess(c) \/ LookupConn(c) \/ RecvRow(c) \/ RecvErr(c) \/ Timeout(c)
             \/ SendBatch(c) \/ LastCallback(c)
      PROVE  FALSE
  BY <1>7 DEF NextPid, AddProcess, LookupConn, RecvRow, RecvErr, Timeout, SendBatch, LastCallback
<1>8. ASSUME NEW c \in Conns, Accept(c) \/ NewConnection(c) \/ Hangup(c) \/ ComQuery(c) PROVE FALSE
  BY <1>8 DEF Accept, NewConnection, Hangup, ComQuery
<1>9. CASE UNCHANGED vars BY <1>9 DEF vars
<1> QED BY <1>2, <1>3, <1>4, <1>5, <1>6, <1>7, <1>8, <1>9 DEF Next, Querying

\* The end of its connection does not cancel a running CREATE INDEX.
THEOREM IndexesOutliveConnections == Spec => IndexOutlivesConnection
<1> DEFINE A == \A i \in Pids : indexer[i] = "run" /\ i \in cancelled' \ cancelled =>
                  \/ indexer'[i] = "done"
                  \/ \E c \in Conns : At(c, "kill") /\ q[c].target = job[i].conn
<1>1. TypeOK /\ HandlerInv /\ [Next]_vars => A BY IndexStep
<1>2. TypeOK /\ HandlerInv /\ [Next]_vars => [A]_vars BY <1>1
<1>3. Spec => [][Next]_vars BY DEF Spec
<1>4. Spec => [][A]_vars BY <1>2, <1>3, HandlerInvariant, PTL
<1> QED BY <1>4 DEF IndexOutlivesConnection

=============================================================================
