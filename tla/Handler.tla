------------------------------ MODULE Handler ------------------------------
(***************************************************************************)
(* The MySQL server: Listener.Accept and Handler (server/), the session    *)
(* manager (server/context.go), Engine.Query (engine.go), the process list *)
(* (sql/processlist.go), the query process node (sql/plan/process.go) and  *)
(* the table locks of the catalog (sql/catalog.go, sql/plan/lock.go).      *)
(*                                                                         *)
(* Vitess, which is external, runs one goroutine per connection: it calls  *)
(* NewConnection, ComQuery for one command after the other, and, when the  *)
(* socket is gone, ConnectionClosed.  ComQuery starts two more goroutines, *)
(* one that reads rows and one that watches the socket, and talks to them  *)
(* over unbuffered channels.  A step is a critical section of one of the   *)
(* mutexes, or a channel operation.                                        *)
(***************************************************************************)
EXTENDS Integers, Sequences, FiniteSets, SequencesExt

CONSTANTS
  Conns,          \* connections; the socket of a connection has its name
  Kinds,          \* what the clients send, a subset of AllKinds
  Tables,         \* lockable tables
  MaxPid,         \* commands in a behaviour
  MaxRows,        \* rows of a result
  RowsBatch,      \* rowsBatch
  ReadTimeout,    \* h.readTimeout # 0
  SocketCheck,    \* the sockstate package is implemented on this platform
  SocketMayFail,  \* a look at the state of the socket may return an error
  RowsMayFail,    \* rows.Next, rowToSQL or the callback may return an error
  BuilderMayFail, \* the session builder may return an error
  None, Absent

AllKinds == {"select", "dml", "index", "indexAsync", "killQuery", "killConn",
             "lock", "unlock"}
Pids == 1..MaxPid

ASSUME KindsAssumption == Kinds \subseteq AllKinds
ASSUME NoneAssumption == None \notin Conns \cup AllKinds \cup {"ok", "err"} /\ None # Absent
ASSUME BoundsAssumption == IsFiniteSet(Conns) /\ MaxPid \in Nat /\ MaxRows \in Nat /\ RowsBatch \in Nat

VARIABLES
  conn,      \* conn[c]: "none" | "accepted" | "open" | "closing" | "closed"
  killed,    \* connections on which MysqlConn.Close was called
  broken,    \* sockets that the remote end has closed
  lc,        \* h.lc
  hc,        \* h.c: conn -> its NetConn (None when there is none), or Absent
  sessions,  \* s.sessions, s.idxRegs and s.viewRegs
  smLocked,  \* s.mu was left locked
  pid,       \* s.pid
  procs,     \* keys of pl.procs
  cancelled, \* pids whose context is cancelled
  job,       \* job[i]: the command with pid i: [conn, kind, rows]
  q,         \* q[c]: ComQuery on c: [pc, pid, kind, target,
             \* got (rows in r), sent, batches, res (the outcome)]
  reader,    \* reader[i]: the goroutine that reads the rows of command i
  taken,     \* taken[i]: rows that it has read
  checker,   \* checker[i]: the goroutine that watches the socket
  quit,      \* pids whose quit channel is closed
  indexer,   \* indexer[i]: the goroutine of an asynchronous CREATE INDEX
  locks,     \* c.locks: pairs <<connection, table>>
  owner,     \* owner[t]: who holds the lock of table t, or None
  stuck      \* history: tables whose Unlock failed, and has not succeeded since

vars == <<conn, killed, broken, lc, hc, sessions, smLocked, pid, procs, cancelled, job, q,
          reader, taken, checker, quit, indexer, locks, owner, stuck>>

connVars == <<conn, killed, broken, lc, hc>>
sessVars == <<sessions, smLocked, pid>>
procVars == <<procs, cancelled>>
goVars   == <<reader, taken, checker, quit, indexer>>
lockVars == <<locks, owner, stuck>>

NoQuery == [pc |-> "idle", pid |-> 0, kind |-> None, target |-> None,
            got |-> 0, sent |-> 0, batches |-> FALSE, res |-> None]
NoJob == [conn |-> None, kind |-> None, rows |-> 0]

Init ==
  /\ conn = [c \in Conns |-> "none"] /\ killed = {} /\ broken = {}
  /\ lc = <<>> /\ hc = [c \in Conns |-> Absent]
  /\ sessions = {} /\ smLocked = FALSE /\ pid = 0
  /\ procs = {} /\ cancelled = {}
  /\ job = [i \in Pids |-> NoJob]
  /\ q = [c \in Conns |-> NoQuery]
  /\ reader = [i \in Pids |-> "none"] /\ taken = [i \in Pids |-> 0]
  /\ checker = [i \in Pids |-> "none"] /\ indexer = [i \in Pids |-> "none"]
  /\ quit = {}
  /\ locks = {} /\ owner = [t \in Tables |-> None] /\ stuck = {}

At(c, l) == q[c].pc = l
Goto(c, l) == q' = [q EXCEPT ![c].pc = l]
\* ComQuery returns; what was sent stays visible until the next command
Return(c, res) == q' = [q EXCEPT ![c].pc = "idle", ![c].res = res]

\* ProcessList.Done, Kill and KillOnlyQueries
Done(i) == procs' = procs \ {i} /\ cancelled' = cancelled \cup ({i} \cap procs)

IsQuery(i) == job[i].kind \notin {"index", "indexAsync"}
ProcsOf(c) == {i \in procs : job[i].conn = c}

Kill(c) == procs' = procs \ ProcsOf(c) /\ cancelled' = cancelled \cup ProcsOf(c)
\* mutant: the type of the process is not looked at
KillEverything(c) ==
  procs' = procs \ ProcsOf(c) /\ cancelled' = cancelled \cup ProcsOf(c)

KillOnlyQueries(c) ==
  LET is == {i \in ProcsOf(c) : IsQuery(i)} IN
  procs' = procs \ is /\ cancelled' = cancelled \cup is

-----------------------------------------------------------------------------
(***************************************************************************)
(* Connections                                                             *)
(***************************************************************************)
\* Listener.Accept and AddNetConnection
Accept(c) ==
  /\ conn[c] = "none"
  /\ conn' = [conn EXCEPT ![c] = "accepted"]
  /\ lc' = Append(lc, c)
  /\ UNCHANGED <<killed, broken, hc, sessVars, procVars, job, q, goVars, lockVars>>

NewConnection(c) ==
  /\ conn[c] = "accepted"
  /\ conn' = [conn EXCEPT ![c] = "open"]
  /\ hc' = [hc EXCEPT ![c] = IF lc = <<>> THEN None ELSE Last(lc)]
  /\ lc' = IF lc = <<>> THEN lc ELSE Front(lc)
  /\ UNCHANGED <<killed, broken, sessVars, procVars, job, q, goVars, lockVars>>

\* the remote end of the socket goes away
Hangup(c) ==
  /\ conn[c] = "open" /\ c \notin broken
  /\ broken' = broken \cup {c}
  /\ UNCHANGED <<conn, killed, lc, hc, sessVars, procVars, job, q, goVars, lockVars>>

\* mutant: a connection without a session is waited for
CloseConnNeedsSession(c) ==
  ~smLocked /\ c \in sessions /\ sessions' = sessions \ {c} /\ UNCHANGED <<smLocked, pid>>

\* ConnectionClosed: vitess calls it between two commands when its read fails
ConnectionClosed(c) ==
  /\ conn[c] = "open" /\ At(c, "idle") /\ c \in killed \cup broken
  /\ conn' = [conn EXCEPT ![c] = "closing"]
  /\ Goto(c, "closeSession")
  /\ UNCHANGED <<killed, broken, lc, hc, sessVars, procVars, job, goVars, lockVars>>

\* SessionManager.CloseConn
CloseConn(c) == ~smLocked /\ sessions' = sessions \ {c} /\ UNCHANGED <<smLocked, pid>>

CloseSession(c) ==
  /\ At(c, "closeSession")
  /\ CloseConn(c)
  /\ Goto(c, "closeHandler")
  /\ UNCHANGED <<connVars, procVars, job, goVars, lockVars>>

CloseHandler(c) ==
  /\ At(c, "closeHandler")
  /\ hc' = [hc EXCEPT ![c] = Absent]
  /\ Goto(c, "closeProcs")
  /\ UNCHANGED <<conn, killed, broken, lc, sessVars, procVars, job, goVars, lockVars>>

CloseProcs(c) ==
  /\ At(c, "closeProcs")
  /\ KillOnlyQueries(c)
  /\ Goto(c, "closeLocks")
  /\ UNCHANGED <<connVars, sessVars, job, goVars, lockVars>>

Recorded(c) == {t \in Tables : <<c, t>> \in locks}

\* mutant: the record is dropped and the tables stay locked
UnlockTablesForget(c, failed) ==
  /\ locks' = {l \in locks : l[1] # c}
  /\ stuck' = (stuck \ Recorded(c)) \cup failed
  /\ UNCHANGED owner

\* Catalog.UnlockTables: the record is deleted as a whole, also when tables are not
\* found any more or their Unlock fails
UnlockTables(c, failed) ==
  /\ owner' = [t \in Tables |-> IF t \in Recorded(c) \ failed THEN None ELSE owner[t]]
  /\ locks' = {l \in locks : l[1] # c}
  /\ stuck' = (stuck \ Recorded(c)) \cup failed

\* an error is only logged
CloseLocks(c) ==
  /\ At(c, "closeLocks")
  /\ \E failed \in SUBSET Recorded(c) : UnlockTables(c, failed)
  /\ conn' = [conn EXCEPT ![c] = "closed"]
  /\ Goto(c, "idle")
  /\ UNCHANGED <<killed, broken, lc, hc, sessVars, procVars, job, goVars>>

-----------------------------------------------------------------------------
(***************************************************************************)
(* ComQuery up to the rows                                                 *)
(***************************************************************************)
\* NewContextWithQuery: getOrCreateSession, which leaves s.mu locked when the
\* builder fails, and nextPid
ComQuery(c) ==
  /\ conn[c] = "open" /\ c \notin killed \cup broken /\ At(c, "idle")
  /\ pid + Cardinality({d \in Conns : At(d, "pid")}) < MaxPid
  /\ ~smLocked
  /\ \/ /\ sessions' = sessions \cup {c}
        /\ \E k \in Kinds, t \in Conns :
             q' = [q EXCEPT ![c] = [NoQuery EXCEPT !.pc = "pid", !.kind = k, !.target = t]]
        /\ UNCHANGED smLocked
     \/ /\ BuilderMayFail /\ c \notin sessions
        /\ smLocked' = TRUE
        /\ UNCHANGED <<sessions, q>>
  /\ UNCHANGED <<connVars, pid, procVars, job, goVars, lockVars>>

NextPid(c) ==
  /\ At(c, "pid") /\ ~smLocked
  /\ pid' = pid + 1
  /\ \E n \in 0..MaxRows :
       job' = [job EXCEPT ![pid + 1] =
                 [conn |-> c, kind |-> q[c].kind,
                  rows |-> IF q[c].kind = "select" THEN n
                           ELSE IF q[c].kind = "dml" THEN 1 ELSE 0]]
  /\ q' = [q EXCEPT ![c].pid = pid + 1,
                    ![c].pc = IF q[c].kind \in {"killQuery", "killConn"} THEN "kill"
                              ELSE "addProcess"]
  /\ UNCHANGED <<connVars, sessions, smLocked, procVars, goVars, lockVars>>

\* handleKill
HandleKill(c) ==
  /\ At(c, "kill")
  /\ Kill(q[c].target)
  /\ IF q[c].kind = "killConn" THEN Goto(c, "killRemove") ELSE Return(c, "ok")
  /\ UNCHANGED <<connVars, sessVars, job, goVars, lockVars>>

KillRemove(c) ==
  /\ At(c, "killRemove")
  /\ hc' = [hc EXCEPT ![q[c].target] = Absent]
  /\ IF hc[q[c].target] = Absent THEN Return(c, "err") ELSE Goto(c, "killSession")
  /\ UNCHANGED <<conn, killed, broken, lc, sessVars, procVars, job, goVars, lockVars>>

KillSession(c) ==
  /\ At(c, "killSession")
  /\ CloseConn(q[c].target)
  /\ Goto(c, "killClose")
  /\ UNCHANGED <<connVars, procVars, job, goVars, lockVars>>

\* MysqlConn.Close
KillClose(c) ==
  /\ At(c, "killClose")
  /\ killed' = killed \cup {q[c].target}
  /\ Return(c, "ok")
  /\ UNCHANGED <<conn, broken, lc, hc, sessVars, procVars, job, goVars, lockVars>>

\* Engine.Query: AddProcess; the pid cannot be taken
AddProcess(c) ==
  /\ At(c, "addProcess")
  /\ procs' = procs \cup {q[c].pid}
  /\ Goto(c, "run")
  /\ UNCHANGED <<connVars, sessVars, cancelled, job, goVars, lockVars>>

\* Engine.Query: an error of Analyze or RowIter is followed by Done
RunFails(c) ==
  /\ At(c, "run") /\ RowsMayFail
  /\ Done(q[c].pid)
  /\ Return(c, "err")
  /\ UNCHANGED <<connVars, sessVars, job, goVars, lockVars>>

\* UNLOCK TABLES returns the error of UnlockTables
UnlockFails(c) ==
  /\ At(c, "run") /\ q[c].kind = "unlock"
  /\ \E failed \in SUBSET Recorded(c) : failed # {} /\ UnlockTables(c, failed)
  /\ Done(q[c].pid)
  /\ Return(c, "err")
  /\ UNCHANGED <<connVars, sessVars, job, goVars>>

\* LockTables.RowIter: a table that is taken is skipped with a warning
LockTables(c) ==
  \E t \in Tables :
    /\ owner' = [owner EXCEPT ![t] = IF @ = None THEN c ELSE @]
    /\ locks' = IF owner[t] \in {None, c} THEN locks \cup {<<c, t>>} ELSE locks
    /\ UNCHANGED stuck

\* Engine.Query: RowIter.  CREATE INDEX marks its process as done by itself.
Run(c) ==
  /\ At(c, "run")
  /\ LET i == q[c].pid
         k == q[c].kind
     IN /\ IF k = "lock" THEN LockTables(c)
           ELSE IF k = "unlock" THEN UnlockTables(c, {}) ELSE UNCHANGED lockVars
        /\ IF k = "index" THEN Done(i) ELSE UNCHANGED procVars
        /\ indexer' = IF k = "indexAsync" THEN [indexer EXCEPT ![i] = "run"] ELSE indexer
  /\ Goto(c, "lookup")
  /\ UNCHANGED <<connVars, sessVars, job, reader, taken, checker, quit>>

\* the goroutine of an asynchronous CREATE INDEX
IndexCreated(i) ==
  /\ indexer[i] = "run"
  /\ indexer' = [indexer EXCEPT ![i] = "done"]
  /\ Done(i)
  /\ UNCHANGED <<connVars, sessVars, job, q, reader, taken, checker, quit, lockVars>>

\* h.c is read without h.mu
LookupConn(c) ==
  /\ At(c, "lookup")
  /\ \/ /\ hc[c] = Absent
        /\ Return(c, "err")
        /\ UNCHANGED <<reader, checker>>
     \/ /\ hc[c] # Absent
        /\ reader' = [reader EXCEPT ![q[c].pid] = "check"]
        /\ checker' = [checker EXCEPT ![q[c].pid] = IF SocketCheck /\ hc[c] # None
                                                THEN hc[c] ELSE "done"]
        /\ Goto(c, "loop")
  /\ UNCHANGED <<connVars, sessVars, procVars, job, taken, quit, indexer, lockVars>>

-----------------------------------------------------------------------------
(***************************************************************************)
(* The goroutine that reads the rows                                       *)
(***************************************************************************)
ReaderQuit(i) ==
  /\ reader[i] = "check"
  /\ reader' = [reader EXCEPT ![i] = IF i \in quit THEN "done" ELSE "next"]
  /\ UNCHANGED <<connVars, sessVars, procVars, job, q, taken, checker, quit, indexer, lockVars>>

\* rows.Next: trackedRowIter calls Done at io.EOF, and not after another error
ReaderNext(i) ==
  /\ reader[i] = "next"
  /\ \/ /\ taken[i] < job[i].rows
        /\ taken' = [taken EXCEPT ![i] = @ + 1]
        /\ reader' = [reader EXCEPT ![i] = "row"]
        /\ UNCHANGED procVars
     \/ /\ taken[i] = job[i].rows
        /\ reader' = [reader EXCEPT ![i] = "eof"]
        /\ IF IsQuery(i) THEN Done(i) ELSE UNCHANGED procVars
        /\ UNCHANGED taken
     \/ /\ RowsMayFail \/ i \in cancelled
        /\ reader' = [reader EXCEPT ![i] = "err"]
        /\ UNCHANGED <<taken, procVars>>
  /\ UNCHANGED <<connVars, sessVars, job, q, checker, quit, indexer, lockVars>>

(***************************************************************************)
(* The goroutine that watches the socket                                   *)
(***************************************************************************)
\* GetConnInode and GetInodeSockState may fail, and do so after quit was closed, too,
\* if it was closed since it was last looked at
CheckerLook(i) ==
  /\ checker[i] \in Conns
  /\ \/ i \in quit /\ checker' = [checker EXCEPT ![i] = "done"]
     \/ /\ checker[i] \in broken \/ SocketMayFail
        /\ checker' = [checker EXCEPT ![i] = "err"]
  /\ UNCHANGED <<connVars, sessVars, procVars, job, q, reader, taken, quit, indexer, lockVars>>

(***************************************************************************)
(* The row loop of ComQuery                                                *)
(***************************************************************************)
InLoop(c) == At(c, "loop") /\ q[c].got < RowsBatch

Quit(c) == quit' = quit \cup {q[c].pid}

\* row := <-rowChan; an OkResult ends the loop
RecvRow(c) ==
  LET i == q[c].pid IN
  /\ InLoop(c) /\ reader[i] = "row"
  /\ reader' = [reader EXCEPT ![i] = "check"]
  /\ \/ /\ q' = [q EXCEPT ![c].got = @ + 1,
                         ![c].pc = IF q[c].kind = "dml" THEN "close" ELSE "loop"]
        /\ UNCHANGED quit
     \/ RowsMayFail /\ Return(c, "err") /\ Quit(c)          \* rowToSQL
  /\ UNCHANGED <<connVars, sessVars, procVars, job, taken, checker, indexer, lockVars>>

\* err = <-errChan, from either goroutine
RecvErr(c) ==
  LET i == q[c].pid IN
  /\ InLoop(c)
  /\ \/ /\ reader[i] = "eof"
        /\ reader' = [reader EXCEPT ![i] = "done"]
        /\ Goto(c, "close")
        /\ UNCHANGED <<quit, checker>>
     \/ /\ reader[i] = "err"
        /\ reader' = [reader EXCEPT ![i] = "done"]
        /\ Return(c, "err") /\ Quit(c)
        /\ UNCHANGED checker
     \/ /\ checker[i] = "err"
        /\ checker' = [checker EXCEPT ![i] = "done"]
        /\ Return(c, "err") /\ Quit(c)
        /\ UNCHANGED reader
  /\ UNCHANGED <<connVars, sessVars, procVars, job, taken, indexer, lockVars>>

Timeout(c) ==
  /\ InLoop(c) /\ ReadTimeout
  /\ Return(c, "err") /\ Quit(c)
  /\ UNCHANGED <<connVars, sessVars, procVars, job, reader, taken, checker, indexer, lockVars>>

\* mutant: the rows of a full batch are not cleared
SendBatchTwice(c) ==
  /\ At(c, "loop") /\ q[c].got = RowsBatch
  /\ q' = [q EXCEPT ![c].sent = @ + q[c].got, ![c].got = 1, ![c].batches = TRUE]
  /\ UNCHANGED quit
  /\ UNCHANGED <<connVars, sessVars, procVars, job, reader, taken, checker, indexer, lockVars>>

\* a full batch goes to the callback
SendBatch(c) ==
  /\ At(c, "loop") /\ q[c].got = RowsBatch
  /\ \/ /\ q' = [q EXCEPT ![c].sent = @ + q[c].got, ![c].got = 0, ![c].batches = TRUE]
        /\ UNCHANGED quit
     \/ RowsMayFail /\ Return(c, "err") /\ Quit(c)
  /\ UNCHANGED <<connVars, sessVars, procVars, job, reader, taken, checker, indexer, lockVars>>

\* close(quit) and rows.Close, which marks a query process as done
CloseRows(c) ==
  /\ At(c, "close")
  /\ Quit(c)
  /\ IF IsQuery(q[c].pid) THEN Done(q[c].pid) ELSE UNCHANGED procVars
  /\ \/ Goto(c, "last")
     \/ RowsMayFail /\ Return(c, "err")
  /\ UNCHANGED <<connVars, sessVars, job, reader, taken, checker, indexer, lockVars>>

\* the last callback, unless batches were sent and nothing is left
LastCallback(c) ==
  /\ At(c, "last")
  /\ q' = [q EXCEPT ![c].pc = "idle", ![c].res = "ok",
                    ![c].sent = IF q[c].got = 0 /\ q[c].batches THEN @ ELSE @ + q[c].got]
  /\ UNCHANGED <<connVars, sessVars, procVars, job, goVars, lockVars>>
-----------------------------------------------------------------------------
Closing(c) ==
  ConnectionClosed(c) \/ CloseSession(c) \/ CloseHandler(c) \/ CloseProcs(c) \/ CloseLocks(c)

Killing(c) == HandleKill(c) \/ KillRemove(c) \/ KillSession(c) \/ KillClose(c)

Querying(c) ==
  \/ NextPid(c) \/ AddProcess(c) \/ RunFails(c) \/ UnlockFails(c) \/ Run(c)
  \/ LookupConn(c)
  \/ RecvRow(c) \/ RecvErr(c) \/ Timeout(c) \/ SendBatch(c) \/ CloseRows(c)
  \/ LastCallback(c)

Goroutine(i) ==
  ReaderQuit(i) \/ ReaderNext(i) \/ CheckerLook(i) \/ IndexCreated(i)

Next ==
  \/ \E c \in Conns :
       \/ Accept(c) \/ NewConnection(c) \/ Hangup(c) \/ ComQuery(c)
       \/ Closing(c) \/ Killing(c) \/ Querying(c)
  \/ \E i \in Pids : Goroutine(i)

Spec == Init /\ [][Next]_vars

\* The goroutines of the connections and those that read rows proceed when they can.
\* Clients need not do anything, and nothing depends on the other goroutines.
FairSpec ==
  /\ Spec
  /\ \A c \in Conns : WF_vars(Closing(c) \/ Killing(c) \/ Querying(c))
  /\ \A i \in Pids : WF_vars(ReaderQuit(i) \/ ReaderNext(i))
-----------------------------------------------------------------------------
ComQueryStates ==
  {"idle", "pid", "kill", "killRemove", "killSession", "killClose", "addProcess", "run",
   "lookup", "loop", "close", "last", "closeSession", "closeHandler", "closeProcs", "closeLocks"}

\* the states in which ComQuery serves a command that has its pid, and those of
\* ConnectionClosed
CommandStates ==
  {"kill", "killRemove", "killSession", "killClose", "addProcess", "run", "lookup", "loop",
   "close", "last"}
ClosingStates == {"closeSession", "closeHandler", "closeProcs", "closeLocks"}

Queries ==
  [pc : ComQueryStates, pid : 0..MaxPid, kind : Kinds \cup {None}, target : Conns \cup {None},
   got : 0..RowsBatch, sent : 0..(MaxRows + 1), batches : BOOLEAN, res : {None, "ok", "err"}]
Jobs == [conn : Conns \cup {None}, kind : Kinds \cup {None}, rows : 0..(MaxRows + 1)]

\* Every variable has its type; the rows passed on never exceed the result.
TypeOK ==
  /\ conn \in [Conns -> {"none", "accepted", "open", "closing", "closed"}]
  /\ killed \subseteq Conns /\ broken \subseteq Conns
  /\ lc \in Seq(Conns)
  /\ hc \in [Conns -> Conns \cup {None, Absent}]
  /\ sessions \subseteq Conns /\ smLocked \in BOOLEAN /\ pid \in 0..MaxPid
  /\ procs \subseteq Pids /\ cancelled \subseteq Pids
  /\ job \in [Pids -> Jobs]
  /\ q \in [Conns -> Queries]
  /\ reader \in [Pids -> {"none", "check", "next", "row", "eof", "err", "done"}]
  /\ taken \in [Pids -> 0..(MaxRows + 1)]
  /\ checker \in [Pids -> Conns \cup {"none", "err", "done"}]
  /\ indexer \in [Pids -> {"none", "run", "done"}]
  /\ quit \subseteq Pids
  /\ locks \subseteq Conns \X Tables /\ owner \in [Tables -> Conns \cup {None}]
  /\ stuck \subseteq Tables

\* Once ConnectionClosed has returned, nothing of the connection is left: no
\* session, no entry of the handler, no query in the process list, no record of a
\* locked table and, unless its Unlock failed, no locked table, although other
\* connections may have killed it or its queries meanwhile.
NothingLeftBehind ==
  \A c \in Conns : conn[c] = "closed" =>
    /\ c \notin sessions /\ hc[c] = Absent
    /\ ~\E i \in procs : job[i].conn = c /\ IsQuery(i)
    /\ \A t \in Tables : <<c, t>> \notin locks /\ (owner[t] = c => t \in stuck)

\* A command that ComQuery reports as successful is complete: a SELECT has passed
\* every row to the callback exactly once, also when the last batch is full or
\* empty, and a query is no longer in the process list, whichever of io.EOF, Close
\* and KILL has ended it first (trackedRowIter).
SuccessIsComplete ==
  \A c \in Conns : At(c, "idle") /\ q[c].res = "ok" =>
    /\ q[c].kind = "select" => q[c].sent = job[q[c].pid].rows
    /\ IsQuery(q[c].pid) => q[c].pid \notin procs

\* A running CREATE INDEX is cancelled by a KILL of its connection or when it is
\* done, and by nothing else: the end of its connection spares it.
IndexOutlivesConnection ==
  [][\A i \in Pids : indexer[i] = "run" /\ i \in cancelled' \ cancelled =>
       \/ indexer'[i] = "done"
       \/ \E c \in Conns : At(c, "kill") /\ q[c].target = job[i].conn]_vars

\* KILL CONNECTION ends the connection although its query may be anywhere between
\* its pid and its last row, unless a failed session builder has left s.mu locked.
KilledIsClosed == \A c \in Conns : c \in killed ~> conn[c] = "closed" \/ smLocked
-----------------------------------------------------------------------------
(***************************************************************************)
(* What makes these inductive                                              *)
(***************************************************************************)
\* Every command that waits for its pid will find one within the bound.
PidsLeft == pid + Cardinality({d \in Conns : At(d, "pid")}) <= MaxPid

\* The states of ConnectionClosed are those of a connection that is closing.
Phases ==
  \A c \in Conns :
    /\ q[c].pc \in ClosingStates => conn[c] = "closing"
    /\ conn[c] \in {"none", "accepted", "closed"} => At(c, "idle")

\* A pid belongs to the command that nextPid gave it to; before that it is in none
\* of the tables.
PidsOwned ==
  /\ \A i \in Pids : i > pid => i \notin procs /\ reader[i] = "none" /\ indexer[i] = "none"
  /\ \A c \in Conns :
       /\ At(c, "pid") => q[c].pid = 0 /\ q[c].kind \in Kinds /\ q[c].target \in Conns
       /\ q[c].pc \in CommandStates => q[c].pid # 0
       /\ q[c].pc \in {"kill", "killRemove", "killSession", "killClose"} =>
            q[c].kind \in {"killQuery", "killConn"} /\ q[c].target \in Conns
       /\ q[c].pid = 0 => q[c].res = None /\ q[c].sent = 0 /\ q[c].got = 0
       /\ q[c].pid # 0 =>
            q[c].pid <= pid /\ job[q[c].pid].conn = c /\ job[q[c].pid].kind = q[c].kind

\* What a command has before the goroutines that serve it are started.
NotStarted ==
  /\ \A i \in Pids : /\ reader[i] = "none" => taken[i] = 0
                     /\ indexer[i] = "run" => job[i].kind = "indexAsync"
  /\ \A c \in Conns :
       /\ q[c].pc \in {"kill", "killRemove", "killSession", "killClose", "addProcess"}
            => q[c].pid \notin procs
       /\ q[c].pc \in {"kill", "killRemove", "killSession", "killClose", "addProcess", "run"}
            => indexer[q[c].pid] = "none"
       /\ q[c].pc \in {"kill", "killRemove", "killSession", "killClose", "addProcess", "run",
                        "lookup"}
            => reader[q[c].pid] = "none" /\ q[c].sent = 0 /\ q[c].got = 0

\* Every row that the reader has taken was sent, is in r, or is on rowChan.
RowsAccounted ==
  /\ \A i \in Pids : /\ taken[i] <= job[i].rows
                     /\ reader[i] = "eof" => taken[i] = job[i].rows
  /\ \A c \in Conns :
       LET i == q[c].pid IN
       /\ i # 0 => q[c].sent <= taken[i]
       /\ At(c, "loop") => q[c].sent + q[c].got + (IF reader[i] = "row" THEN 1 ELSE 0) = taken[i]
       /\ q[c].pc \in {"close", "last"} =>
            /\ q[c].sent + q[c].got <= taken[i]
            /\ q[c].kind = "select" => q[c].sent + q[c].got = job[i].rows

\* SuccessIsComplete, also while the connection is being closed.
Complete ==
  \A c \in Conns :
    /\ At(c, "last") /\ IsQuery(q[c].pid) => q[c].pid \notin procs
    /\ q[c].pc \in {"idle"} \cup ClosingStates /\ q[c].res = "ok"
       => /\ q[c].kind = "select" => q[c].sent = job[q[c].pid].rows
          /\ IsQuery(q[c].pid) => q[c].pid \notin procs

\* What ConnectionClosed has removed does not come back.
Removed(c, states) == conn[c] = "closed" \/ q[c].pc \in states
ClosedStepwise ==
  \A c \in Conns :
    /\ Removed(c, {"closeHandler", "closeProcs", "closeLocks"}) => c \notin sessions
    /\ Removed(c, {"closeProcs", "closeLocks"}) => hc[c] = Absent
    /\ Removed(c, {"closeLocks"}) => ~\E i \in procs : job[i].conn = c /\ IsQuery(i)
    /\ Removed(c, {}) => \A t \in Tables : <<c, t>> \notin locks

\* The owner of a table has it on record, unless UnlockTables failed on it and forgot
\* it all the same.
LocksRecorded ==
  \A t \in Tables : owner[t] # None => <<owner[t], t>> \in locks \/ t \in stuck

HandlerInv ==
  /\ PidsLeft /\ Phases /\ PidsOwned /\ NotStarted /\ RowsAccounted /\ Complete
  /\ ClosedStepwise /\ LocksRecorded
=============================================================================
