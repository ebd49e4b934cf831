-------------------------------- MODULE Results --------------------------------
(***************************************************************************)
(* What becomes of the results: the daemon of crawler/crawler.go takes     *)
(* them from OutputCh, writes a line for each connectable node through     *)
(* c.writer and hands those with client info to DB.Run (db.go), which      *)
(* replaces their rows. Boot flushes c.writer and ends the process. A      *)
(* bufio.Writer is not made for two goroutines, so its writes are split    *)
(* into steps where the other goroutine may come in between. Crawler has   *)
(* the goroutines that send the results, one for each node                 *)
(* (EveryNodeOnce), and the other channels.                                *)
(***************************************************************************)
EXTENDS Naturals, Sequences, FiniteSets

CONSTANTS MaxNodes,  \* how many results there are at most
          ChanCap,   \* capacity of OutputCh and of databaseCh
          BufSize,   \* the lines that fit in c.writer's buffer
          IsSql      \* config.IsSql

ASSUME ResultsAssumption ==
  /\ MaxNodes \in Nat /\ ChanCap \in Nat \ {0} /\ BufSize \in Nat \ {0} /\ IsSql \in BOOLEAN

VARIABLES
  proc,       \* "running", "exited" or "dead"
  ctxDone,
  sent,       \* history: how many results were sent to OutputCh
  OutputCh, outShut, databaseCh,
  buf, n, err, \* c.writer: its buffer, how many lines of it count, a sticky error
  file, fileOpen, \* the record file
  dpc, cur, dn,   \* the daemon: its place, the result in hand, the n it has read
  bpc, bn,        \* Boot: its place, the n it has read
  saving, table,  \* DB.Run: the result in hand, and the kind of row of every node
  inTime          \* history: the lines written before the timeout

\* Nodes are numbered in the order their results are sent. A node is not
\* connectable ("off"), connectable ("bare"), or so and with client info. What its
\* client calls itself then yields a client for the table, or ParseVersionString
\* returns nil ("unnamed").
Node   == 1..MaxNodes
NoNode == 0
Informed == {"unnamed", "client"}
Kind   == {"off", "bare"} \cup Informed
Result == [node : Node, kind : Kind]
None   == [node |-> NoNode, kind |-> "off"]

writer == <<buf, n, err>>
boot   == <<bpc, bn>>
db     == <<saving, table>>
allButProc == <<ctxDone, sent, OutputCh, outShut, databaseCh, writer, file, fileOpen,
                dpc, cur, dn, boot, db, inTime>>
vars == <<proc, allButProc>>

DaemonPC == {"select", "check", "copy", "advance", "flush", "write", "reset", "db",
             "sleep", "drain", "draindb", "done"}
BootPC == {"serve", "load", "write", "reset", "close", "file", "exit"}

TypeOK ==
  /\ proc \in {"running", "exited", "dead"} /\ ctxDone \in BOOLEAN /\ sent \in 0..MaxNodes
  /\ OutputCh \in Seq(Result) /\ Len(OutputCh) <= ChanCap /\ outShut \in BOOLEAN
  /\ databaseCh \in Seq(Result) /\ Len(databaseCh) <= ChanCap
  /\ buf \in [1..BufSize -> Node \cup {NoNode}] /\ n \in 0..BufSize /\ err \in BOOLEAN
  /\ file \in Seq(Node) /\ fileOpen \in BOOLEAN
  /\ dpc \in DaemonPC /\ cur \in Result \cup {None} /\ dn \in 0..BufSize
  /\ bpc \in BootPC /\ bn \in 0..BufSize
  /\ saving \in Result \cup {None}
  /\ table \in [Node -> Kind \cup {"old"}]
  /\ inTime \in Seq(Node)

\* The table has the row of an earlier crawl for every node, with its client; the
\* file is truncated.
Init ==
  /\ proc = "running" /\ ctxDone = FALSE /\ sent = 0
  /\ OutputCh = <<>> /\ outShut = FALSE /\ databaseCh = <<>>
  /\ buf = [i \in 1..BufSize |-> NoNode] /\ n = 0 /\ err = FALSE
  /\ file = <<>> /\ fileOpen = TRUE
  /\ dpc = "select" /\ cur = None /\ dn = 0
  /\ bpc = "serve" /\ bn = 0
  /\ saving = None /\ table = [x \in Node |-> "old"]
  /\ inTime = <<>>

Timeout ==
  /\ ~ctxDone /\ ctxDone' = TRUE
  /\ UNCHANGED <<proc, sent, OutputCh, outShut, databaseCh, writer, file, fileOpen,
                 dpc, cur, dn, boot, db, inTime>>

\* Variant: one more than the capacity.
RoomPlusOne(ch) == Len(ch) <= ChanCap

HasRoom(ch) == Len(ch) < ChanCap

Panic == proc' = "dead" /\ UNCHANGED allButProc

\* A goroutine of Crawl sends its result.
CrawlOutput ==
  /\ ~outShut /\ HasRoom(OutputCh)
  /\ sent < MaxNodes /\ sent' = sent + 1
  /\ \E kind \in Kind : OutputCh' = Append(OutputCh, [node |-> sent', kind |-> kind])
  /\ UNCHANGED <<proc, ctxDone, outShut, databaseCh, writer, file, fileOpen,
                 dpc, cur, dn, boot, db, inTime>>

CrawlOutputClosed == outShut /\ sent < MaxNodes /\ Panic

-------------------------------------------------------------------------------
(* The daemon. *)

daemonFrame == <<proc, ctxDone, sent, fileOpen, boot, db>>
writeFrame  == <<daemonFrame, OutputCh, outShut, databaseCh>>

\* Variant: results without client info go to the database too.
AnyToDatabase(x) == IsSql

ToDatabase(x) == IsSql /\ x.kind \in Informed

\* Client info comes with connectable nodes only (Crawl), so a result that is "off"
\* is neither written nor sent on.
DaemonTakes ==
  /\ dpc = "select" /\ OutputCh # <<>>
  /\ OutputCh' = Tail(OutputCh)
  /\ IF Head(OutputCh).kind = "off" THEN UNCHANGED <<dpc, cur>>
     ELSE dpc' = "check" /\ cur' = Head(OutputCh)
  /\ UNCHANGED <<daemonFrame, outShut, databaseCh, writer, file, dn, inTime>>

\* UpdateNode(node.n) or node.ConnectAble of nil.
DaemonTakesNil == dpc = "select" /\ outShut /\ OutputCh = <<>> /\ Panic

AfterLine ==
  IF ToDatabase(cur) THEN dpc' = "db" /\ UNCHANGED cur ELSE dpc' = "select" /\ cur' = None

\* c.writer.WriteString: a writer with an error takes nothing more, a full buffer
\* is flushed before the line is copied (the part of the line that still fits goes
\* with it).
WriteCheck ==
  /\ dpc = "check"
  /\ IF err THEN AfterLine
     ELSE dpc' = (IF n < BufSize THEN "copy" ELSE "flush") /\ UNCHANGED cur
  /\ UNCHANGED <<writeFrame, writer, file, dn, inTime>>

WriteCopy ==
  /\ dpc = "copy"
  /\ buf' = [buf EXCEPT ![n + 1] = cur.node] /\ dn' = n
  /\ dpc' = "advance"
  /\ UNCHANGED <<writeFrame, n, err, file, cur, inTime>>

\* b.n is read again or still in a register.
WriteAdvance ==
  /\ dpc = "advance"
  /\ n' \in {n + 1, dn + 1}
  /\ inTime' = IF ctxDone THEN inTime ELSE Append(inTime, cur.node)
  /\ AfterLine
  /\ UNCHANGED <<writeFrame, buf, err, file, dn>>

WriteFlush ==
  /\ dpc = "flush" /\ dn' = n
  /\ dpc' = "write"
  /\ UNCHANGED <<writeFrame, writer, file, cur, inTime>>

WriteFile ==
  /\ dpc = "write"
  /\ file' = IF fileOpen THEN file \o SubSeq(buf, 1, dn) ELSE file
  /\ err' = (err \/ ~fileOpen)
  /\ dpc' = IF fileOpen THEN "reset" ELSE "check"
  /\ UNCHANGED <<writeFrame, buf, n, cur, dn, inTime>>

WriteReset ==
  /\ dpc = "reset" /\ n' = 0
  /\ dpc' = "check"
  /\ UNCHANGED <<writeFrame, buf, err, file, cur, dn, inTime>>

\* Variant: a result that finds databaseCh full is dropped.
DropIfFull ==
  databaseCh' = IF HasRoom(databaseCh) THEN Append(databaseCh, cur) ELSE databaseCh

SendToDatabase == HasRoom(databaseCh) /\ databaseCh' = Append(databaseCh, cur)

DaemonDB ==
  /\ dpc \in {"db", "draindb"} /\ SendToDatabase
  /\ dpc' = IF dpc = "db" THEN "select" ELSE "drain"
  /\ cur' = None
  /\ UNCHANGED <<daemonFrame, OutputCh, outShut, writer, file, dn, inTime>>

\* ctx.Done: sleep, Crawler.Close, and then what is left in OutputCh.
DaemonSleeps ==
  /\ dpc = "select" /\ ctxDone
  /\ dpc' = "sleep"
  /\ UNCHANGED <<writeFrame, writer, file, cur, dn, inTime>>

DaemonCloses ==
  /\ dpc = "sleep"
  /\ ~outShut /\ outShut' = TRUE
  /\ dpc' = "drain"
  /\ UNCHANGED <<daemonFrame, OutputCh, databaseCh, writer, file, cur, dn, inTime>>

DaemonDrains ==
  /\ dpc = "drain" /\ OutputCh # <<>>
  /\ OutputCh' = Tail(OutputCh)
  /\ IF IsSql THEN dpc' = "draindb" /\ cur' = Head(OutputCh) ELSE UNCHANGED <<dpc, cur>>
  /\ UNCHANGED <<daemonFrame, outShut, databaseCh, writer, file, dn, inTime>>

DaemonEnds ==
  /\ dpc = "drain" /\ OutputCh = <<>>
  /\ dpc' = "done"
  /\ UNCHANGED <<writeFrame, writer, file, cur, dn, inTime>>

WriteStep ==
  WriteCheck \/ WriteCopy \/ WriteAdvance \/ WriteFlush \/ WriteFile \/ WriteReset
DaemonStep ==
  \/ DaemonTakes \/ DaemonTakesNil \/ WriteStep \/ DaemonDB
  \/ DaemonSleeps \/ DaemonCloses \/ DaemonDrains \/ DaemonEnds

-------------------------------------------------------------------------------
(* DB.Run. *)

dbFrame == <<ctxDone, sent, OutputCh, outShut, writer, file, fileOpen, dpc, cur, dn, boot, inTime>>

RunTakes ==
  /\ saving = None /\ databaseCh # <<>>
  /\ saving' = Head(databaseCh) /\ databaseCh' = Tail(databaseCh)
  /\ UNCHANGED <<proc, dbFrame, table>>

\* REPLACE INTO: whatever row the node had is gone, and without a parsed name the
\* new one has no client.
RunSaves ==
  /\ saving # None
  /\ table' = [table EXCEPT ![saving.node] = saving.kind]
  /\ saving' = None
  /\ UNCHANGED <<proc, dbFrame, databaseCh>>

\* Run returns the error of a statement, and the daemon panics with it.
RunFails == saving # None /\ Panic

RunStep == RunTakes \/ RunSaves \/ RunFails

\* The statement cannot be prepared, which is before Run has taken any result: none
\* is in hand and no row is replaced.
PrepareFails == IsSql /\ saving = None /\ (\A x \in Node : table[x] = "old") /\ Panic

-------------------------------------------------------------------------------
(* The end of Boot: its deferred function, and with it main. *)

bootFrame == <<ctxDone, sent, OutputCh, databaseCh, dpc, cur, dn, db, inTime>>

\* Variant: the file is closed without a flush.
NoFlush == bpc' = "close"

\* c.writer.Flush returns at once if there is nothing to write or an error.
MayFlush == bpc' = IF n = 0 \/ err THEN "close" ELSE "load"

BootEnds ==
  /\ bpc = "serve" /\ ctxDone /\ MayFlush
  /\ UNCHANGED <<proc, bootFrame, outShut, writer, file, fileOpen, bn>>

FlushLoad ==
  /\ bpc = "load" /\ bn' = n
  /\ bpc' = "write"
  /\ UNCHANGED <<proc, bootFrame, outShut, writer, file, fileOpen>>

FlushFile ==
  /\ bpc = "write" /\ file' = file \o SubSeq(buf, 1, bn)
  /\ bpc' = "reset"
  /\ UNCHANGED <<proc, bootFrame, outShut, writer, fileOpen, bn>>

\* If b.n has grown the flush was short: the rest moves to the front, and the
\* error stays. One step: what it could mix up with a line the daemon is writing is
\* in the file by now, or a later line.
FlushReset ==
  /\ bpc = "reset"
  /\ IF bn < n
       THEN /\ buf' = [i \in 1..BufSize |-> IF i <= n - bn THEN buf[i + bn] ELSE buf[i]]
            /\ n' = n - bn /\ err' = TRUE
       ELSE n' = 0 /\ UNCHANGED <<buf, err>>
  /\ bpc' = "close"
  /\ UNCHANGED <<proc, bootFrame, outShut, file, fileOpen, bn>>

BootCloses ==
  /\ bpc = "close" /\ ~outShut /\ outShut' = TRUE
  /\ bpc' = "file"
  /\ UNCHANGED <<proc, bootFrame, writer, file, fileOpen, bn>>

\* close of a closed channel, by the second of Boot and the daemon.
CloseTwice == (bpc = "close" \/ dpc = "sleep") /\ outShut /\ Panic

BootClosesFile ==
  /\ bpc = "file" /\ fileOpen' = FALSE
  /\ bpc' = "exit"
  /\ UNCHANGED <<proc, bootFrame, outShut, writer, file, bn>>

Exit ==
  /\ bpc = "exit" /\ proc' = "exited"
  /\ UNCHANGED allButProc

BootStep ==
  \/ BootEnds \/ FlushLoad \/ FlushFile \/ FlushReset \/ BootCloses \/ CloseTwice
  \/ BootClosesFile \/ Exit

-------------------------------------------------------------------------------
Stopped == proc # "running" /\ UNCHANGED vars

Next ==
  \/ /\ proc = "running"
     /\ \/ Timeout \/ CrawlOutput \/ CrawlOutputClosed
        \/ DaemonStep \/ RunStep \/ PrepareFails \/ BootStep
  \/ Stopped

Spec == Init /\ [][Next]_vars

Run(A) == proc = "running" /\ A

\* The daemon, DB.Run and Boot are scheduled, and a statement of the database ends.
FairSpec ==
  Spec /\ WF_vars(Run(DaemonStep)) /\ WF_vars(Run(RunStep)) /\ WF_vars(Run(BootStep))

-------------------------------------------------------------------------------
(* Properties. *)

\* The lines written before the timeout are in the record file when the process
\* has ended regularly, whole, in order and at its front, although the daemon may
\* write while Boot flushes (crawler.go:252, 314): what the race costs or repeats
\* are later lines.
RecordKept ==
  proc = "exited" =>
    Len(inTime) <= Len(file) /\ SubSeq(file, 1, Len(inTime)) = inTime

\* A result with client info that the daemon has taken gets into the table as it is,
\* unless the process ends: a full databaseCh makes the daemon wait and loses nothing
\* (crawler.go:320).
InfoSaved ==
  \A x \in Node : \A kind \in Informed :
    cur = [node |-> x, kind |-> kind] ~> (table[x] = kind \/ proc # "running")

HasClient(row) == row \in {"client", "old"}

\* While the time is not out a row loses its client to one thing only: client info of
\* the same node whose name does not parse (db.go:71), and then it is no longer in
\* the API's list (api.go:59). A result without client info replaces no row
\* (crawler.go:317), except among those the daemon drains after the timeout, which
\* are not looked at for it (crawler.go:307).
ClientsKept ==
  [][\A x \in Node :
       HasClient(table[x]) /\ ~HasClient(table'[x]) => ctxDone \/ table'[x] = "unnamed"]_vars
===============================================================================
