------------------------------- MODULE CrawlBFS --------------------------------
(***************************************************************************)
(* One call of crawlBFS (crawler/crawler.go) with the two goroutines it    *)
(* starts: loop, which reads the packets of the call's own UDP socket, and *)
(* the one that waits for the node's record. The handlers of core.go are   *)
(* part of their steps. The three share two bounded channels, which the    *)
(* call closes, and a context. The node is free to send any packet at any  *)
(* time, asked or not, and so is anybody else: loop does not look at the   *)
(* sender. Nothing calls crawlBFS at present (crawler.go:356-359).         *)
(***************************************************************************)
EXTENDS Naturals, Sequences, FiniteSets

CONSTANTS Found,      \* the nodes the answers may name
          MaxSeq,     \* bound on the sequence numbers of records
          ChanCap,    \* capacity of nodesChan and enrChan: 32
          MaxDHTSize, Threshold,
          Nil         \* the nil *enode.Node

ASSUME CrawlBFSAssumption ==
  /\ IsFiniteSet(Found) /\ MaxSeq \in Nat
  /\ ChanCap \in Nat \ {0} /\ MaxDHTSize \in Nat \ {0} /\ Threshold \in Nat
  /\ Nil \notin [own : BOOLEAN, seq : 0..MaxSeq]

VARIABLES
  dead,      \* a send to a closed channel has ended the process
  ctxDone,   \* RoundInterval has passed, or cancel was called
  open,      \* conn
  nodesChan, enrChan, \* their contents
  shut,      \* those of them that are closed
  mpc, res,  \* of crawlBFS itself; the keys of its cache are the nodes of res
  lpc, item, \* of loop: its place, and what it is about to send
  epc,       \* of the goroutine that waits for the record
  seq,       \* node.Seq()
  seen       \* history: the nodes named in the Neighbors packets read so far

mainVars == <<mpc, res>>
loopVars == <<lpc, item, seen>>
enrVars  == <<epc, seq>>
shared   == <<dead, ctxDone, open, shut>>
vars == <<shared, nodesChan, enrChan, mainVars, loopVars, enrVars>>

\* A record that passed enode.New: of this node or another one. Nil stands for
\* one that did not pass.
Record == [own : BOOLEAN, seq : 0..MaxSeq]

MainPC == {"ping", "enr", "round", "wait", "token", "conn", "cancel", "close", "done"}
LoopPC == {"check", "read", "sendENR", "sendNodes", "done"}

TypeOK ==
  /\ dead \in BOOLEAN /\ ctxDone \in BOOLEAN /\ open \in BOOLEAN
  /\ nodesChan \in Seq(SUBSET Found) /\ Len(nodesChan) <= ChanCap
  /\ enrChan \in Seq(Record \cup {Nil}) /\ Len(enrChan) <= ChanCap
  /\ shut \subseteq {"nodesChan", "enrChan"}
  /\ mpc \in MainPC /\ res \subseteq Found
  /\ lpc \in LoopPC
  /\ lpc = "sendENR" => item \in Record \cup {Nil}
  /\ lpc = "sendNodes" => item \subseteq Found
  /\ epc \in {"none", "wait", "done"}
  /\ seq \in 0..MaxSeq /\ seen \subseteq Found

Init ==
  /\ dead = FALSE /\ ctxDone = FALSE /\ open = TRUE
  /\ nodesChan = <<>> /\ enrChan = <<>> /\ shut = {}
  /\ mpc = "ping" /\ res = {}
  /\ lpc = "check" /\ item = {} /\ seen = {}
  /\ epc = "none" /\ seq \in 0..MaxSeq

\* context.WithTimeout.
Deadline ==
  /\ ~ctxDone /\ ctxDone' = TRUE
  /\ UNCHANGED <<dead, open, shut, nodesChan, enrChan, mainVars, loopVars, enrVars>>

-------------------------------------------------------------------------------
(* crawlBFS. *)

\* Ping, and then getENR: a request that cannot be sent, or for getENR cannot be
\* encoded, ends the crawl.
Ping ==
  /\ mpc = "ping" /\ mpc' \in {"enr", "token"}
  /\ UNCHANGED <<shared, nodesChan, enrChan, res, loopVars, enrVars>>

GetENR ==
  /\ mpc = "enr"
  /\ \/ mpc' = "round" /\ epc' = "wait"
     \/ mpc' = "token" /\ UNCHANGED epc
  /\ UNCHANGED <<shared, nodesChan, enrChan, res, loopVars, seq>>

\* findNode for every seed of generateRandomNode; its errors are only logged.
FindNodes ==
  /\ mpc = "round" /\ ~ctxDone
  /\ mpc' = "wait"
  /\ UNCHANGED <<shared, nodesChan, enrChan, res, loopVars, enrVars>>

RoundEnds ==
  /\ mpc = "round" /\ ctxDone
  /\ shut' = shut \cup {"nodesChan"}
  /\ mpc' = "token"
  /\ UNCHANGED <<dead, ctxDone, open, nodesChan, enrChan, res, loopVars, enrVars>>

\* Variant: an answer that names a node known already is dropped.
MergeNew(answer) == IF answer \cap res = {} THEN res \cup answer ELSE res

Merge(answer) == res \cup answer

\* count starts at 0 in every round, so an answer without new nodes makes it 1.
Enough(answer) ==
  \/ (IF answer \subseteq res THEN 1 ELSE 0) >= Threshold
  \/ Cardinality(Merge(answer)) >= MaxDHTSize

TakeNodes ==
  /\ mpc = "wait" /\ nodesChan # <<>>
  /\ nodesChan' = Tail(nodesChan)
  /\ res' = Merge(Head(nodesChan))
  /\ mpc' = IF Enough(Head(nodesChan)) THEN "token" ELSE "round"
  /\ UNCHANGED <<shared, enrChan, loopVars, enrVars>>

\* Variant: the second select waits for nodes only.
WaitForNodes == FALSE

WaitEnds == ctxDone

\* This return leaves nodesChan open.
WaitTimeout ==
  /\ mpc = "wait" /\ WaitEnds
  /\ mpc' = "token"
  /\ UNCHANGED <<shared, nodesChan, enrChan, res, loopVars, enrVars>>

\* Variant: the socket stays open.
KeepConn == UNCHANGED open

CloseConn == open' = FALSE

\* Variant: enrChan is closed before the context is cancelled.
CloseFirst == [token |-> "conn", conn |-> "close", close |-> "cancel", cancel |-> "done"]

\* The deferred function: the token goes back, conn is closed, the context
\* cancelled, and half a second later enrChan closed.
\* The token always finds room: the caller holds the one it took (as in crawlZeus,
\* TokensBounded of Crawler), and tokens has a place for each.
Deferred == [token |-> "conn", conn |-> "cancel", cancel |-> "close", close |-> "done"]

Return ==
  /\ mpc \in DOMAIN Deferred /\ mpc' = Deferred[mpc]
  /\ IF mpc = "conn" THEN CloseConn ELSE UNCHANGED open
  /\ ctxDone' = (ctxDone \/ mpc = "cancel")
  /\ shut' = IF mpc = "close" THEN shut \cup {"enrChan"} ELSE shut
  /\ UNCHANGED <<dead, nodesChan, enrChan, res, loopVars, enrVars>>

MainStep ==
  Ping \/ GetENR \/ FindNodes \/ RoundEnds \/ TakeNodes \/ WaitTimeout \/ Return

-------------------------------------------------------------------------------
(* loop. *)

LoopChecks ==
  /\ lpc = "check"
  /\ lpc' = IF ctxDone THEN "done" ELSE "read"
  /\ UNCHANGED <<shared, nodesChan, enrChan, mainVars, item, seen, enrVars>>

\* handleResponse returns any error of the socket and of the packet, and loop
\* ends at the first.
ReadFails ==
  /\ lpc = "read" /\ lpc' = "done"
  /\ UNCHANGED <<shared, nodesChan, enrChan, mainVars, item, seen, enrVars>>

\* A Ping is answered, sent or not; Pong and ENRRequest are discarded.
ReadOther ==
  /\ lpc = "read" /\ open
  /\ lpc' = "check"
  /\ UNCHANGED <<shared, nodesChan, enrChan, mainVars, item, seen, enrVars>>

ReadENR ==
  /\ lpc = "read" /\ open
  /\ item' \in Record \cup {Nil}
  /\ lpc' = "sendENR"
  /\ UNCHANGED <<shared, nodesChan, enrChan, mainVars, seen, enrVars>>

\* Nodes whose key does not decode are left out, so the list may be empty.
ReadNeighbors ==
  /\ lpc = "read" /\ open
  /\ item' \in SUBSET Found /\ seen' = seen \cup item'
  /\ lpc' = "sendNodes"
  /\ UNCHANGED <<shared, nodesChan, enrChan, mainVars, enrVars>>

\* Variant: a full channel takes one more.
RoomPlusOne(chan) == Len(chan) <= ChanCap

Room(chan) == Len(chan) < ChanCap

\* After a record that did not parse loop sends nil and ends.
SendENR ==
  /\ lpc = "sendENR" /\ "enrChan" \notin shut /\ Room(enrChan)
  /\ enrChan' = Append(enrChan, item)
  /\ lpc' = IF item = Nil THEN "done" ELSE "check"
  /\ item' = {}
  /\ UNCHANGED <<shared, nodesChan, mainVars, seen, enrVars>>

SendNodes ==
  /\ lpc = "sendNodes" /\ "nodesChan" \notin shut /\ Room(nodesChan)
  /\ nodesChan' = Append(nodesChan, item)
  /\ lpc' = "check" /\ item' = {}
  /\ UNCHANGED <<shared, enrChan, mainVars, seen, enrVars>>

\* A send to a closed channel, also one that waited for room when it closed.
SendClosed ==
  /\ \/ lpc = "sendENR" /\ "enrChan" \in shut
     \/ lpc = "sendNodes" /\ "nodesChan" \in shut
  /\ dead' = TRUE
  /\ UNCHANGED <<ctxDone, open, shut, nodesChan, enrChan, mainVars, loopVars, enrVars>>

LoopSends == SendENR \/ SendNodes \/ SendClosed
LoopStep == LoopChecks \/ ReadFails \/ ReadOther \/ ReadENR \/ ReadNeighbors \/ LoopSends

-------------------------------------------------------------------------------
(* The goroutine that waits for the record. *)

\* The node is replaced by its own newer record, if netutil.CheckRelayIP lets it.
Newer(record) == record # Nil /\ record.own /\ record.seq > seq

TakeRecord ==
  /\ epc = "wait" /\ enrChan # <<>>
  /\ enrChan' = Tail(enrChan)
  /\ epc' = "done"
  /\ \/ UNCHANGED seq
     \/ Newer(Head(enrChan)) /\ seq' = Head(enrChan).seq
  /\ UNCHANGED <<shared, nodesChan, mainVars, loopVars>>

\* The context is done, or enrChan is closed and yields nil.
RecordWaitEnds ==
  /\ epc = "wait"
  /\ ctxDone \/ (enrChan = <<>> /\ "enrChan" \in shut)
  /\ epc' = "done"
  /\ UNCHANGED <<shared, nodesChan, enrChan, mainVars, loopVars, seq>>

EnrStep == TakeRecord \/ RecordWaitEnds

-------------------------------------------------------------------------------
\* loop waits for room in nodesChan, which nobody reads or closes any more.
Stuck == lpc = "sendNodes" /\ "nodesChan" \notin shut /\ ~Room(nodesChan)

AllEnded == mpc = "done" /\ epc \in {"none", "done"} /\ (lpc = "done" \/ Stuck)

Next == ~dead /\ (Deadline \/ MainStep \/ LoopStep \/ EnrStep)

Spec == Init /\ [][Next]_vars

Run(A) == ~dead /\ A

\* Running goroutines are scheduled and the timer fires. Nobody has to send a
\* packet, but a read of a closed socket returns.
FairSpec ==
  /\ Spec
  /\ WF_vars(Run(Deadline)) /\ WF_vars(Run(MainStep)) /\ WF_vars(Run(EnrStep))
  /\ WF_vars(Run(LoopChecks)) /\ WF_vars(Run(~open /\ ReadFails)) /\ WF_vars(Run(LoopSends))

-------------------------------------------------------------------------------
(* Properties. *)

\* Before the crawl is over every node that loop read in an answer is in res or
\* on its way there: neither a full channel nor an answer that repeats nodes
\* (crawler.go:485-492) loses one.
NoAnswerLost ==
  ~ctxDone =>
    seen = res \cup (UNION {nodesChan[i] : i \in 1..Len(nodesChan)})
             \cup (IF lpc = "sendNodes" THEN item ELSE {})

\* The channels are closed while loop may still send to them, and the process
\* dies of it; but only once the context is done. Before that a loop that finds
\* its channel full, because the node sent more records or answers than are
\* wanted, waits and does no harm.
DeadOnlyAtEnd == dead => ctxDone

\* The call returns, whatever the node does not answer: the context ends both
\* selects (crawler.go:461, 479).
CrawlReturns == <>(mpc = "done" \/ dead)

\* When the call has returned its goroutines end with it, because the socket is
\* closed and the context cancelled. The one that does not is a loop that waits
\* for room in a nodesChan left open (crawler.go:479-480).
GoroutinesEnd == mpc = "done" ~> AllEnded \/ dead
===============================================================================
