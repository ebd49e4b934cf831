------------------------------- MODULE Crawler --------------------------------
(***************************************************************************)
(* The crawler of crawler/crawler.go: Boot, which turns tokens into Crawl  *)
(* goroutines until the time is out; the Crawl goroutines; the daemon that *)
(* reads what they find; the discovery services of discv.go; the database  *)
(* writer of db.go; and the shutdown, which closes the channels while all  *)
(* of them run. The sockets come from ConnPool, which Discv5Pool (pool.go) *)
(* implements. What a crawl finds is an input: crawlZeus returns any set.  *)
(***************************************************************************)
EXTENDS ConnPool, Integers, Sequences

CONSTANTS Node,         \* the nodes of the network
          Disc,         \* the discovery services of RunDiscService
          Boot,         \* c.BootNodes: two lookups appended, so a node may recur
          Workers,      \* config.Workers
          InitialCap,   \* sockets NewChannelPool makes
          ChanCap,      \* DefaultChanelSize: capacity of the four channels
          IsSql,        \* config.IsSql
          NoNode

\* User, the goroutines that borrow sockets, are the slots of Crawl goroutines:
\* the code bounds their number by nothing but memory. A slot is used again.
\* Boot's loop would block for ever if the seeds did not fit in ReqCh.
ASSUME CrawlerAssumption ==
  /\ NoNode \notin Node
  /\ Boot \in Seq(Node) /\ 0 < Len(Boot) /\ Len(Boot) <= ChanCap
  /\ Workers \in Nat \ {0} /\ ChanCap \in Nat \ {0}
  /\ InitialCap \in Nat /\ InitialCap <= MaxCap /\ InitialCap <= Cardinality(Conn)
  /\ IsSql \in BOOLEAN

VARIABLES
  proc,      \* "running", "exited", or what the process panicked with
  ctxDone,   \* TotalTimeout has passed
  poolUp,    \* NewChannelPool succeeded: its error is dropped (crawler.go:145)
  tokens,    \* the number of tokens in c.tokens
  chan,      \* the contents of ReqCh, DHTCh and OutputCh
  shut,      \* those of them that are closed
  dbq,       \* the number of nodes in databaseCh
  Cache,     \* c.Cache
  pc, node, todo,  \* of a Crawl goroutine: its place, node and unsent result
  dpc, dnode,      \* of the daemon; dpc = "send" is where it holds c.mu
  spc, snode,      \* of a discovery service
  mpc,       \* of Boot
  done       \* history: how often the daemon took node n from OutputCh

procVars == <<proc, ctxDone, poolUp>>
crawlVars == <<pc, node, todo>>
chanVars == <<chan, shut, dbq>>
allButProc == <<ctxDone, poolUp, poolVars, tokens, chanVars, Cache, crawlVars, dpc, dnode,
                spc, snode, mpc, done>>
vars == <<proc, allButProc>>

\* What no step of Boot, of a worker, of the daemon, of a service changes.
bootFrame   == <<poolUp, Cache, node, todo, dnode, spc, snode, done>>
crawlFrame  == <<procVars, shut, dbq, dpc, dnode, spc, snode, mpc, done>>
daemonFrame == <<procVars, poolVars, tokens, crawlVars, spc, snode, mpc>>
discFrame   == <<procVars, poolVars, tokens, shut, dbq, Cache, crawlVars, dpc, dnode, mpc, done>>

Channel == {"DHTCh", "OutputCh", "ReqCh"}

\* Panics the shutdown may cause, and those of a dependency that failed.
ShutdownPanic == {"closed channel", "closed twice", "nil node"}
OtherPanic    == {"sql", "disc", "nil pool"}

CrawlPC  == {"none", "select", "mark", "get", "dial", "zeus", "token", "send", "info", "output"}
ClosePC  == Channel \cup {"pool", "drainpool"}
MainPC   == {"serve", "exit"} \cup ClosePC
DaemonPC == {"select", "lock", "send", "db", "sleep", "drain", "draindb", "done"} \cup ClosePC

TypeOK ==
  /\ PoolTypeOK /\ Cardinality(Idlers) <= MaxCap
  /\ proc \in {"running", "exited"} \cup ShutdownPanic \cup OtherPanic
  /\ ctxDone \in BOOLEAN /\ poolUp \in BOOLEAN
  /\ tokens \in 0..Workers /\ dbq \in 0..ChanCap
  /\ DOMAIN chan = Channel /\ \A ch \in Channel : Len(chan[ch]) <= ChanCap
  /\ chan["ReqCh"] \in Seq(Node) /\ chan["DHTCh"] \in Seq(Node)
  /\ chan["OutputCh"] \in Seq(Node \X BOOLEAN)
  /\ shut \subseteq Channel
  /\ Cache \subseteq Node
  /\ pc \in [User -> CrawlPC]
  /\ node \in [User -> Node \cup {NoNode}]
  /\ todo \in [User -> SUBSET Node]
  /\ dpc \in DaemonPC /\ dnode \in Node \cup {NoNode}
  /\ spc \in [Disc -> {"start", "run", "push", "done"}]
  /\ snode \in [Disc -> Node \cup {NoNode}]
  /\ mpc \in MainPC
  /\ done \in [Node -> Nat]

\* NewCrawler has returned and Boot has put its nodes into ReqCh and Cache.
Init ==
  /\ poolUp \in BOOLEAN /\ open = TRUE
  /\ \E S \in SUBSET Conn :
       /\ Cardinality(S) = InitialCap
       /\ where = [c \in Conn |-> IF poolUp /\ c \in S THEN Idle ELSE Unborn]
  /\ proc = "running" /\ ctxDone = FALSE /\ tokens = Workers
  /\ chan = [ch \in Channel |-> IF ch = "ReqCh" THEN Boot ELSE <<>>]
  /\ shut = {} /\ dbq = 0
  /\ Cache = {Boot[i] : i \in 1..Len(Boot)}
  /\ pc = [u \in User |-> "none"]
  /\ node = [u \in User |-> NoNode]
  /\ todo = [u \in User |-> {}]
  /\ dpc = "select" /\ dnode = NoNode
  /\ spc = [s \in Disc |-> "start"]
  /\ snode = [s \in Disc |-> NoNode]
  /\ mpc = "serve"
  /\ done = [n \in Node |-> 0]

Panic(why) == proc' = why /\ UNCHANGED allButProc

\* Variant: one node more than the channel holds.
HasRoomPlusOne(ch) == Len(chan[ch]) <= ChanCap

HasRoom(ch) == Len(chan[ch]) < ChanCap

Send(ch, x) ==
  ch \notin shut /\ HasRoom(ch) /\ chan' = [chan EXCEPT ![ch] = Append(@, x)]

Receive(ch) == chan[ch] # <<>> /\ chan' = [chan EXCEPT ![ch] = Tail(@)]

\* A closed channel yields nil once it is empty.
YieldsNil(ch) == chan[ch] = <<>> /\ ch \in shut

Timeout ==
  /\ ~ctxDone /\ ctxDone' = TRUE
  /\ UNCHANGED <<proc, bootFrame, poolVars, tokens, chanVars, pc, dpc, mpc>>

-------------------------------------------------------------------------------
(* Boot: a token for every goroutine, and the end. *)

\* Variant: a goroutine is started without waiting for a token.
SpawnAnyway == tokens' = IF tokens > 0 THEN tokens - 1 ELSE 0

TakeToken == tokens > 0 /\ tokens' = tokens - 1

Spawn ==
  /\ mpc = "serve" /\ TakeToken
  /\ \E u \in User : pc[u] = "none" /\ pc' = [pc EXCEPT ![u] = "select"]
  /\ UNCHANGED <<bootFrame, proc, ctxDone, poolVars, chanVars, dpc, mpc>>

\* Variant: the loop also ends when there is no token.
StopIdle == ctxDone \/ tokens = 0

\* Variant: the loop ends only when every worker has given back its token.
StopWhenAllBack == ctxDone /\ tokens = Workers

MayStop == ctxDone

BootEnds ==
  /\ mpc = "serve" /\ MayStop
  /\ mpc' = "DHTCh"
  /\ UNCHANGED <<bootFrame, proc, ctxDone, poolVars, tokens, chanVars, pc, dpc>>

\* Crawler.Close, called by Boot's deferred function and by the daemon, closes
\* the three channels in turn and then the pool.
AfterClose(ch) ==
  CASE ch = "DHTCh" -> "OutputCh" [] ch = "OutputCh" -> "ReqCh" [] ch = "ReqCh" -> "pool"

CloseChannel ==
  /\ \E ch \in Channel \ shut :
       /\ shut' = shut \cup {ch}
       /\ \/ mpc = ch /\ mpc' = AfterClose(ch) /\ UNCHANGED dpc
          \/ dpc = ch /\ dpc' = AfterClose(ch) /\ UNCHANGED mpc
  /\ UNCHANGED <<bootFrame, proc, ctxDone, poolVars, tokens, chan, dbq, pc>>

CloseTwice == (mpc \in shut \/ dpc \in shut) /\ Panic("closed twice")

\* discv5Pool.Close; without a pool there is no method to call.
ShutPool ==
  /\ poolUp /\ Shut
  /\ \/ mpc = "pool" /\ mpc' = "drainpool" /\ UNCHANGED dpc
     \/ dpc = "pool" /\ dpc' = "drainpool" /\ UNCHANGED mpc
  /\ UNCHANGED <<bootFrame, proc, ctxDone, tokens, chanVars, pc>>

ShutNilPool == ~poolUp /\ (mpc = "pool" \/ dpc = "pool") /\ Panic("nil pool")

DrainPool ==
  /\ mpc = "drainpool" \/ dpc = "drainpool"
  /\ \E c \in Conn : Drain(c)
  /\ UNCHANGED <<bootFrame, proc, ctxDone, tokens, chanVars, pc, dpc, mpc>>

\* Boot returns and with it main: nobody waits for any goroutine.
Exit ==
  /\ mpc = "drainpool" /\ Idlers = {}
  /\ proc' = "exited" /\ mpc' = "exit"
  /\ UNCHANGED <<bootFrame, ctxDone, poolVars, tokens, chanVars, pc, dpc>>

-------------------------------------------------------------------------------
(* Crawl. *)

Goto(u, place) == pc' = [pc EXCEPT ![u] = place]

\* The context is done: the goroutine ends, and its token with it.
CrawlQuit(u) ==
  /\ pc[u] = "select" /\ ctxDone
  /\ Goto(u, "none")
  /\ UNCHANGED <<crawlFrame, poolVars, tokens, chan, Cache, node, todo>>

CrawlTake(u) ==
  /\ pc[u] = "select" /\ Receive("ReqCh")
  /\ node' = [node EXCEPT ![u] = Head(chan["ReqCh"])]
  /\ Goto(u, "mark")
  /\ UNCHANGED <<crawlFrame, poolVars, tokens, Cache, todo>>

\* node.ID() of nil, under c.mu.
CrawlTakeNil(u) ==
  pc[u] = "select" /\ YieldsNil("ReqCh") /\ dpc # "send" /\ Panic("nil node")

CrawlMark(u) ==
  /\ pc[u] = "mark" /\ dpc # "send"
  /\ Cache' = Cache \cup {node[u]}
  /\ Goto(u, "get")
  /\ UNCHANGED <<crawlFrame, poolVars, tokens, chan, node, todo>>

\* crawlZeus: c.discv5Pool.Get() finds an idle socket, or none and calls the
\* factory.
GetIdle(u) ==
  /\ pc[u] = "get" /\ poolUp
  /\ \E c \in Conn : Get(u, c)
  /\ Goto(u, "zeus")
  /\ UNCHANGED <<crawlFrame, tokens, chan, Cache, node, todo>>

\* Variant: the default case is taken although a socket is idle.
Impatient == TRUE

NoneIdle == Idlers = {}

GetNone(u) ==
  /\ pc[u] = "get" /\ poolUp /\ open /\ NoneIdle
  /\ Goto(u, "dial")
  /\ UNCHANGED <<crawlFrame, poolVars, tokens, chan, Cache, node, todo>>

DialOK(u) ==
  /\ pc[u] = "dial"
  /\ \E c \in Conn : Dial(u, c)
  /\ Goto(u, "zeus")
  /\ UNCHANGED <<crawlFrame, tokens, chan, Cache, node, todo>>

\* Get fails: the pool is closed, or the factory cannot listen. crawlZeus
\* returns before it has deferred the return of the token: the token is lost.
GetError(u) ==
  /\ (pc[u] = "get" /\ poolUp /\ ~open) \/ pc[u] = "dial"
  /\ Goto(u, "output")
  /\ UNCHANGED <<crawlFrame, poolVars, tokens, chan, Cache, node, todo>>

GetNilPool(u) == pc[u] = "get" /\ ~poolUp /\ Panic("nil pool")

\* Variant: a crawl that found nothing returns without its token.
TokenIfFound(found) == IF found = {} THEN "output" ELSE "token"

\* Variant: only a crawl that found nothing gives its token back.
TokenIfNone(found) == IF found = {} THEN "token" ELSE "send"

AfterSocket(found) == "token"

\* crawlZeus returns a set of nodes, or nil with or without an error; its
\* deferred function gives back first the socket and then the token.
ZeusEnds(u) ==
  /\ pc[u] = "zeus"
  /\ \E c \in Conn : where[c] = u /\ Return(u, c)
  /\ \E found \in SUBSET Node :
       /\ todo' = [todo EXCEPT ![u] = found]
       /\ Goto(u, AfterSocket(found))
  /\ UNCHANGED <<crawlFrame, tokens, chan, Cache, node>>

\* Variant: a crawl that found nothing ends without a result.
QuitIfNone(found) == IF found = {} THEN "none" ELSE "send"

AfterToken(found) == IF found = {} THEN "output" ELSE "send"

GiveToken(u) ==
  /\ pc[u] = "token" /\ tokens < Workers
  /\ tokens' = tokens + 1
  /\ Goto(u, AfterToken(todo[u]))
  /\ UNCHANGED <<crawlFrame, poolVars, chan, Cache, node, todo>>

CrawlSend(u) ==
  /\ pc[u] = "send"
  /\ \E n \in todo[u] :
       /\ Send("DHTCh", n)
       /\ todo' = [todo EXCEPT ![u] = @ \ {n}]
       /\ IF todo[u] = {n} THEN Goto(u, "info") ELSE UNCHANGED pc
  /\ UNCHANGED <<crawlFrame, poolVars, tokens, Cache, node>>

\* The node itself goes to OutputCh, with client info if it was connectable and
\* getClientInfo succeeded; only the database looks at that.
CrawlOutput(u) ==
  /\ pc[u] \in {"info", "output"}
  /\ \E info \in BOOLEAN :
       /\ info => pc[u] = "info" /\ IsSql
       /\ Send("OutputCh", <<node[u], info>>)
  /\ node' = [node EXCEPT ![u] = NoNode]
  /\ Goto(u, "none")
  /\ UNCHANGED <<crawlFrame, poolVars, tokens, Cache, todo>>

\* A send to a closed channel, also one that waited for room when it closed.
CrawlSendClosed(u) ==
  /\ \/ pc[u] = "send" /\ "DHTCh" \in shut
     \/ pc[u] \in {"info", "output"} /\ "OutputCh" \in shut
  /\ Panic("closed channel")

-------------------------------------------------------------------------------
(* The daemon. *)

Took(ch) == Receive(ch) /\ done' = [done EXCEPT ![Head(chan[ch])[1]] = @ + 1]

\* Results with client info go on to databaseCh.
DaemonOutput ==
  /\ dpc = "select" /\ Took("OutputCh")
  /\ dpc' = IF Head(chan["OutputCh"])[2] THEN "db" ELSE "select"
  /\ UNCHANGED <<daemonFrame, shut, dbq, Cache, dnode>>

DaemonDB ==
  /\ dpc \in {"db", "draindb"} /\ dbq < ChanCap
  /\ dbq' = dbq + 1
  /\ dpc' = IF dpc = "db" THEN "select" ELSE "drain"
  /\ UNCHANGED <<daemonFrame, chan, shut, Cache, dnode, done>>

DaemonTake ==
  /\ dpc = "select" /\ Receive("DHTCh")
  /\ dnode' = Head(chan["DHTCh"])
  /\ dpc' = "lock"
  /\ UNCHANGED <<daemonFrame, shut, dbq, Cache, done>>

\* c.mu: a node that is in Cache is dropped, another goes to ReqCh.
DaemonKnown ==
  /\ dpc = "lock" /\ dnode \in Cache
  /\ dpc' = "select" /\ dnode' = NoNode
  /\ UNCHANGED <<daemonFrame, chanVars, Cache, done>>

\* Variant: Cache is left to the worker that takes the node.
RememberLater(n) == UNCHANGED Cache

Remember(n) == Cache' = Cache \cup {n}

DaemonNew ==
  /\ dpc = "lock" /\ dnode \notin Cache
  /\ Remember(dnode)
  /\ dpc' = "send"
  /\ UNCHANGED <<daemonFrame, chanVars, dnode, done>>

\* Still under c.mu.
DaemonSend ==
  /\ dpc = "send" /\ Send("ReqCh", dnode)
  /\ dpc' = "select" /\ dnode' = NoNode
  /\ UNCHANGED <<daemonFrame, shut, dbq, Cache, done>>

DaemonSendClosed == dpc = "send" /\ "ReqCh" \in shut /\ Panic("closed channel")

\* node.ConnectAble or UpdateNode(node) of nil.
DaemonTakeNil ==
  dpc = "select" /\ (YieldsNil("OutputCh") \/ YieldsNil("DHTCh")) /\ Panic("nil node")

\* ctx.Done: sleep, Crawler.Close, and only then the rest of OutputCh.
DaemonStops ==
  /\ \/ dpc = "select" /\ ctxDone /\ dpc' = "sleep"
     \/ dpc = "sleep" /\ dpc' = "DHTCh"
     \/ dpc = "drainpool" /\ Idlers = {} /\ dpc' = "drain"
     \/ dpc = "drain" /\ YieldsNil("OutputCh") /\ dpc' = "done"
  /\ UNCHANGED <<daemonFrame, chanVars, Cache, dnode, done>>

DaemonDrains ==
  /\ dpc = "drain" /\ Took("OutputCh")
  /\ dpc' = IF IsSql THEN "draindb" ELSE "drain"
  /\ UNCHANGED <<daemonFrame, shut, dbq, Cache, dnode>>

\* db.Run takes a node and writes it, or fails and the process with it. (What else
\* Run can do is in Results.)
WriterSaves ==
  /\ dbq > 0 /\ dbq' = dbq - 1
  /\ UNCHANGED <<daemonFrame, chan, shut, Cache, dpc, dnode, done>>

WriterFails == dbq > 0 /\ Panic("sql")

-------------------------------------------------------------------------------
(* The discovery services. *)

DiscStarts(s) ==
  /\ spc[s] = "start"
  /\ spc' = [spc EXCEPT ![s] = "run"]
  /\ UNCHANGED <<discFrame, chan, snode>>

DiscFails(s) == spc[s] = "start" /\ Panic("disc")

\* The context is checked, and then a node looked for and its record asked for.
DiscFinds(s) ==
  /\ spc[s] = "run" /\ ~ctxDone
  /\ \E n \in Node : snode' = [snode EXCEPT ![s] = n]
  /\ spc' = [spc EXCEPT ![s] = "push"]
  /\ UNCHANGED <<discFrame, chan>>

DiscEnds(s) ==
  /\ spc[s] = "run" /\ ctxDone
  /\ spc' = [spc EXCEPT ![s] = "done"]
  /\ UNCHANGED <<discFrame, chan, snode>>

DiscPushes(s) ==
  /\ spc[s] = "push" /\ Send("DHTCh", snode[s])
  /\ spc' = [spc EXCEPT ![s] = "run"]
  /\ snode' = [snode EXCEPT ![s] = NoNode]
  /\ UNCHANGED discFrame

DiscPushesClosed(s) == spc[s] = "push" /\ "DHTCh" \in shut /\ Panic("closed channel")

-------------------------------------------------------------------------------
CloserStep == CloseChannel \/ CloseTwice \/ ShutPool \/ ShutNilPool \/ DrainPool
BootStep == BootEnds \/ CloserStep \/ Exit

CrawlStep(u) ==
  \/ CrawlQuit(u) \/ CrawlTake(u) \/ CrawlTakeNil(u) \/ CrawlMark(u)
  \/ GetIdle(u) \/ GetNone(u) \/ DialOK(u) \/ GetError(u) \/ GetNilPool(u)
  \/ ZeusEnds(u) \/ GiveToken(u) \/ CrawlSend(u) \/ CrawlSendClosed(u) \/ CrawlOutput(u)

DaemonWorks ==
  \/ DaemonDB \/ DaemonKnown \/ DaemonNew \/ DaemonSend \/ DaemonSendClosed \/ DaemonTakeNil
  \/ DaemonStops \/ DaemonDrains
DaemonStep == DaemonWorks \/ DaemonOutput \/ DaemonTake

DiscStep(s) ==
  \/ DiscStarts(s) \/ DiscFails(s) \/ DiscFinds(s) \/ DiscPushes(s) \/ DiscPushesClosed(s)
  \/ DiscEnds(s)

\* The process is gone and every goroutine with it.
Stopped == proc # "running" /\ UNCHANGED vars

Next ==
  \/ /\ proc = "running"
     /\ \/ Timeout \/ Spawn \/ BootStep
        \/ DaemonStep \/ WriterSaves \/ WriterFails
        \/ \E u \in User : CrawlStep(u)
        \/ \E s \in Disc : DiscStep(s)
  \/ Stopped

Spec == Init /\ [][Next]_vars

Run(A) == proc = "running" /\ A

\* Running goroutines are scheduled; crawlZeus, getClientInfo and the sleeps end
\* by their own timeouts. A channel serves its senders and receivers in order, a
\* mutex does not starve a waiter: strong fairness for a goroutine that waits for
\* one. Select chooses at random among what is ready: strong fairness for each
\* case of the daemon's. Nothing forces the timeout, a discovery or a failure.
\* Each action asks for a live process, so that fairness never revives one.
Fairness ==
  /\ WF_vars(Run(Spawn)) /\ WF_vars(Run(BootStep))
  /\ \A u \in User : SF_vars(Run(CrawlStep(u)))
  /\ WF_vars(Run(DaemonWorks)) /\ SF_vars(Run(DaemonOutput)) /\ SF_vars(Run(DaemonTake))
  /\ WF_vars(Run(WriterSaves \/ WriterFails))

FairSpec == Spec /\ Fairness

-------------------------------------------------------------------------------
(* Properties. *)

TokenHolders == {u \in User : pc[u] \in {"select", "mark", "get", "dial", "zeus", "token"}}
Times(n, s) == Cardinality({i \in 1..Len(s) : s[i] = n})

\* Where node n waits or is crawled.
Traces(n) ==
  Times(n, chan["ReqCh"]) + Cardinality({u \in User : node[u] = n})
    + Cardinality({i \in 1..Len(chan["OutputCh"]) : chan["OutputCh"][i][1] = n})
    + (IF dpc = "send" /\ dnode = n THEN 1 ELSE 0)

\* A node that is in Cache is on its way exactly once, from ReqCh through one
\* goroutine and OutputCh to the daemon: it is neither lost nor crawled again,
\* however daemon and workers interleave (crawler.go:327-331 and 343-345). Only
\* a seed that the two first lookups both returned is crawled for each of them.
Due(n) == IF n \notin Cache THEN 0 ELSE IF Times(n, Boot) > 1 THEN Times(n, Boot) ELSE 1
EveryNodeOnce == \A n \in Node : Traces(n) + done[n] = Due(n)

\* A goroutine that returns its token never waits, and never more than Workers
\* goroutines hold a token: the deferred send of crawlZeus (zeus.go:190) cannot
\* block the results behind it.
TokensBounded == tokens + Cardinality(TokenHolders) <= Workers

\* While the time is not out a token is lost only where Get fails (zeus.go:184):
\* every other way through crawlZeus, with nodes, without or with an error, gives
\* it back, so the number of workers does not dwindle with the crawl.
TokenLostByGetOnly ==
  [][\/ ctxDone
     \/ tokens' + Cardinality(TokenHolders') >= tokens + Cardinality(TokenHolders)
     \/ \E u \in User : pc[u] \in {"get", "dial"} /\ pc'[u] = "output"]_vars

\* The sockets open at one time, which are UDP listeners of the process, are
\* never more than the pool began with or, if they are more, the workers: the
\* factory is called only while every socket is with a goroutine that has a
\* token, although it may succeed long after (pool.go:99-104). With a socket for
\* every worker, as in the default configuration, it is never called.
AtLeastInitial(m) == IF InitialCap > m THEN InitialCap ELSE m
SocketsBounded ==
  Cardinality({c \in Conn : where[c] \notin {Unborn, Closed}})
    + Cardinality({u \in User : pc[u] = "dial"}) <= AtLeastInitial(Workers)

\* A closed channel, a nil node or a second close kill only a crawler whose time
\* is out: nothing closes the channels while they are in use for crawling.
ShutdownPanicsOnly == proc \in ShutdownPanic => ctxDone

\* ReqCh has no room for the node the daemon adds, under c.mu, and every token is
\* with a goroutine that has taken a node and waits for c.mu, or is lost.
Standstill ==
  /\ dpc = "send" /\ ~HasRoom("ReqCh")
  /\ tokens = 0 /\ \A u \in TokenHolders : pc[u] = "mark"

\* There are fewer sockets than workers, and Get has failed for as many goroutines
\* as there were tokens.
NoTokenLeft == InitialCap < Workers /\ tokens = 0 /\ TokenHolders = {}

\* The crawl as a whole implements CrawlSpec: whatever becomes known is owed one
\* crawl and delivered, and nothing else is delivered (crawler.go:312-333, 338-392).
\* That goes on until the time is out or the process dies, and on two conditions:
\* ReqCh has room whenever all workers wait for c.mu; and there is a socket for
\* every worker, or the factory makes enough of them that a token is left.
Stuck == Standstill \/ NoTokenLeft
Crawl == INSTANCE CrawlSpec WITH
  known <- Cache, owed <- [n \in Node |-> Due(n) - done[n]],
  over <- ctxDone \/ proc # "running", stuck <- Stuck
CrawlImplemented == Crawl!CrawlFairSpec

\* Once the time is out the process ends, whatever its goroutines wait for.
TimeoutStops == ctxDone ~> proc # "running"

\* "save the nodes in outputCh to the database" (crawler.go:302): what is in
\* OutputCh is not lost when the process ends regularly.
OutputsSaved == proc = "exited" => chan["OutputCh"] = <<>>

\* "we did not crawl_bfs the node,so we should add it to the reqch"
\* (crawler.go:327): the daemon can do so, for it never waits under c.mu for room
\* in ReqCh while every token is with a goroutine that waits for c.mu.
DaemonCanAdd == ~(proc = "running" /\ ~ctxDone /\ Standstill)
===============================================================================
