# Verification of p2p-crawler

TLA+ models of the Ethereum node crawler in `src/crawler`, the TLC runs that
check them, and TLAPS proofs of the safety properties of every module. Every
definition names the code it stands for in `PROJECT.json` ("map"); names are the
source's names where TLA+ allows.

## 1. The system

| part | code | state | operations | modelled by |
|---|---|---|---|---|
| socket pool | `pool.go` | the channel of idle discv5 sockets, the field that holds it, a read-write lock, one `PoolConn` per borrower | `NewChannelPool`, `Get`, `put`, `Close`, `PoolConn.Close`, `MarkUnusable`, `Len` | `Discv5Pool`, `ConnPool` |
| crawler core | `crawler.go`, `main.go` | tokens, `ReqCh`, `DHTCh`, `OutputCh`, `databaseCh`, `Cache` under `mu`, the context | `Boot`, `Crawl`, `daemon`, `Close` | `Crawler`, `CrawlSpec` |
| results | `daemon`, `Boot`'s end, `db.go` | the buffer of `c.writer`, the record file, the database table | write, flush, replace a row | `Results` |
| discovery services | `discv.go` | an iterator over random nodes | `RunDiscService`, `DiscService.Run` | `Crawler` |
| database writer | `db.go` | the connection, `databaseCh` | `DB.Run`, `node2Record`, `parse` | `Results`; `Crawler` (the channel only) |
| zeus crawl | `zeus.go` | a queue of intervals, the nodes found | `crawlZeus` and functions on identifiers | `Zeus` |
| client handshake | `handshake.go`, `connection.go` | the package variable `_status`, a TCP connection per call | `getClientInfo` | `Handshake` |
| BFS crawl | `crawlBFS`, `loop`, `core.go` | two channels between a reader goroutine and the crawl, a context, a UDP socket | ping, ENR, findnode | `CrawlBFS` (its only call is commented out) |
| counters | `counter.go`, `udp.go` | ten counters under one lock | add, read | no, section 6 |
| parsers | `vparser.go`, `enr.go` | none | client version, node record | no, section 6 |
| geo, genesis, config | `geo.go`, `utils.go`, `config.go`, `common.go`, `transport.go` | a file, a `sync.Once`, constants | lookup | no, section 6 |
| REST API | `api/main` | none | queries of the database | no, section 6 |

How they interact. `Boot` puts the seeds into `ReqCh` and `Cache`, starts the two
discovery services and the daemon, and starts a `Crawl` goroutine for every token
it receives. A `Crawl` goroutine takes one node from `ReqCh`, marks it in `Cache`,
borrows a socket, runs `crawlZeus` (which returns the socket, then the token),
sends what it found to `DHTCh`, asks the node for its client info and sends it to
`OutputCh`. The daemon is the only reader of `DHTCh` and `OutputCh`: a node of
`DHTCh` that is not in `Cache` goes back to `ReqCh`, all this under `c.mu`; a result
with client info goes to `databaseCh`, which the database writer reads. When the
context times out, `Boot` closes the channels and the pool and returns, and `main`
with it; the daemon sleeps 30 seconds and closes the same channels.

Hard behaviours: bounded channels in a cycle (workers -> `DHTCh` -> daemon ->
`ReqCh` -> workers), a lock held across a channel operation, sockets and tokens
given back in a certain order and on every path, a shutdown that closes channels in
use and is done twice, a pool that is closed while sockets are borrowed, a factory
that fails, and a package variable shared by all workers without a lock. The list,
each at its line, is "hazards" in `PROJECT.json`.

What makes each part correct, in short: a socket has one owner, is open while it
has one, and is closed in the end; a node in `Cache` is crawled once and its result
reaches the daemon; tokens come back; the search of one node ends and returns all
or nothing; the status sent to peers is a usable one and its total difficulty does
not fall; what was written in time is in the file, and client info is in the table
and stays there; a BFS crawl loses no answer, returns, and leaves nothing running.

## 2. The modules

* **ConnPool**: what a borrower may rely on. A socket is unborn, idle, closed or
  in the hands of a user, and every operation is one step. `Crawler` uses its
  actions `Get`, `Dial`, `Return`, `Shut`, `Drain`.
* **Discv5Pool**: `pool.go` step by step. `field` is `c.conns # nil`, `buf` and
  `bufClosed` the channel, `readers` the lock. `Get` is `GetConns` (under `RLock`)
  followed by `GetReceive`, `GetClosed` or `GetDefault` with `DialOK`/`DialFails`, so
  a `Close` fits in between; `put` is `PutLock` and `PutFinish`, both inside the read
  lock; `Close` is `CloseSwap`, `CloseChan`, `CloseDrain`, `CloseDone`. A pending `Lock`
  keeps new readers out, as `sync.RWMutex` does. A `PoolConn` is used by one
  goroutine and closed once, which is what `crawlZeus` does; its own lock is then
  without effect and left out. `Len` only reads.
* **Crawler**: `Boot`, a slot per `Crawl` goroutine, the daemon, the discovery
  services, the database writer and the end of the process. A statement that can
  block, or that touches state another goroutine uses, is an action: the value of
  `pc`, `dpc`, `spc`, `mpc` is the place of each. `c.mu` has no variable: the daemon
  holds it across a step only in `dpc = "send"`, and every other holder locks and unlocks
  within one action. A panic ends the process: `proc` then holds its reason. What
  `crawlZeus` returns is an input (any set of nodes), which `Zeus` refines.
  `User` are slots for goroutines: a slot is used again when its goroutine ends.
* **CrawlSpec**: what the crawl as a whole promises, without channels, goroutines
  and locks: `Discover` makes a node known and owes it one crawl, `Deliver` pays
  one, `Stick` is the end of all delivering before the time is out. `Crawler` is shown to
  implement it: `known` is `Cache`, `owed[n]` the crawls `n` is due less those delivered,
  `over` the timeout or a panic, and `stuck` one of the two states the code cannot leave
  by itself: `Standstill` (the daemon waits under `c.mu` for room in `ReqCh`, and every token
  is with a goroutine that waits for `c.mu`, or lost) and `NoTokenLeft` (fewer sockets than
  workers, and `Get` failed for as many goroutines as there were tokens). So the promise has
  its conditions in it: room in `ReqCh` whenever all workers wait for `c.mu`, and a socket for
  every worker or a factory that makes enough of them.
* **Results**: what happens to a result behind `OutputCh`. The daemon writes a line
  for a connectable node and passes one with client info to `DB.Run`; `Boot` flushes,
  closes and exits. The buffer of `c.writer` is modelled as go's `bufio` works (marked
  external): fill, advance, flush in steps, so that the daemon and `Boot` can be in
  it at once. A result is a node and one of four kinds: not connectable, connectable, and
  with client info whose name yields a client or does not (`parse`, `db.go:71`: what
  `ParseVersionString` makes of a name is a choice). A row of the table is the kind it was
  last written with; nodes are numbered in the order they arrive, for `EveryNodeOnce` lets
  each come once.
* **CrawlBFS**: one call of `crawlBFS`, its reader goroutine `loop` and the goroutine
  that waits for the node's record. The node may send any packet at any time.
  `Return` goes through the deferred function, `ctxDone` is its context, `SendClosed` the
  panic of a send to a channel the call has closed.
* **Zeus**: `crawlZeus` from its first request. An identifier is a function from
  the indices of `Bits` bits, in "bytes" of `ByteBits` bits, so `mergeWith01` and
  `mergeWith10` are translated with their byte boundary; `Before` is `compareId(a, b) < 0`; `lookupDistances`, `getCommonPrefix`, `getClosetKey` are pure
  operators. A node answers a request with any of its table's nodes at the distances
  asked for, or not at all. `enode.LogDist`, `enode.DistCmp` and `findnode` are
  go-ethereum's and marked external.
* **Handshake**: `getClientInfo` in several goroutines over the shared `_status`; an
  access of one of its fields is a step. A message is the expected one or some other.
* **MC...**: the instances for TLC.
* **Discv5PoolProofs**, **Discv5PoolRefinement**, **CrawlerProofs**, **CrawlerRefinement**,
  **ResultsProofs**, **ZeusProofs**, **CrawlBFSProofs**, **HandshakeProofs**: the proofs,
  section 4.

Definitions introduced by the comment "Variant:" are plausible mistakes in the
definition below them. No specification uses them; with one put in place of the
definition it varies ("mutants" in `PROJECT.json`), the named property fails, which
shows that the property depends on that line of the code.

## 3. The runs

| run (cfg) | instance | states | shows |
|---|---|---|---|
| `Discv5Pool` | 3 sockets, 2 borrowers, 2 closers, capacity 1 | 35 000 | types, `NoSendOnClosed`, `ExclusiveOwnership`, `LiveSockets`, `NoLostSocket`, `NoStrandedSocket`, `ClosedPoolReleasesAll`, and `AtomicSpec`: it implements `ConnPool` |
| `CrawlerSafety` | 2 nodes, 3 slots, 3 sockets with a pool of 1, 2 workers, channels of 2, a seed both lookups returned | 1.8 million | types, `EveryNodeOnce`, `TokensBounded`, `SocketsBounded`, `TokenLostByGetOnly`, `ShutdownPanicsOnly` |
| `CrawlerLiveness` | 2 nodes, 1 worker, 1 discovery service, database on, channels of 1 | 202 000 | `TimeoutStops` |
| `CrawlerCrawl` | 3 nodes, 2 slots, 1 worker, no socket at the start, 1 discovery service, database on, channels of 1, no timeout | 63 000 | `CrawlImplemented`: it implements `CrawlSpec` |
| `CrawlBFS` | 3 nodes to find, records of 2 ages, channels of 1, at most 2 nodes wanted | 314 000 | types, `NoAnswerLost`, `DeadOnlyAtEnd`, `CrawlReturns`, `GoroutinesEnd` |
| `Results` | 3 results, a buffer of 2 lines, channels of 1, database on | 342 000 | types, `RecordKept`, `InfoSaved`, `ClientsKept` |
| `Zeus` | 4 bits in 2 bytes, 5 known nodes, time for 6 requests | 13 000 | types, `EndsDiffer`, `RequestsBounded`, `AllOrNothing`, `CrawlEnds` |
| `Handshake` | 2 goroutines, 3 versions, any number of calls | 184 000 | types, `StatusUsable`, `StatusSettles` |
| `CrawlerExit`, `CrawlerStandstill`, `ZeusMerge`, `HandshakeRace` | small | | each finds one statement of a comment violated, section 5 |

Why the bounds are enough. The pool's races are between two returning borrowers, or
a borrower and a closer; a third socket lets the factory be called while the channel
is full. With 2 workers and 3 slots a goroutine
that gave its token back runs beside two that hold one; the pool of `CrawlerSafety` has
fewer sockets than workers, so that `Get` dials, `put` finds the pool full and a failing
factory loses tokens. In `CrawlerLiveness` the channels of one place, `databaseCh`
included, are full and empty in turn. In `CrawlerCrawl` a goroutine
that gave its token back meets the next one at `DHTCh`, `OutputCh` and `c.mu`, a service offers
new nodes beside them, `ReqCh` has one place, and the only socket is one the factory may fail to
make: both stuck states are reached with nodes still owed, and without them in the claim the run
fails. Two goroutines with a token each are in `CrawlerSafety`. The run leaves out the timeout
(`LongCrawl`), after which `CrawlSpec` asks for no delivery, the service starts at once, and what
is found is not yet in `Cache` (`NewsOnly`), as in a network much larger than what is known; that
all steps, those of the shutdown and of any finding too, are steps of `CrawlSpec` is proved
(`CrawlRefines`). Deadlock is not checked in it: without a timeout the crawl may run out of nodes,
or stand still. A slot is a bound of the model, not of the code; with three nodes two of them are
never both held by goroutines that only the crawl of another node could free.
In `Results` the third line flushes a full buffer while `Boot` flushes it too, and a line that is
being written when `Boot` begins makes its flush short. In `CrawlBFS` a channel of one place is
full with the second answer or record, and `MaxDHTSize` of 2 lets one call end by an
answer and another by its deadline. Zeus's identifiers have two bytes of two bits, so that
the ends of an interval part inside the first byte, inside the second, and between
them. Symmetry of slots and sockets is used in the safety runs only. Bounds of the
models are constants: `MaxNodes` in `Results`, `SentCap` in `Zeus` (a counter
`RequestsBounded` keeps below it), the finite set `Conn` of sockets a run may create.

Fairness. `Discv5Pool`: a step inside a call is taken (goroutines are scheduled, the lock
serves its waiters) and a borrower gives its socket back, since `crawlZeus` defers it
and ends by its timeouts; nobody has to borrow or to close. `Crawler`: weak fairness of
`Boot`, the daemon and the writer; strong fairness of a `Crawl` goroutine, which may
wait for a channel or `c.mu` (Go's channels serve waiters in order, its mutex does not
starve them); strong fairness of the daemon's two cases, since `select` chooses at
random among those that are ready. Nothing forces the timeout, a discovery, a failure
or what a node answers. `CrawlBFS`: running goroutines are
scheduled, the deadline fires, and a read of a closed socket returns; nobody has to send
a packet. `Results`: weak fairness of the daemon, of `DB.Run` (a statement ends) and of
`Boot`; the timeout and the failure of a statement are free. `Zeus`: `findnode` returns or times out.
`Handshake`: a goroutine inside `getClientInfo` goes on, since its waits are a sleep or have a
deadline; no node has to be dialled.

## 4. The proofs

The pool, for every finite set of sockets, every set of borrowers and closers and all capacities
(`PoolAssumption`: sockets are finite, the constants are different values, and
`0 <= InitialCap <= MaxCap`, `MaxCap > 0`, the values `NewChannelPool` accepts):

* `Discv5PoolProofs`: `TypeCorrect`, `SendSafe`, `Exclusive`, `Live`, `NoneLost`,
  `NoneStranded` prove the invariants of the run `Discv5Pool`.
* `Discv5PoolRefinement`: `Implements` proves `Spec => AtomicSpec`, that every step of the
  pool is one operation of `ConnPool` or none.

The argument is in three layers. *Basic* (types, and `Places`: the readers are the borrowers
inside `put`, and a borrower has a socket exactly in `using` and `put`) is inductive by
itself. *Locking* adds what the lock is for: a borrower inside `put` has read the field as
it still is, because `CloseSwap` waits for the readers; so the channel is closed only when
the field is nil and no reader has seen it non-nil, which is `NoSendOnClosed`. That
invariant is not inductive alone, since it says nothing of the time between
`CloseSwap` and `CloseChan`. *Owning* joins `ExclusiveOwnership`, `LiveSockets` and
`NoLostSocket`, none of which is inductive alone: a drained socket is not in use because
it has one owner, and none is lost because the one closed was in the channel only.
`NoStrandedSocket` rests on Locking: a socket put into the channel finds the field
non-nil. For the refinement, `Located` says what the mapping `Where` returns: with one owner
per socket its `CHOOSE` is no choice; lemmas then say how `Where` changes with one append
or receive, and one step per action picks the operation of `ConnPool` it is.

The BFS crawl, for every finite set of nodes, all capacities and both limits
(`CrawlBFSAssumption`): `CrawlBFSProofs` proves `TypeCorrect`, `DeadAtEnd` and `AnswersKept`.
`DeadOnlyAtEnd` is not inductive; `AtEnd` adds why: a channel is closed only with the
context done, and the deferred function closes `enrChan` in a step behind the one that
cancels. `NoAnswerLost` is inductive over the types once it is written with `Named`, the nodes
of a sequence of answers: two lemmas say how `Named` changes with one receive and one send.

The crawler, for any sets of nodes, services and goroutines, every finite set of sockets and
all capacities (`CrawlerAssumption`, and `ConnPoolAssumption` of the pool it is composed with):
`CrawlerProofs` proves `TypeCorrect`, `TokensNeverBlock`, `TokensLostByGet`, `SocketsNeverMore`
and `PanicsAtShutdown`. The set of goroutines need not be finite: what is counted are those
that run, and that these are finitely many (`FewBusy`) is an invariant, for a step moves one.

* `Basic`: the types, and `Hands`: a goroutine, a service and the daemon have a node exactly
  at the places where the code does. Lemmas on a send and a receive carry the channels.
* `Counted`: `FewBusy` and `TokensBounded`. `TokenStep` says what any step does to tokens and
  their holders; all the rest is the arithmetic of one element more or less. The same summary
  gives the action property `TokenLostByGetOnly`.
* `SocketsBounded` is not inductive: a `Get` that finds the pool empty dials in a later step.
  `SocketCount` counts the sockets in use with the goroutines that are about to dial, and
  needs `Borrowing` (a borrower is in `crawlZeus`, with one socket). When `Get` finds none
  idle, every socket in use belongs to a token holder, and another one holds the token that
  this goroutine has: with `TokensBounded` there is room for one more.
* `Quiet`: until the time is out nobody has closed a channel or begun to.

`CrawlerRefinement` proves `NodesOnce`, which is `Spec => []EveryNodeOnce`, and from it
`CrawlRefines`: every step of the crawler is `Discover`, `Deliver`, the end, or no step of
`CrawlSpec`. `Times` and `Outputs` count a node in a channel; lemmas say how an append and a
receive change the count, and `Sums` relates `Traces`, the positions and goroutines of a
node, to the sum of these counts. `EveryNodeOnce` is inductive once the seeds are
known to stay in `Cache` (`Seeds`): only the steps in `Moving` touch what it counts. In the
refinement `owed` is that sum (`OwedTraces`), so the same lemmas say which abstract step it is;
`StuckStays` says that no step of the code undoes `Standstill` or `NoTokenLeft`, which is what
lets `CrawlSpec` say "for good".

The results, for any number of them, all capacities and any size of the buffer
(`ResultsAssumption`): `ResultsProofs` proves `TypeCorrect`, `RecordSafe` and `ClientsSafe`.
`RecordKept` speaks of the end only. `Recorded` says why it comes true: until `Boot` has written what it
took from the buffer (`Alone`), the lines of before the timeout are a prefix of the file
followed by the lines that count, `Held(n)`; while `Boot` writes, of the file and the `bn` lines it
took; from then on of the file. So it does not matter that `FlushReset` may repeat or drop
lines: they are later ones. For `ClientsSafe`, `HasInfo` says of every place on the way to the
table that its result has client info while the time is not out, so a row that loses its client
then is one written with a name that did not parse.

The zeus crawl, for identifiers of any length of at least 4 bits, any size of bytes, a finite
table and time for two requests or more (`ZeusAssumption`). First what the functions compute:
`FirstDifference` (`getCommonPrefix` is the first index where the ends differ), hence `Closer` is a
strict total order, so `ClosestIsUnique`: the loop of `getClosetKey` finds the same node in whatever
order the nodes come, as the model's `CHOOSE` has it; `TargetsOnTheirSide`; `ThreeDistances`. Then
`TypeCorrect`, `ProperPairs`, `SplitsWithin`, `BoundedRequests` and
`ReturnsAllOrNothing`. `RequestsBounded` needs the budget of each place (`Budget`), for the time
is looked at once per pair. The identifiers are functions and not numbers so that this can be
proved: nothing in the provers relates the bits of a number to its powers of 2.

The handshake, for any goroutines, versions and total difficulties (`HandshakeAssumption`):
`HighestCommon` says what `negotiateEthProtocol` returns; `TypeCorrect`, `UsableStatus`,
`MadeOnce`, `SettledStatus` and `SkipsNewerOnly` follow from one invariant, in which a goroutine
that will make the status has negotiated a version, and one past that point has seen or made one.
`SettledStatus` is the safety step to `StatusSettles`: once there is a status no goroutine joins
those about to make one, and by `MadeOnce` none of them does so twice.
`SkipsNewerOnly` is what holds of the comment in `handshake.go:58`, section 5.

That a finite set has a least element is induction over data, which the library states with an
operator as parameter. `LeastElement` in `ZeusProofs` and `GreatestNumber` in `HandshakeProofs` get
it from two facts of the library without one: strict inclusion of finite sets is well-founded, and a
well-founded relation has minimal elements; the sets are those below an element.

Checked by TLC only, since they need fairness and ENABLED, which are out of the provers' reach:
`ClosedPoolReleasesAll`, the liveness half of `CrawlImplemented`, `TimeoutStops`, `CrawlReturns`,
`GoroutinesEnd`, `InfoSaved`, `StatusSettles` and `CrawlEnds`. Every other property of a passing run is a theorem.

## 5. Where code and comments disagree

* `OutputsSaved`: the daemon sleeps 30 seconds before it saves what is in `OutputCh`
  (`crawler.go:303`), and `Boot` has ended the process by then.
* `DaemonCanAdd`: the daemon waits for room in `ReqCh` under `c.mu` (`crawler.go:330`), while every
  token holder has taken a node and waits for `c.mu`: a standstill until the timeout.
* `LeftTargetSplits`: `mergeWith01` and `mergeWith10` compute the byte in which the ends part and do
  not write it back (`zeus.go:145-151`).
* `TDNeverFalls`: the total difficulty of `_status` is compared and set without a lock
  (`handshake.go:182-184`), and `_status` itself may be replaced (`handshake.go:159`).

Seen while modelling and covered by no run of its own:

* "If node provides no eth version, we can skip it" (`handshake.go:58`), but a peer that offers eth/67
  or eth/68 only, which the hello lists (`handshake.go:119-120`), is skipped too: versions above 66
  are not looked at (`connection.go:196`). `SkipsNewerOnly` proves what does hold.
* "send the tokens to determine the number of workers parallel" (`crawler.go:224`), but a
  token is back when `crawlZeus` ends (`zeus.go:190`), while the goroutine goes on for the
  client info and the channels: more than `Workers` goroutines run (`Crawler` has more slots
  than tokens for that).
* A seed that both first lookups return is crawled twice although `crawler.go:346` says "never
  crawled" (`EveryNodeOnce` states the exception).
* `pool.go:24` says that closing a connection of a full or destroyed pool counts as an error,
  while `put` returns nil; `NewChannelPool`'s error is dropped, and the first `Get` without a pool
  panics; `dial` leaks its TCP connection when the RLPx handshake fails.
* In `crawlBFS`, `count` starts at 0 in every round (`crawler.go:477`), so it never reaches `Threshold`
  = 2: a node that repeats itself is asked until the deadline. A record that does not parse
  ends `loop`, and `loop` takes packets from any sender (`from` only serves to answer a ping).
  The call gives back a token it never took (`crawler.go:412`), which is its caller's: `CrawlBFS`
  takes the send to find room, as it does while the caller holds one.
* Client info whose name does not parse (`vparser.go:48-81`: empty, an enode URL, two versions, version
  0.0.0) is written with an empty `clients` column (`db.go:71`) over a row that had one, and the node
  leaves the API's list (`api.go:59`). `ClientsKept` excepts it by name.
* `Pong` counts a packet when sending it failed, `Ping` when it did not (`core.go:67`, `core.go:39`);
  `counter.go` compares with 2 times and draws with 0.6 where its comments say 2.5 and half.
* A skipped peer's total difficulty is stored as the text `<nil>` (`db.go:69`), and a sequence number
  from 2^63 on as a negative one (`db.go:93`).

## 6. Not modelled

* Counters (`counter.go`, `udp.go`): every method is one addition or one read under one lock, no
  code decides anything by a counter but `AddNodesNum`, whose draw has no consequence; each
  property would restate an assignment.
* Parsers (`vparser.go`, `enr.go`): functions from text to a record without state. What they do
  is cut strings, and a model of that would be the program once more.
* `geo.go`: one lookup under a lock; its result is stored and never looked at. That `Boot` closes the
  file while it may be read (`crawler.go:253`) is a data race of the library's memory mapping.
* `utils.go`, `config.go`, `common.go`: constants and a `sync.Once`; the values are constants of the
  models. `transport.go`: declarations nothing uses.
* `api/main`: handlers that query the database and keep nothing.
* In modelled parts: keys, logger, leveldb (a store behind go-ethereum's own lock), the counter's
  ticker, which prints and changes nothing, `readHeaderInfo` and `Node.GetEnodeV4`, which nothing
  calls. The contents of an `enode.Node`, which `zeus.go:197` overwrites while others may read it,
  are not modelled: a node is its identity.

## 7. Plan

1. Done: `ConnPool`, `Discv5Pool`, `Crawler`, `CrawlSpec`, `Results`, `CrawlBFS`, `Zeus` and
   `Handshake`, with the proofs of their safety properties and the safety half of both refinements.
2. Next: shared lemmas said once where two proofs repeat them; the safety steps that lead to a
   liveness property where they can be said without fairness, such as the places of `Crawler` in
   which a token is on its way back; that `TargetsOnTheirSide` bounds what a split can ask for.
