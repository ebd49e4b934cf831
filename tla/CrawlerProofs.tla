----------------------------- MODULE CrawlerProofs -----------------------------
(***************************************************************************)
(* The safety properties of Crawler that concern tokens, sockets and the   *)
(* shutdown, for any nodes, slots of goroutines, services and capacities.  *)
(* CrawlerRefinement has those that concern the nodes.                     *)
(***************************************************************************)
EXTENDS Crawler, FiniteSetTheorems, SequenceTheorems, TLAPS

USE CrawlerAssumption, ConnPoolAssumption DEF Channel

-------------------------------------------------------------------------------
(* Types. *)

\* Who has a node in hand: a goroutine from the receive of one to the send of its
\* result, a service that pushes one, the daemon between DHTCh and ReqCh.
Hands ==
  /\ \A u \in User : pc[u] \in {"none", "select"} <=> node[u] = NoNode
  /\ \A s \in Disc : spc[s] = "push" <=> snode[s] # NoNode
  /\ dpc \in {"lock", "send"} <=> dnode # NoNode

Basic == TypeOK /\ Hands

\* What TypeOK says of the channels.
Content(ch) == IF ch = "OutputCh" THEN Node \X BOOLEAN ELSE Node
ChanOK ==
  /\ DOMAIN chan = Channel
  /\ \A ch \in Channel : chan[ch] \in Seq(Content(ch)) /\ Len(chan[ch]) <= ChanCap

LEMMA ChanTyped == TypeOK => ChanOK
BY DEF TypeOK, ChanOK, Content

\* A channel is changed by a send or a receive, and no other channel with it.
LEMMA SendTyped ==
  ASSUME ChanOK, NEW ch \in Channel, NEW x \in Content(ch), Send(ch, x)
  PROVE  /\ ChanOK' /\ chan'[ch] = Append(chan[ch], x)
         /\ \A d \in Channel \ {ch} : chan'[d] = chan[d]
<1>1. /\ DOMAIN chan' = Channel /\ chan'[ch] = Append(chan[ch], x)
      /\ \A d \in Channel \ {ch} : chan'[d] = chan[d]
  BY DEF Send, ChanOK
<1>2. /\ Append(chan[ch], x) \in Seq(Content(ch))
      /\ Len(Append(chan[ch], x)) = Len(chan[ch]) + 1 /\ Len(chan[ch]) < ChanCap
      /\ Len(chan[ch]) \in Nat
  BY AppendProperties, LenProperties DEF Send, HasRoom, ChanOK
<1>3. chan'[ch] \in Seq(Content(ch)) /\ Len(chan'[ch]) <= ChanCap
  BY <1>1, <1>2
<1>4. \A d \in Channel : chan'[d] \in Seq(Content(d)) /\ Len(chan'[d]) <= ChanCap
  BY <1>1, <1>3, Zenon DEF ChanOK
<1> QED
  BY <1>1, <1>4 DEF ChanOK

LEMMA ReceiveTyped ==
  ASSUME ChanOK, NEW ch \in Channel, Receive(ch)
  PROVE  /\ ChanOK' /\ Head(chan[ch]) \in Content(ch) /\ chan[ch] # <<>>
         /\ chan'[ch] = Tail(chan[ch])
         /\ \A d \in Channel \ {ch} : chan'[d] = chan[d]
<1>1. /\ DOMAIN chan' = Channel /\ chan'[ch] = Tail(chan[ch]) /\ chan[ch] # <<>>
      /\ \A d \in Channel \ {ch} : chan'[d] = chan[d]
  BY DEF Receive, ChanOK
<1>2. /\ Tail(chan[ch]) \in Seq(Content(ch)) /\ Head(chan[ch]) \in Content(ch)
      /\ Len(Tail(chan[ch])) = Len(chan[ch]) - 1 /\ Len(chan[ch]) \in Nat
      /\ Len(chan[ch]) <= ChanCap
  BY <1>1, HeadTailProperties, LenProperties DEF ChanOK
<1>3. chan'[ch] \in Seq(Content(ch)) /\ Len(chan'[ch]) <= ChanCap
  BY <1>1, <1>2
<1>4. \A d \in Channel : chan'[d] \in Seq(Content(d)) /\ Len(chan'[d]) <= ChanCap
  BY <1>1, <1>3, Zenon DEF ChanOK
<1> QED
  BY <1>1, <1>2, <1>4 DEF ChanOK

\* The same again in the words of TypeOK.
LEMMA ChanRetyped ==
  ChanOK' =>
    /\ DOMAIN chan' = Channel /\ \A ch \in Channel : Len(chan'[ch]) <= ChanCap
    /\ chan'["ReqCh"] \in Seq(Node) /\ chan'["DHTCh"] \in Seq(Node)
    /\ chan'["OutputCh"] \in Seq(Node \X BOOLEAN)
BY DEF ChanOK, Content

\* A socket that becomes idle finds room in the pool; to take one makes room.
LEMMA IdlersFewer ==
  ASSUME Cardinality(Idlers) <= MaxCap, Idlers' \subseteq Idlers
  PROVE  Cardinality(Idlers') <= MaxCap
<1>1. IsFiniteSet(Idlers) /\ Cardinality(Idlers) \in Nat
  BY FS_Subset, FS_CardinalityType DEF Idlers
<1>2. Cardinality(Idlers') <= Cardinality(Idlers) /\ Cardinality(Idlers') \in Nat
  BY <1>1, FS_Subset, FS_CardinalityType
<1> QED
  BY <1>1, <1>2

LEMMA IdlersReturn ==
  ASSUME PoolTypeOK, Cardinality(Idlers) <= MaxCap, NEW u \in User, NEW c \in Conn, Return(u, c)
  PROVE  PoolTypeOK' /\ Cardinality(Idlers') <= MaxCap
<1>1. PoolTypeOK' /\ where[c] = u /\ \A d \in Conn \ {c} : where'[d] = where[d]
  BY DEF PoolTypeOK, Return, Move
<1>2. IsFiniteSet(Idlers) /\ Cardinality(Idlers) \in Nat
  BY FS_Subset, FS_CardinalityType DEF Idlers
<1>3. CASE open /\ Cardinality(Idlers) < MaxCap
  <2>1. Idlers' = Idlers \cup {c} /\ c \notin Idlers
    BY <1>1, <1>3 DEF Return, Move, PoolTypeOK, Idlers
  <2>2. Cardinality(Idlers') = Cardinality(Idlers) + 1
    BY <1>2, <2>1, FS_AddElement
  <2> QED
    BY <1>1, <1>2, <1>3, <2>2
<1>4. CASE ~(open /\ Cardinality(Idlers) < MaxCap)
  <2>1. where'[c] = Closed
    BY <1>4 DEF Return, Move, PoolTypeOK
  <2>2. Idlers' \subseteq Idlers
    BY <1>1, <2>1 DEF Idlers
  <2> QED
    BY <1>1, <2>2, IdlersFewer
<1> QED
  BY <1>3, <1>4

LEMMA IdlersMove ==
  ASSUME PoolTypeOK, Cardinality(Idlers) <= MaxCap, UNCHANGED open,
         NEW c \in Conn, NEW to \in User \cup {Closed}, NEW from, Move(c, from, to)
  PROVE  PoolTypeOK' /\ Cardinality(Idlers') <= MaxCap
<1>1. PoolTypeOK' /\ where'[c] = to /\ \A d \in Conn \ {c} : where'[d] = where[d]
  BY DEF PoolTypeOK, Move
<1>2. Idlers' \subseteq Idlers
  BY <1>1 DEF Idlers
<1> QED
  BY <1>1, <1>2, IdlersFewer

LEMMA BasicInit == Init => Basic
<1> SUFFICES ASSUME Init PROVE Basic
  OBVIOUS
<1>1. PoolTypeOK
  BY DEF Init, PoolTypeOK
<1>2. Cardinality(Idlers) <= MaxCap
  <2>1. PICK S \in SUBSET Conn :
          /\ Cardinality(S) = InitialCap
          /\ where = [c \in Conn |-> IF poolUp /\ c \in S THEN Idle ELSE Unborn]
    BY DEF Init
  <2>2. IsFiniteSet(S) /\ Idlers \subseteq S
    BY <2>1, FS_Subset DEF Idlers
  <2>3. Cardinality(Idlers) \in Nat /\ Cardinality(Idlers) <= Cardinality(S)
    BY <2>2, FS_Subset, FS_CardinalityType
  <2> QED
    BY <2>1, <2>3
<1>3. /\ DOMAIN chan = Channel
      /\ chan["ReqCh"] = Boot /\ chan["DHTCh"] = <<>> /\ chan["OutputCh"] = <<>>
  <2>1. chan = [ch \in Channel |-> IF ch = "ReqCh" THEN Boot ELSE <<>>]
    BY DEF Init
  <2> QED
    BY <2>1
<1>4. /\ <<>> \in Seq(Node) /\ <<>> \in Seq(Node \X BOOLEAN) /\ Len(<<>>) = 0 /\ Len(<<>>) <= ChanCap
  BY EmptySeq
<1>5. Cache \subseteq Node
  BY ElementOfSeq DEF Init
<1>6. \A ch \in Channel : Len(chan[ch]) <= ChanCap
  <2>1. \A ch \in Channel : chan[ch] = Boot \/ chan[ch] = <<>>
    BY DEF Init
  <2> QED
    BY <1>4, <2>1, Zenon
<1>7. /\ tokens \in 0..Workers /\ dbq \in 0..ChanCap /\ poolUp \in BOOLEAN /\ ctxDone \in BOOLEAN
  <2>1. tokens = Workers /\ dbq = 0
    BY DEF Init
  <2>2. poolUp \in BOOLEAN /\ ctxDone \in BOOLEAN
    BY Zenon DEF Init
  <2> QED
    BY <2>1, <2>2
<1>8. /\ pc \in [User -> CrawlPC] /\ node \in [User -> Node \cup {NoNode}]
      /\ todo \in [User -> SUBSET Node] /\ done \in [Node -> Nat]
      /\ spc \in [Disc -> {"start", "run", "push", "done"}]
      /\ snode \in [Disc -> Node \cup {NoNode}]
      /\ dpc \in DaemonPC /\ dnode \in Node \cup {NoNode} /\ mpc \in MainPC
  BY DEF Init, CrawlPC, DaemonPC, MainPC
<1>9. proc \in {"running", "exited"} \cup ShutdownPanic \cup OtherPanic /\ shut \subseteq Channel
  BY DEF Init
<1>10. TypeOK
  BY <1>1, <1>2, <1>3, <1>4, <1>5, <1>6, <1>7, <1>8, <1>9 DEF TypeOK
<1> QED
  BY <1>10 DEF Init, Basic, Hands

\* A panic changes nothing but proc.
LEMMA BasicPanic ==
  ASSUME Basic, NEW why \in ShutdownPanic \cup OtherPanic, Panic(why)
  PROVE  Basic'
BY DEF Basic, TypeOK, PoolTypeOK, Idlers, Hands, Panic, allButProc, poolVars, chanVars, crawlVars

LEMMA BasicBoot == ASSUME Basic, Timeout \/ Spawn \/ BootStep PROVE Basic'
<1> USE DEF Basic, TypeOK, Hands, bootFrame, chanVars, poolVars, CrawlPC, MainPC, DaemonPC, ClosePC
<1>1. CASE Timeout
  BY <1>1 DEF Timeout, PoolTypeOK, Idlers
<1>2. CASE Spawn
  BY <1>2 DEF Spawn, TakeToken, PoolTypeOK, Idlers
<1>3. CASE BootEnds
  BY <1>3 DEF BootEnds, MayStop, PoolTypeOK, Idlers
<1>4. CASE CloseChannel
  BY <1>4 DEF CloseChannel, AfterClose, PoolTypeOK, Idlers
<1>5. CASE CloseTwice
  BY <1>5, BasicPanic DEF CloseTwice, ShutdownPanic
<1>6. CASE ShutPool
  BY <1>6 DEF ShutPool, Shut, PoolTypeOK, Idlers
<1>7. CASE ShutNilPool
  BY <1>7, BasicPanic DEF ShutNilPool, OtherPanic
<1>8. CASE DrainPool
  <2>1. PICK c \in Conn : Drain(c)
    BY <1>8 DEF DrainPool
  <2>2. PoolTypeOK' /\ Cardinality(Idlers') <= MaxCap
    BY <2>1, IdlersMove DEF Drain
  <2> QED
    BY <1>8, <2>2 DEF DrainPool
<1>9. CASE Exit
  BY <1>9 DEF Exit, PoolTypeOK, Idlers
<1> QED
  BY <1>1, <1>2, <1>3, <1>4, <1>5, <1>6, <1>7, <1>8, <1>9 DEF BootStep, CloserStep

\* A goroutine that has just a node, and one that borrows or returns a socket.
LEMMA BasicCrawl == ASSUME Basic, NEW u \in User, CrawlStep(u) PROVE Basic'
<1> USE DEF Basic, TypeOK, Hands, crawlFrame, procVars, poolVars, CrawlPC, Goto
<1>1. CASE CrawlQuit(u)
  BY <1>1 DEF CrawlQuit, PoolTypeOK, Idlers
<1>2. CASE CrawlTake(u)
  <2>1. ChanOK' /\ Head(chan["ReqCh"]) \in Node
    BY <1>2, ChanTyped, ReceiveTyped DEF CrawlTake, Content
  <2> QED
    BY <1>2, <2>1, ChanRetyped DEF CrawlTake, PoolTypeOK, Idlers
<1>3. CASE CrawlTakeNil(u)
  BY <1>3, BasicPanic DEF CrawlTakeNil, ShutdownPanic
<1>4. CASE CrawlMark(u)
  BY <1>4 DEF CrawlMark, PoolTypeOK, Idlers
<1>5. CASE GetIdle(u)
  <2>1. PICK c \in Conn : Get(u, c)
    BY <1>5 DEF GetIdle
  <2>2. PoolTypeOK' /\ Cardinality(Idlers') <= MaxCap
    BY <2>1, IdlersMove DEF Get
  <2> QED
    BY <1>5, <2>2 DEF GetIdle
<1>6. CASE GetNone(u)
  BY <1>6 DEF GetNone, PoolTypeOK, Idlers
<1>7. CASE DialOK(u)
  <2>1. PICK c \in Conn : Dial(u, c)
    BY <1>7 DEF DialOK
  <2>2. PoolTypeOK' /\ Cardinality(Idlers') <= MaxCap
    BY <2>1, IdlersMove DEF Dial
  <2> QED
    BY <1>7, <2>2 DEF DialOK
<1>8. CASE GetError(u)
  BY <1>8 DEF GetError, PoolTypeOK, Idlers
<1>9. CASE GetNilPool(u)
  BY <1>9, BasicPanic DEF GetNilPool, OtherPanic
<1>10. CASE ZeusEnds(u)
  <2>1. PICK c \in Conn : Return(u, c)
    BY <1>10 DEF ZeusEnds
  <2>2. PoolTypeOK' /\ Cardinality(Idlers') <= MaxCap
    BY <2>1, IdlersReturn
  <2> QED
    BY <1>10, <2>2 DEF ZeusEnds, AfterSocket
<1>11. CASE GiveToken(u)
  BY <1>11 DEF GiveToken, AfterToken, PoolTypeOK, Idlers
<1>12. CASE CrawlSend(u)
  <2>1. PICK n \in todo[u] :
          /\ Send("DHTCh", n)
          /\ todo' = [todo EXCEPT ![u] = @ \ {n}]
          /\ IF todo[u] = {n} THEN Goto(u, "info") ELSE UNCHANGED pc
    BY <1>12 DEF CrawlSend
  <2>2. ChanOK'
    BY <2>1, ChanTyped, SendTyped DEF Content
  <2> QED
    BY <1>12, <2>1, <2>2, ChanRetyped DEF CrawlSend, PoolTypeOK, Idlers
<1>13. CASE CrawlSendClosed(u)
  BY <1>13, BasicPanic DEF CrawlSendClosed, ShutdownPanic
<1>14. CASE CrawlOutput(u)
  <2>1. PICK info \in BOOLEAN : Send("OutputCh", <<node[u], info>>)
    BY <1>14 DEF CrawlOutput
  <2>2. <<node[u], info>> \in Content("OutputCh")
    BY <1>14 DEF CrawlOutput, Content
  <2>3. ChanOK'
    BY <2>1, <2>2, ChanTyped, SendTyped
  <2> QED
    BY <1>14, <2>3, ChanRetyped DEF CrawlOutput, PoolTypeOK, Idlers
<1> QED
  BY <1>1, <1>2, <1>3, <1>4, <1>5, <1>6, <1>7, <1>8, <1>9, <1>10, <1>11, <1>12, <1>13, <1>14
  DEF CrawlStep

LEMMA BasicDaemon == ASSUME Basic, DaemonStep \/ WriterSaves \/ WriterFails PROVE Basic'
<1> USE DEF Basic, TypeOK, Hands, daemonFrame, procVars, poolVars, crawlVars, chanVars,
            DaemonPC, ClosePC
<1>1. CASE DaemonDB
  BY <1>1 DEF DaemonDB, PoolTypeOK, Idlers
<1>2. CASE DaemonKnown
  BY <1>2 DEF DaemonKnown, PoolTypeOK, Idlers
<1>3. CASE DaemonNew
  BY <1>3 DEF DaemonNew, Remember, PoolTypeOK, Idlers
<1>4. CASE DaemonSend
  <2>1. ChanOK'
    BY <1>4, ChanTyped, SendTyped DEF DaemonSend, Content
  <2> QED
    BY <1>4, <2>1, ChanRetyped DEF DaemonSend, PoolTypeOK, Idlers
<1>5. CASE DaemonSendClosed
  BY <1>5, BasicPanic DEF DaemonSendClosed, ShutdownPanic
<1>6. CASE DaemonTakeNil
  BY <1>6, BasicPanic DEF DaemonTakeNil, ShutdownPanic
<1>7. CASE DaemonStops
  BY <1>7 DEF DaemonStops, PoolTypeOK, Idlers
<1>8. CASE DaemonDrains \/ DaemonOutput
  <2>1. Took("OutputCh")
    BY <1>8 DEF DaemonDrains, DaemonOutput
  <2>2. ChanOK' /\ Head(chan["OutputCh"]) \in Node \X BOOLEAN
    BY <2>1, ChanTyped, ReceiveTyped DEF Took, Content
  <2>3. Head(chan["OutputCh"])[1] \in Node
    BY <2>2
  <2>4. done' \in [Node -> Nat]
    BY <2>1, <2>3 DEF Took
  <2>5. dpc \in {"select", "drain"} /\ dpc' \in {"db", "select", "draindb", "drain"}
    <3>1. CASE DaemonDrains
      BY <3>1 DEF DaemonDrains
    <3>2. CASE DaemonOutput
      BY <3>2 DEF DaemonOutput
    <3> QED
      BY <1>8, <3>1, <3>2
  <2>6. UNCHANGED <<daemonFrame, shut, dbq, Cache, dnode>>
    BY <1>8 DEF DaemonDrains, DaemonOutput
  <2>7. PoolTypeOK' /\ Cardinality(Idlers') <= MaxCap
    BY <2>6 DEF PoolTypeOK, Idlers
  <2>8. TypeOK'
    BY <2>2, <2>4, <2>5, <2>6, <2>7, ChanRetyped
  <2> QED
    BY <2>5, <2>6, <2>8
<1>9. CASE DaemonTake
  <2>1. ChanOK' /\ Head(chan["DHTCh"]) \in Node
    BY <1>9, ChanTyped, ReceiveTyped DEF DaemonTake, Content
  <2> QED
    BY <1>9, <2>1, ChanRetyped DEF DaemonTake, PoolTypeOK, Idlers
<1>10. CASE WriterSaves
  BY <1>10 DEF WriterSaves, PoolTypeOK, Idlers
<1>11. CASE WriterFails
  BY <1>11, BasicPanic DEF WriterFails, OtherPanic
<1> QED
  BY <1>1, <1>2, <1>3, <1>4, <1>5, <1>6, <1>7, <1>8, <1>9, <1>10, <1>11 DEF DaemonStep, DaemonWorks

LEMMA BasicDisc == ASSUME Basic, NEW s \in Disc, DiscStep(s) PROVE Basic'
<1> USE DEF Basic, TypeOK, Hands, discFrame, procVars, poolVars, crawlVars
<1>1. CASE DiscStarts(s)
  BY <1>1 DEF DiscStarts, PoolTypeOK, Idlers
<1>2. CASE DiscFails(s)
  BY <1>2, BasicPanic DEF DiscFails, OtherPanic
<1>3. CASE DiscFinds(s)
  BY <1>3 DEF DiscFinds, PoolTypeOK, Idlers
<1>4. CASE DiscPushes(s)
  <2>1. ChanOK'
    BY <1>4, ChanTyped, SendTyped DEF DiscPushes, Content
  <2> QED
    BY <1>4, <2>1, ChanRetyped DEF DiscPushes, PoolTypeOK, Idlers
<1>5. CASE DiscPushesClosed(s)
  BY <1>5, BasicPanic DEF DiscPushesClosed, ShutdownPanic
<1>6. CASE DiscEnds(s)
  BY <1>6 DEF DiscEnds, PoolTypeOK, Idlers
<1> QED
  BY <1>1, <1>2, <1>3, <1>4, <1>5, <1>6 DEF DiscStep

LEMMA BasicStep == Basic /\ [Next]_vars => Basic'
<1> SUFFICES ASSUME Basic, [Next]_vars PROVE Basic'
  OBVIOUS
<1>1. CASE UNCHANGED vars
  BY <1>1 DEF Basic, TypeOK, PoolTypeOK, Idlers, Hands, vars, allButProc, poolVars, chanVars,
              crawlVars
<1> QED
  BY <1>1, BasicBoot, BasicCrawl, BasicDaemon, BasicDisc DEF Next, Stopped

LEMMA BasicAlways == Spec => []Basic
BY BasicInit, BasicStep, PTL DEF Spec

\* No channel and no pool ever holds more than it may, a counter of tokens stays in
\* its range, and whoever is in the middle of a send has a node to send: the types
\* hold for any number of goroutines, also of an unbounded one (crawler.go:224-250).
THEOREM TypeCorrect == Spec => []TypeOK
BY BasicAlways, PTL DEF Basic

-------------------------------------------------------------------------------
(* Tokens. *)

\* The places between the receive of a token and its return.
Holding == {"select", "mark", "get", "dial", "zeus", "token"}

\* What a step may do to tokens and to the places of goroutines: no step moves two
\* of them.
Started(u, p) == pc[u] = "none" /\ p = "select" /\ tokens' = tokens - 1 /\ tokens > 0
Working(u, p) == pc[u] \in Holding /\ p \in Holding /\ tokens' = tokens
GivesBack(u, p) == pc[u] = "token" /\ p \notin Holding /\ tokens' = tokens + 1
Loses(u, p) ==
  /\ pc[u] \in Holding /\ p \notin Holding /\ tokens' = tokens
  /\ ctxDone \/ (pc[u] \in {"get", "dial"} /\ p = "output")
Delivering(u, p) == pc[u] \notin Holding \cup {"none"} /\ p \notin Holding /\ tokens' = tokens
TokenMoves(u, p) ==
  \/ Started(u, p) \/ Working(u, p) \/ GivesBack(u, p) \/ Loses(u, p) \/ Delivering(u, p)

TokenStep ==
  \/ UNCHANGED <<pc, tokens>>
  \/ \E u \in User, p \in CrawlPC : pc' = [pc EXCEPT ![u] = p] /\ TokenMoves(u, p)

LEMMA CrawlTokens == ASSUME Basic, NEW u \in User, CrawlStep(u) PROVE TokenStep
<1> DEFINE To(p) == p \in CrawlPC /\ pc' = [pc EXCEPT ![u] = p]
<1> USE DEF Goto, Holding, CrawlPC, allButProc, crawlVars
<1>1. CASE CrawlTakeNil(u) \/ GetNilPool(u) \/ CrawlSendClosed(u)
  BY <1>1 DEF CrawlTakeNil, GetNilPool, CrawlSendClosed, Panic, TokenStep
<1>2. CASE CrawlQuit(u)
  <2>1. To("none") /\ Loses(u, "none")
    BY <1>2 DEF CrawlQuit, Loses
  <2> QED
    BY <2>1 DEF TokenStep, TokenMoves
<1>3. CASE CrawlTake(u)
  <2>1. To("mark") /\ Working(u, "mark")
    BY <1>3 DEF CrawlTake, Working
  <2> QED
    BY <2>1 DEF TokenStep, TokenMoves
<1>4. CASE CrawlMark(u)
  <2>1. To("get") /\ Working(u, "get")
    BY <1>4 DEF CrawlMark, Working
  <2> QED
    BY <2>1 DEF TokenStep, TokenMoves
<1>5. CASE GetIdle(u) \/ DialOK(u)
  <2>1. To("zeus") /\ Working(u, "zeus")
    BY <1>5 DEF GetIdle, DialOK, Working
  <2> QED
    BY <2>1 DEF TokenStep, TokenMoves
<1>6. CASE GetNone(u)
  <2>1. To("dial") /\ Working(u, "dial")
    BY <1>6 DEF GetNone, Working
  <2> QED
    BY <2>1 DEF TokenStep, TokenMoves
<1>7. CASE GetError(u)
  <2>1. To("output") /\ Loses(u, "output")
    BY <1>7 DEF GetError, Loses
  <2> QED
    BY <2>1 DEF TokenStep, TokenMoves
<1>8. CASE ZeusEnds(u)
  <2>1. To("token") /\ Working(u, "token")
    BY <1>8 DEF ZeusEnds, AfterSocket, Working
  <2> QED
    BY <2>1 DEF TokenStep, TokenMoves
<1>9. CASE GiveToken(u)
  <2>1. PICK p \in {"output", "send"} : To(p)
    BY <1>9 DEF GiveToken, AfterToken
  <2>2. GivesBack(u, p)
    BY <1>9, <2>1 DEF GiveToken, GivesBack
  <2> QED
    BY <2>1, <2>2 DEF TokenStep, TokenMoves
<1>10. CASE CrawlSend(u)
  <2>1. UNCHANGED pc \/ To("info")
    BY <1>10 DEF CrawlSend
  <2>2. Delivering(u, "info") /\ UNCHANGED tokens
    BY <1>10 DEF CrawlSend, Delivering
  <2> QED
    BY <2>1, <2>2 DEF TokenStep, TokenMoves
<1>11. CASE CrawlOutput(u)
  <2>1. To("none") /\ Delivering(u, "none")
    BY <1>11 DEF CrawlOutput, Delivering
  <2> QED
    BY <2>1 DEF TokenStep, TokenMoves
<1> QED
  BY <1>1, <1>2, <1>3, <1>4, <1>5, <1>6, <1>7, <1>8, <1>9, <1>10, <1>11 DEF CrawlStep

LEMMA TokenSteps == Basic /\ [Next]_vars => TokenStep
<1> SUFFICES ASSUME Basic, [Next]_vars PROVE TokenStep
  OBVIOUS
<1>1. CASE UNCHANGED vars
  BY <1>1 DEF vars, allButProc, crawlVars, TokenStep
<1>2. CASE Spawn
  <2>1. PICK u \in User : pc[u] = "none" /\ pc' = [pc EXCEPT ![u] = "select"]
    BY <1>2 DEF Spawn
  <2>2. Started(u, "select")
    BY <1>2, <2>1 DEF Spawn, TakeToken, Started
  <2> QED
    BY <2>1, <2>2 DEF TokenStep, TokenMoves, CrawlPC
<1>3. CASE Timeout \/ BootStep
  BY <1>3 DEF Timeout, BootStep, BootEnds, CloserStep, CloseChannel, CloseTwice, ShutPool,
              ShutNilPool, DrainPool, Exit, Panic, allButProc, crawlVars, bootFrame, TokenStep
<1>4. CASE DaemonStep \/ WriterSaves \/ WriterFails
  BY <1>4 DEF DaemonStep, DaemonWorks, DaemonDB, DaemonKnown, DaemonNew, DaemonSend,
              DaemonSendClosed, DaemonTakeNil, DaemonStops, DaemonDrains, DaemonOutput,
              DaemonTake, WriterSaves, WriterFails, Panic, allButProc, crawlVars, daemonFrame,
              TokenStep
<1>5. ASSUME NEW s \in Disc, DiscStep(s) PROVE TokenStep
  BY <1>5 DEF DiscStep, DiscStarts, DiscFails, DiscFinds, DiscPushes, DiscPushesClosed, DiscEnds,
              Panic, allButProc, crawlVars, discFrame, TokenStep
<1> QED
  BY <1>1, <1>2, <1>3, <1>4, <1>5, CrawlTokens DEF Next, Stopped

\* The goroutines that run are finitely many, although their number has no bound.
Busy == {u \in User : pc[u] # "none"}
FewBusy == IsFiniteSet(Busy)

\* How a step that moves one goroutine changes the token holders.
LEMMA HoldersMove ==
  ASSUME Basic, FewBusy, NEW u \in User, NEW p \in CrawlPC, pc' = [pc EXCEPT ![u] = p]
  PROVE  /\ FewBusy'
         /\ Cardinality(TokenHolders) \in Nat
         /\ pc[u] \in Holding /\ p \in Holding =>
              Cardinality(TokenHolders') = Cardinality(TokenHolders)
         /\ pc[u] \in Holding /\ p \notin Holding =>
              Cardinality(TokenHolders') = Cardinality(TokenHolders) - 1
         /\ pc[u] \notin Holding /\ p \in Holding =>
              Cardinality(TokenHolders') = Cardinality(TokenHolders) + 1
         /\ pc[u] \notin Holding /\ p \notin Holding =>
              Cardinality(TokenHolders') = Cardinality(TokenHolders)
<1>1. pc'[u] = p /\ \A v \in User \ {u} : pc'[v] = pc[v]
  BY DEF Basic, TypeOK
<1>2. Busy' \subseteq Busy \cup {u} /\ TokenHolders \subseteq Busy
  BY <1>1 DEF Busy, TokenHolders
<1>3. FewBusy'
  BY <1>2, FS_AddElement, FS_Subset DEF FewBusy
<1>4. IsFiniteSet(TokenHolders) /\ Cardinality(TokenHolders) \in Nat
  BY <1>2, FS_Subset, FS_CardinalityType DEF FewBusy
<1>5. CASE (pc[u] \in Holding) <=> (p \in Holding)
  <2>1. TokenHolders' = TokenHolders
    BY <1>1, <1>5 DEF TokenHolders, Holding
  <2> QED
    BY <1>3, <1>4, <1>5, <2>1
<1>6. CASE pc[u] \in Holding /\ p \notin Holding
  <2>1. TokenHolders' = TokenHolders \ {u} /\ u \in TokenHolders
    BY <1>1, <1>6 DEF TokenHolders, Holding
  <2>2. Cardinality(TokenHolders') = Cardinality(TokenHolders) - 1
    BY <1>4, <2>1, FS_RemoveElement
  <2> QED
    BY <1>3, <1>4, <1>6, <2>2
<1>7. CASE pc[u] \notin Holding /\ p \in Holding
  <2>1. TokenHolders' = TokenHolders \cup {u} /\ u \notin TokenHolders
    BY <1>1, <1>7 DEF TokenHolders, Holding
  <2>2. Cardinality(TokenHolders') = Cardinality(TokenHolders) + 1
    BY <1>4, <2>1, FS_AddElement
  <2> QED
    BY <1>3, <1>4, <1>7, <2>2
<1> QED
  BY <1>5, <1>6, <1>7

\* Tokens and holders together become fewer only by a loss.
LEMMA TokensMove ==
  ASSUME Basic, FewBusy, NEW u \in User, NEW p \in CrawlPC, pc' = [pc EXCEPT ![u] = p],
         TokenMoves(u, p)
  PROVE  /\ FewBusy'
         /\ Cardinality(TokenHolders) \in Nat /\ Cardinality(TokenHolders') \in Int
         /\ tokens \in Nat /\ tokens' \in Int
         /\ \/ tokens' + Cardinality(TokenHolders') = tokens + Cardinality(TokenHolders)
            \/ /\ Loses(u, p)
               /\ tokens' + Cardinality(TokenHolders') = tokens + Cardinality(TokenHolders) - 1
<1>1. FewBusy' /\ Cardinality(TokenHolders) \in Nat /\ tokens \in Nat
  <2>1. FewBusy' /\ Cardinality(TokenHolders) \in Nat
    BY HoldersMove
  <2> QED
    BY <2>1 DEF Basic, TypeOK
<1>2. CASE Started(u, p)
  <2>1. pc[u] \notin Holding /\ p \in Holding
    BY <1>2 DEF Started, Holding
  <2>2. Cardinality(TokenHolders') = Cardinality(TokenHolders) + 1
    BY <2>1, HoldersMove
  <2> QED
    BY <1>1, <1>2, <2>2 DEF Started
<1>3. CASE Working(u, p) \/ Delivering(u, p)
  <2>1. (pc[u] \in Holding) <=> (p \in Holding)
    BY <1>3 DEF Working, Delivering
  <2>2. Cardinality(TokenHolders') = Cardinality(TokenHolders)
    BY <2>1, HoldersMove
  <2> QED
    BY <1>1, <1>3, <2>2 DEF Working, Delivering
<1>4. CASE GivesBack(u, p)
  <2>1. pc[u] \in Holding /\ p \notin Holding
    BY <1>4 DEF GivesBack, Holding
  <2>2. Cardinality(TokenHolders') = Cardinality(TokenHolders) - 1
    BY <2>1, HoldersMove
  <2> QED
    BY <1>1, <1>4, <2>2 DEF GivesBack
<1>5. CASE Loses(u, p)
  <2>1. Cardinality(TokenHolders') = Cardinality(TokenHolders) - 1
    BY <1>5, HoldersMove DEF Loses
  <2> QED
    BY <1>1, <1>5, <2>1 DEF Loses
<1> QED
  BY <1>2, <1>3, <1>4, <1>5 DEF TokenMoves

Counted == FewBusy /\ TokensBounded

LEMMA CountedInit == Init => Counted
<1> SUFFICES ASSUME Init PROVE Counted
  OBVIOUS
<1>1. Busy = {} /\ TokenHolders = {} /\ tokens = Workers
  BY DEF Init, Busy, TokenHolders
<1>2. IsFiniteSet({}) /\ Cardinality({}) = 0
  BY FS_EmptySet
<1> QED
  BY <1>1, <1>2 DEF Counted, FewBusy, TokensBounded

LEMMA CountedStep == Basic /\ Counted /\ [Next]_vars => Counted'
<1> SUFFICES ASSUME Basic, Counted, [Next]_vars PROVE Counted'
  OBVIOUS
<1>1. CASE UNCHANGED <<pc, tokens>>
  BY <1>1 DEF Counted, FewBusy, Busy, TokensBounded, TokenHolders
<1>2. ASSUME NEW u \in User, NEW p \in CrawlPC, pc' = [pc EXCEPT ![u] = p], TokenMoves(u, p)
      PROVE  Counted'
  <2>1. /\ FewBusy'
        /\ Cardinality(TokenHolders) \in Nat /\ tokens \in Nat
        /\ \/ tokens' + Cardinality(TokenHolders') = tokens + Cardinality(TokenHolders)
           \/ tokens' + Cardinality(TokenHolders') = tokens + Cardinality(TokenHolders) - 1
    BY <1>2, TokensMove, Zenon DEF Counted
  <2>2. tokens + Cardinality(TokenHolders) <= Workers
    BY DEF Counted, TokensBounded
  <2>3. tokens' + Cardinality(TokenHolders') <= Workers
    BY <2>1, <2>2
  <2> QED
    BY <2>1, <2>3 DEF Counted, TokensBounded
<1> QED
  BY <1>1, <1>2, TokenSteps DEF TokenStep

LEMMA CountedAlways == Spec => []Counted
BY CountedInit, CountedStep, BasicAlways, PTL DEF Spec

\* However many goroutines run, never more than Workers of them are before the
\* return of their token, so c.tokens has room for it (crawler.go:224-250, zeus.go:190).
THEOREM TokensNeverBlock == Spec => []TokensBounded
BY CountedAlways, PTL DEF Counted

LEMMA TokenLossStep ==
  ASSUME Basic, Counted, [Next]_vars
  PROVE  \/ ctxDone
         \/ tokens' + Cardinality(TokenHolders') >= tokens + Cardinality(TokenHolders)
         \/ \E u \in User : pc[u] \in {"get", "dial"} /\ pc'[u] = "output"
<1>1. CASE UNCHANGED <<pc, tokens>>
  <2>1. TokenHolders' = TokenHolders /\ tokens \in Nat
    BY <1>1 DEF TokenHolders, Basic, TypeOK
  <2>2. Cardinality(TokenHolders) \in Nat
    <3>1. TokenHolders \subseteq Busy
      BY DEF TokenHolders, Busy
    <3> QED
      BY <3>1, FS_Subset, FS_CardinalityType DEF Counted, FewBusy
  <2> QED
    BY <1>1, <2>1, <2>2
<1>2. ASSUME NEW u \in User, NEW p \in CrawlPC, pc' = [pc EXCEPT ![u] = p], TokenMoves(u, p)
      PROVE  \/ ctxDone
             \/ tokens' + Cardinality(TokenHolders') >= tokens + Cardinality(TokenHolders)
             \/ pc[u] \in {"get", "dial"} /\ pc'[u] = "output"
  <2>1. pc'[u] = p
    BY <1>2 DEF Basic, TypeOK
  <2>2. CASE Loses(u, p)
    BY <2>1, <2>2 DEF Loses
  <2>3. CASE tokens' + Cardinality(TokenHolders') = tokens + Cardinality(TokenHolders)
    <3>1. tokens \in Nat /\ Cardinality(TokenHolders) \in Nat
      BY <1>2, TokensMove, Zenon DEF Counted
    <3> QED
      BY <2>3, <3>1
  <2> QED
    BY <1>2, <2>2, <2>3, TokensMove DEF Counted
<1> QED
  BY <1>1, <1>2, TokenSteps DEF TokenStep

\* A step that makes tokens and their holders fewer is one of Get's failures, or
\* the time is out (zeus.go:184-190).
THEOREM TokensLostByGet == Spec => TokenLostByGetOnly
<1>1. Basic /\ Counted /\ [Next]_vars =>
        [\/ ctxDone
         \/ tokens' + Cardinality(TokenHolders') >= tokens + Cardinality(TokenHolders)
         \/ \E u \in User : pc[u] \in {"get", "dial"} /\ pc'[u] = "output"]_vars
  BY TokenLossStep
<1> QED
  BY <1>1, BasicAlways, CountedAlways, PTL DEF Spec, TokenLostByGetOnly

-------------------------------------------------------------------------------
(* Sockets. *)

\* A goroutine that uses a socket is in crawlZeus, and has no other one.
Borrowing ==
  /\ \A c \in Conn : where[c] \in User => pc[where[c]] = "zeus"
  /\ \A c, d \in Conn : where[c] = where[d] /\ where[c] \in User => c = d

InUse == {c \in Conn : where[c] \notin {Unborn, Closed}}
Dialers == {u \in User : pc[u] = "dial"}

LEMMA BorrowingStep == Basic /\ Borrowing /\ [Next]_vars => Borrowing'
<1> SUFFICES ASSUME Basic, Borrowing, [Next]_vars PROVE Borrowing'
  OBVIOUS
<1> USE DEF Borrowing, Basic, TypeOK, PoolTypeOK
<1>1. CASE UNCHANGED <<where, pc>>
  BY <1>1
<1>2. CASE Spawn
  BY <1>2 DEF Spawn, poolVars
<1>3. CASE DrainPool
  BY <1>3 DEF DrainPool, Drain, Move, bootFrame
<1>4. CASE Timeout \/ BootEnds \/ CloseChannel \/ CloseTwice \/ ShutPool \/ ShutNilPool \/ Exit
  BY <1>1, <1>4 DEF Timeout, BootEnds, CloseChannel, CloseTwice, ShutPool, Shut, ShutNilPool,
              Exit, Panic, allButProc, crawlVars, poolVars
<1>5. CASE DaemonStep \/ WriterSaves \/ WriterFails
  BY <1>1, <1>5 DEF DaemonStep, DaemonWorks, DaemonDB, DaemonKnown, DaemonNew, DaemonSend,
              DaemonSendClosed, DaemonTakeNil, DaemonStops, DaemonDrains, DaemonOutput,
              DaemonTake, WriterSaves, WriterFails, Panic, allButProc, crawlVars, daemonFrame,
              poolVars
<1>6. ASSUME NEW s \in Disc, DiscStep(s) PROVE Borrowing'
  BY <1>1, <1>6 DEF DiscStep, DiscStarts, DiscFails, DiscFinds, DiscPushes, DiscPushesClosed,
              DiscEnds, Panic, allButProc, crawlVars, discFrame, poolVars
<1>7. ASSUME NEW u \in User, CrawlStep(u) PROVE Borrowing'
  <2> USE <1>7 DEF Goto, poolVars
  <2>1. CASE GetIdle(u) \/ DialOK(u)
    <3>1. PICK c \in Conn, from \in {Idle, Unborn} : Move(c, from, u)
      BY <2>1 DEF GetIdle, DialOK, Get, Dial
    <3>2. pc[u] # "zeus" /\ pc' = [pc EXCEPT ![u] = "zeus"]
      BY <2>1 DEF GetIdle, DialOK
    <3>3. \A d \in Conn : where[d] # u
      BY <3>2
    <3> QED
      BY <3>1, <3>2, <3>3 DEF Move
  <2>2. CASE ZeusEnds(u)
    <3>1. PICK c \in Conn : where[c] = u /\ Return(u, c)
      BY <2>2 DEF ZeusEnds
    <3>2. where' = [where EXCEPT ![c] = where'[c]] /\ where'[c] \in {Idle, Closed}
      BY <3>1 DEF Return, Move
    <3>3. \A d \in Conn \ {c} : where[d] # u
      BY <3>1
    <3>4. \A v \in User \ {u} : pc'[v] = pc[v]
      BY <2>2 DEF ZeusEnds
    <3> QED
      BY <3>2, <3>3, <3>4
  <2>3. CASE CrawlTakeNil(u) \/ GetNilPool(u) \/ CrawlSendClosed(u)
    BY <1>1, <2>3 DEF CrawlTakeNil, GetNilPool, CrawlSendClosed, Panic, allButProc, crawlVars
  <2>4. CASE \/ CrawlQuit(u) \/ CrawlTake(u) \/ CrawlMark(u) \/ GetNone(u) \/ GetError(u)
             \/ GiveToken(u) \/ CrawlSend(u) \/ CrawlOutput(u)
    <3>1. UNCHANGED where /\ pc[u] # "zeus" /\ \A v \in User \ {u} : pc'[v] = pc[v]
      BY <2>4 DEF CrawlQuit, CrawlTake, CrawlMark, GetNone, GetError, GiveToken, CrawlSend,
                  CrawlOutput
    <3> QED
      BY <3>1
  <2> QED
    BY <2>1, <2>2, <2>3, <2>4 DEF CrawlStep
<1>8. CASE UNCHANGED vars
  BY <1>1, <1>8 DEF vars, allButProc, poolVars, crawlVars
<1> QED
  BY <1>2, <1>3, <1>4, <1>5, <1>6, <1>7, <1>8 DEF Next, BootStep, CloserStep, Stopped

\* Two disjoint parts of a finite set.
LEMMA DisjointParts ==
  ASSUME NEW U, IsFiniteSet(U), NEW S \in SUBSET U, NEW T \in SUBSET U, S \cap T = {}
  PROVE  /\ Cardinality(S) \in Nat /\ Cardinality(T) \in Nat /\ Cardinality(U) \in Nat
         /\ Cardinality(S) + Cardinality(T) <= Cardinality(U)
<1>1. IsFiniteSet(S) /\ IsFiniteSet(T)
  BY FS_Subset
<1>2. /\ IsFiniteSet(S \cup T)
      /\ Cardinality(S \cup T) = Cardinality(S) + Cardinality(T) - Cardinality(S \cap T)
  BY <1>1, FS_Union
<1>3. Cardinality(S \cap T) = 0
  BY FS_EmptySet
<1>4. S \cup T \in SUBSET U
  OBVIOUS
<1>5. Cardinality(S \cup T) <= Cardinality(U)
  BY <1>4, FS_Subset
<1>6. /\ Cardinality(S) \in Nat /\ Cardinality(T) \in Nat /\ Cardinality(U) \in Nat
  BY <1>1, FS_CardinalityType
<1> QED
  BY <1>2, <1>3, <1>5, <1>6

\* The dialers and the sockets in use are finitely many.
LEMMA SocketsFinite ==
  FewBusy => /\ IsFiniteSet(InUse) /\ IsFiniteSet(Dialers)
             /\ Cardinality(InUse) \in Nat /\ Cardinality(Dialers) \in Nat
<1> SUFFICES ASSUME FewBusy
             PROVE  /\ IsFiniteSet(InUse) /\ IsFiniteSet(Dialers)
                    /\ Cardinality(InUse) \in Nat /\ Cardinality(Dialers) \in Nat
  OBVIOUS
<1>1. InUse \subseteq Conn /\ Dialers \subseteq Busy
  BY DEF InUse, Dialers, Busy
<1>2. IsFiniteSet(InUse) /\ IsFiniteSet(Dialers)
  BY <1>1, FS_Subset DEF FewBusy
<1> QED
  BY <1>2, FS_CardinalityType

\* When no socket is idle, every socket in use is with a goroutine that has a token,
\* and so are the dialers and the goroutine that is about to dial.
LEMMA NoneIdleCount ==
  ASSUME Basic, Counted, Borrowing, Idlers = {}, NEW u \in User, pc[u] = "get"
  PROVE  Cardinality(InUse) + Cardinality(Dialers) + 1 <= Workers
<1> DEFINE Zeus == {v \in User : pc[v] = "zeus"}
           f == [c \in InUse |-> where[c]]
<1>1. TokenHolders \subseteq Busy
  BY DEF TokenHolders, Busy
<1>2. IsFiniteSet(TokenHolders) /\ Zeus \in SUBSET TokenHolders
      /\ Dialers \cup {u} \in SUBSET TokenHolders /\ Zeus \cap (Dialers \cup {u}) = {}
  BY <1>1, FS_Subset DEF Counted, FewBusy, Dialers, TokenHolders
<1>3. /\ Cardinality(Zeus) \in Nat /\ Cardinality(TokenHolders) \in Nat
      /\ Cardinality(Zeus) + Cardinality(Dialers \cup {u}) <= Cardinality(TokenHolders)
  BY <1>2, DisjointParts
<1>4. IsFiniteSet(Dialers) /\ Cardinality(Dialers) \in Nat /\ Cardinality(InUse) \in Nat
  BY SocketsFinite DEF Counted
<1>5. Cardinality(Dialers \cup {u}) = Cardinality(Dialers) + 1
  BY <1>4, FS_AddElement DEF Dialers
<1>6. Cardinality(InUse) <= Cardinality(Zeus)
  <2>1. \A c \in InUse : where[c] \in User
    BY DEF InUse, Idlers, Basic, TypeOK, PoolTypeOK
  <2>2. f \in [InUse -> Zeus]
    BY <2>1 DEF InUse, Borrowing
  <2>3. f \in Injection(InUse, Zeus)
    BY <2>1, <2>2 DEF InUse, Borrowing, Injection, IsInjective
  <2>4. IsFiniteSet(Zeus)
    BY <1>2, FS_Subset
  <2> QED
    BY <2>3, <2>4, FS_Injection
<1>7. tokens \in Nat /\ tokens + Cardinality(TokenHolders) <= Workers
  BY DEF Counted, TokensBounded, Basic, TypeOK
<1> HIDE DEF Zeus
<1> QED
  BY <1>3, <1>4, <1>5, <1>6, <1>7

\* A socket is made for a dialer; every other step leaves the sockets in use and the
\* dialers, or makes them fewer.
LEMMA SocketSteps ==
  ASSUME Basic, [Next]_vars
  PROVE  \/ InUse' \subseteq InUse /\ Dialers' \subseteq Dialers
         \/ \E u \in User : GetNone(u) \/ DialOK(u)
<1> DEFINE Fewer == InUse' \subseteq InUse /\ Dialers' \subseteq Dialers
<1>1. ASSUME UNCHANGED <<where, pc>> PROVE Fewer
  BY <1>1 DEF InUse, Dialers
<1>2. CASE Spawn
  BY <1>2 DEF Spawn, poolVars, InUse, Dialers, Basic, TypeOK
<1>3. CASE DrainPool
  BY <1>3 DEF Basic, TypeOK, PoolTypeOK, DrainPool, Drain, Move, bootFrame, InUse, Dialers
<1>4. CASE Timeout \/ BootEnds \/ CloseChannel \/ CloseTwice \/ ShutPool \/ ShutNilPool \/ Exit
  BY <1>1, <1>4 DEF Timeout, BootEnds, CloseChannel, CloseTwice, ShutPool, Shut, ShutNilPool,
              Exit, Panic, allButProc, crawlVars, poolVars
<1>5. CASE DaemonStep \/ WriterSaves \/ WriterFails
  BY <1>1, <1>5 DEF DaemonStep, DaemonWorks, DaemonDB, DaemonKnown, DaemonNew, DaemonSend,
              DaemonSendClosed, DaemonTakeNil, DaemonStops, DaemonDrains, DaemonOutput,
              DaemonTake, WriterSaves, WriterFails, Panic, allButProc, crawlVars, daemonFrame,
              poolVars
<1>6. ASSUME NEW s \in Disc, DiscStep(s) PROVE Fewer
  <2>1. UNCHANGED <<where, pc>>
    BY <1>6 DEF DiscStep, DiscStarts, DiscFails, DiscFinds, DiscPushes, DiscPushesClosed,
                DiscEnds, Panic, allButProc, crawlVars, discFrame, poolVars
  <2> QED
    BY <1>1, <2>1
<1>7. ASSUME NEW u \in User, CrawlStep(u) PROVE Fewer \/ GetNone(u) \/ DialOK(u)
  <2> USE <1>7 DEF Goto, poolVars
  <2>1. CASE GetIdle(u)
    BY <2>1 DEF GetIdle, Get, Move, InUse, Dialers, Basic, TypeOK, PoolTypeOK
  <2>2. CASE ZeusEnds(u)
    BY <2>2 DEF ZeusEnds, AfterSocket, Return, Move, InUse, Dialers, Basic, TypeOK, PoolTypeOK
  <2>3. CASE CrawlTakeNil(u) \/ GetNilPool(u) \/ CrawlSendClosed(u)
    <3>1. UNCHANGED <<where, pc>>
      BY <2>3 DEF CrawlTakeNil, GetNilPool, CrawlSendClosed, Panic, allButProc, crawlVars
    <3> QED
      BY <1>1, <3>1
  <2>4. CASE \/ CrawlQuit(u) \/ CrawlTake(u) \/ CrawlMark(u) \/ GetError(u)
             \/ GiveToken(u) \/ CrawlSend(u) \/ CrawlOutput(u)
    <3>1. UNCHANGED where /\ pc'[u] # "dial" /\ \A v \in User \ {u} : pc'[v] = pc[v]
      BY <2>4 DEF CrawlQuit, CrawlTake, CrawlMark, GetError, GiveToken, AfterToken, CrawlSend,
                  CrawlOutput, Basic, TypeOK
    <3> QED
      BY <3>1 DEF InUse, Dialers
  <2> QED
    BY <2>1, <2>2, <2>3, <2>4 DEF CrawlStep
<1>8. CASE UNCHANGED vars
  BY <1>1, <1>8 DEF vars, allButProc, poolVars, crawlVars
<1> QED
  BY <1>2, <1>3, <1>4, <1>5, <1>6, <1>7, <1>8 DEF Next, BootStep, CloserStep, Stopped

SocketCount == Cardinality(InUse) + Cardinality(Dialers) <= AtLeastInitial(Workers)

LEMMA SocketCountStep ==
  ASSUME Basic, Counted, Counted', Borrowing, SocketCount, [Next]_vars
  PROVE  SocketCount'
<1>1. /\ IsFiniteSet(InUse) /\ IsFiniteSet(Dialers)
      /\ Cardinality(InUse) \in Nat /\ Cardinality(Dialers) \in Nat
      /\ Cardinality(InUse') \in Nat /\ Cardinality(Dialers') \in Nat
  <2>1. FewBusy /\ FewBusy'
    BY DEF Counted
  <2>2. IsFiniteSet(InUse') /\ IsFiniteSet(Dialers')
    <3>1. InUse' \subseteq Conn /\ Dialers' \subseteq Busy'
      BY DEF InUse, Dialers, Busy
    <3> QED
      BY <2>1, <3>1, FS_Subset DEF FewBusy
  <2> QED
    BY <2>1, <2>2, SocketsFinite, FS_CardinalityType
<1>2. AtLeastInitial(Workers) \in Nat /\ Workers <= AtLeastInitial(Workers)
  BY DEF AtLeastInitial
<1>3. CASE InUse' \subseteq InUse /\ Dialers' \subseteq Dialers
  <2>1. Cardinality(InUse') <= Cardinality(InUse) /\ Cardinality(Dialers') <= Cardinality(Dialers)
    BY <1>1, <1>3, FS_Subset
  <2> QED
    BY <1>1, <1>2, <2>1 DEF SocketCount
<1>4. ASSUME NEW u \in User, GetNone(u) PROVE SocketCount'
  <2>1. InUse' = InUse /\ Dialers' = Dialers \cup {u} /\ u \notin Dialers
    BY <1>4 DEF GetNone, Goto, poolVars, InUse, Dialers, Basic, TypeOK
  <2>2. Cardinality(Dialers') = Cardinality(Dialers) + 1 /\ Cardinality(InUse') = Cardinality(InUse)
    BY <1>1, <2>1, FS_AddElement
  <2>3. Cardinality(InUse) + Cardinality(Dialers) + 1 <= Workers
    BY <1>4, NoneIdleCount DEF GetNone, NoneIdle
  <2>4. Cardinality(InUse') + Cardinality(Dialers') <= AtLeastInitial(Workers)
    BY <1>1, <1>2, <2>2, <2>3
  <2> QED
    BY <2>4 DEF SocketCount
<1>5. ASSUME NEW u \in User, DialOK(u) PROVE SocketCount'
  <2>1. PICK c \in Conn : Dial(u, c)
    BY <1>5 DEF DialOK
  <2>2. /\ InUse' = InUse \cup {c} /\ c \notin InUse
        /\ Dialers' = Dialers \ {u} /\ u \in Dialers
    BY <1>5, <2>1 DEF DialOK, Dial, Move, Goto, InUse, Dialers, Basic, TypeOK, PoolTypeOK
  <2>3. /\ Cardinality(InUse') = Cardinality(InUse) + 1
        /\ Cardinality(Dialers') = Cardinality(Dialers) - 1
    BY <1>1, <2>2, FS_AddElement, FS_RemoveElement
  <2>4. Cardinality(InUse') + Cardinality(Dialers') <= AtLeastInitial(Workers)
    BY <1>1, <1>2, <2>3 DEF SocketCount
  <2> QED
    BY <2>4 DEF SocketCount
<1> QED
  BY <1>3, <1>4, <1>5, SocketSteps

\* Init has InitialCap idle sockets, or none if the pool was not made.
LEMMA SocketInit == Init => Borrowing /\ SocketCount
<1> SUFFICES ASSUME Init PROVE Borrowing /\ SocketCount
  OBVIOUS
<1>1. PICK S \in SUBSET Conn :
        /\ Cardinality(S) = InitialCap
        /\ where = [c \in Conn |-> IF poolUp /\ c \in S THEN Idle ELSE Unborn]
  BY DEF Init
<1>2. Borrowing
  BY <1>1 DEF Borrowing
<1>3. IsFiniteSet(S) /\ InUse \subseteq S /\ Dialers = {}
  BY <1>1, FS_Subset DEF Init, InUse, Dialers
<1>4. Cardinality(InUse) \in Nat /\ Cardinality(InUse) <= InitialCap /\ Cardinality(Dialers) = 0
  BY <1>1, <1>3, FS_Subset, FS_CardinalityType, FS_EmptySet
<1>5. AtLeastInitial(Workers) \in Nat /\ InitialCap <= AtLeastInitial(Workers)
  BY DEF AtLeastInitial
<1> QED
  BY <1>2, <1>4, <1>5 DEF SocketCount

\* However many goroutines run and however long a dial takes, the process never has
\* more discovery sockets than it began with or, if they are more, workers
\* (pool.go:85-105, zeus.go:183-190).
THEOREM SocketsNeverMore == Spec => []SocketsBounded
<1>1. Basic /\ Borrowing /\ [Next]_vars => Borrowing'
  BY BorrowingStep
<1>2. Basic /\ Counted /\ Counted' /\ Borrowing /\ SocketCount /\ [Next]_vars => SocketCount'
  BY SocketCountStep
<1>3. SocketCount => SocketsBounded
  BY DEF SocketCount, SocketsBounded, InUse, Dialers
<1> QED
  BY <1>1, <1>2, <1>3, SocketInit, BasicAlways, CountedAlways, PTL DEF Spec

-------------------------------------------------------------------------------
(* The shutdown. *)

\* Before the timeout nothing has been closed, and nobody is about to close: Boot is
\* in its loop and the daemon at its channels.
Quiet ==
  /\ proc \in ShutdownPanic \cup {"exited"} => ctxDone
  /\ ~ctxDone => /\ shut = {} /\ open /\ mpc = "serve"
                 /\ dpc \in {"select", "lock", "send", "db"}

\* Only the timeout changes ctxDone.
LEMMA TimeoutOnly == [Next]_vars => UNCHANGED ctxDone \/ (Timeout /\ proc = "running")
BY DEF Next, Stopped, vars, BootStep, CloserStep, Spawn, BootEnds, CloseChannel, CloseTwice,
       ShutPool, ShutNilPool, DrainPool, Exit, DaemonStep, DaemonWorks, DaemonDB, DaemonKnown,
       DaemonNew, DaemonSend, DaemonSendClosed, DaemonTakeNil, DaemonStops, DaemonDrains,
       DaemonOutput, DaemonTake, WriterSaves, WriterFails, CrawlStep, CrawlQuit, CrawlTake,
       CrawlTakeNil, CrawlMark, GetIdle, GetNone, DialOK, GetError, GetNilPool, ZeusEnds,
       GiveToken, CrawlSend, CrawlSendClosed, CrawlOutput, DiscStep, DiscStarts, DiscFails,
       DiscFinds, DiscPushes, DiscPushesClosed, DiscEnds, Panic, allButProc, crawlFrame,
       daemonFrame, discFrame, procVars

LEMMA QuietStep == Basic /\ Quiet /\ [Next]_vars => Quiet'
<1> SUFFICES ASSUME Basic, Quiet, [Next]_vars PROVE Quiet'
  OBVIOUS
<1> USE DEF Quiet, ShutdownPanic
<1>1. CASE ctxDone
  <2>1. ctxDone'
    BY <1>1, TimeoutOnly DEF Timeout
  <2> QED
    BY <2>1
<1>2. CASE ~ctxDone
  <2> DEFINE Still == UNCHANGED <<proc, shut, open, mpc, dpc>>
  <2> USE <1>2
  <2>1. CASE Timeout
    BY <2>1 DEF Timeout
  <2>2. CASE Spawn
    BY <2>2 DEF Spawn, bootFrame, chanVars, poolVars
  <2>3. CASE BootStep
    BY <2>3 DEF BootStep, BootEnds, MayStop, CloserStep, CloseChannel, CloseTwice, ShutPool,
                ShutNilPool, DrainPool, Exit
  <2>4. CASE DaemonStep
    <3>1. ~DaemonSendClosed /\ ~DaemonTakeNil /\ ~DaemonStops /\ ~DaemonDrains
      BY DEF DaemonSendClosed, DaemonTakeNil, YieldsNil, DaemonStops, DaemonDrains
    <3>2. UNCHANGED <<proc, shut, open, mpc>> /\ dpc' \in {"select", "lock", "send", "db"}
      BY <2>4, <3>1 DEF DaemonStep, DaemonWorks, DaemonDB, DaemonKnown, DaemonNew, DaemonSend,
                        DaemonOutput, DaemonTake, daemonFrame, procVars, poolVars, chanVars
    <3> QED
      BY <3>2
  <2>5. CASE WriterSaves \/ WriterFails
    BY <2>5 DEF WriterSaves, WriterFails, Panic, allButProc, daemonFrame, procVars, poolVars, chanVars
  <2>6. ASSUME NEW u \in User, CrawlStep(u) PROVE Quiet'
    <3>1. ~CrawlTakeNil(u) /\ ~CrawlSendClosed(u)
      BY DEF CrawlTakeNil, CrawlSendClosed, YieldsNil
    <3>2. CASE GetNilPool(u)
      BY <3>2 DEF GetNilPool, Panic, allButProc, poolVars, chanVars
    <3>3. CASE ~GetNilPool(u)
      <4>1. Still
        BY <2>6, <3>1, <3>3
        DEF CrawlStep, CrawlQuit, CrawlTake, CrawlMark, GetIdle, Get, GetNone, DialOK, Dial, GetError,
            ZeusEnds, Return, GiveToken, CrawlSend, CrawlOutput, crawlFrame, procVars, poolVars
      <4> QED
        BY <4>1
    <3> QED
      BY <3>2, <3>3
  <2>7. ASSUME NEW s \in Disc, DiscStep(s) PROVE Quiet'
    <3>1. ~DiscPushesClosed(s)
      BY DEF DiscPushesClosed
    <3>2. CASE DiscFails(s)
      BY <3>2 DEF DiscFails, Panic, allButProc, poolVars, chanVars
    <3>3. CASE ~DiscFails(s)
      <4>1. Still
        BY <2>7, <3>1, <3>3
        DEF DiscStep, DiscStarts, DiscFinds, DiscPushes, DiscEnds, discFrame, procVars, poolVars
      <4> QED
        BY <4>1
    <3> QED
      BY <3>2, <3>3
  <2>8. CASE UNCHANGED vars
    BY <2>8 DEF vars, allButProc, poolVars, chanVars
  <2> QED
    BY <2>1, <2>2, <2>3, <2>4, <2>5, <2>6, <2>7, <2>8 DEF Next, Stopped
<1> QED
  BY <1>1, <1>2

LEMMA QuietAlways == Spec => []Quiet
<1>1. Init => Quiet
  BY DEF Init, Quiet, ShutdownPanic
<1> QED
  BY <1>1, QuietStep, BasicAlways, PTL DEF Spec

\* Whatever the daemon, Boot and the goroutines do, no channel is closed and no close
\* repeated before the time is out (crawler.go:251-259, 303-305).
THEOREM PanicsAtShutdown == Spec => []ShutdownPanicsOnly
<1>1. Quiet => ShutdownPanicsOnly
  BY DEF Quiet, ShutdownPanicsOnly
<1> QED
  BY <1>1, QuietAlways, PTL
===============================================================================
