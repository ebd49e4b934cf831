--------------------------- MODULE CrawlerRefinement ---------------------------
(***************************************************************************)
(* The nodes of Crawler, for any nodes, slots of goroutines, services and  *)
(* capacities: a node in Cache is on its way once, and each step of the    *)
(* crawler is one of CrawlSpec or changes nothing there.                   *)
(***************************************************************************)
EXTENDS CrawlerProofs

-------------------------------------------------------------------------------
(* Counting in sequences. *)

\* Positions that satisfy something, before and after an append.
LEMMA PositionsAppend ==
  ASSUME NEW k \in Nat, NEW A \in SUBSET (1..k), NEW B \in SUBSET (1..k + 1),
         \A i \in 1..k : i \in A <=> i \in B
  PROVE  /\ Cardinality(A) \in Nat
         /\ Cardinality(B) = Cardinality(A) + (IF k + 1 \in B THEN 1 ELSE 0)
<1>1. IsFiniteSet(A) /\ Cardinality(A) \in Nat
  <2>1. IsFiniteSet(1..k)
    BY FS_Interval
  <2> QED
    BY <2>1, FS_Subset, FS_CardinalityType
<1>2. CASE k + 1 \in B
  <2>1. B = A \cup {k + 1} /\ k + 1 \notin A
    <3>1. \A i \in 1..k + 1 : i \in 1..k \/ i = k + 1
      OBVIOUS
    <3>2. k + 1 \notin 1..k
      OBVIOUS
    <3> QED
      BY <1>2, <3>1, <3>2, Zenon
  <2>2. Cardinality(B) = Cardinality(A) + 1
    BY <1>1, <2>1, FS_AddElement
  <2> QED
    BY <1>1, <1>2, <2>2
<1>3. CASE k + 1 \notin B
  <2>1. B = A
    <3>1. \A i \in 1..k + 1 : i \in 1..k \/ i = k + 1
      OBVIOUS
    <3> QED
      BY <1>3, <3>1, Zenon
  <2> QED
    BY <1>1, <1>3, <2>1
<1> QED
  BY <1>2, <1>3

\* ... and before and after a receive, which moves every position by one.
LEMMA PositionsTail ==
  ASSUME NEW k \in Nat \ {0}, NEW A \in SUBSET (1..k), NEW B \in SUBSET (1..k - 1),
         \A i \in 1..k - 1 : i \in B <=> i + 1 \in A
  PROVE  /\ Cardinality(A) \in Nat /\ Cardinality(B) \in Nat
         /\ Cardinality(A) = Cardinality(B) + (IF 1 \in A THEN 1 ELSE 0)
<1> DEFINE f == [i \in B |-> i + 1]
<1>1. IsFiniteSet(A) /\ Cardinality(A) \in Nat /\ IsFiniteSet(B) /\ Cardinality(B) \in Nat
  <2>1. IsFiniteSet(1..k) /\ IsFiniteSet(1..k - 1)
    BY FS_Interval
  <2> QED
    BY <2>1, FS_Subset, FS_CardinalityType
<1>2. f \in Bijection(B, A \ {1})
  <2>1. f \in [B -> A \ {1}]
    <3>1. \A i \in B : i + 1 \in A \ {1}
      OBVIOUS
    <3> QED
      BY <3>1
  <2>2. \A i, j \in B : f[i] = f[j] => i = j
    OBVIOUS
  <2>3. \A j \in A \ {1} : \E i \in B : f[i] = j
    <3>1. ASSUME NEW j \in A \ {1} PROVE j - 1 \in B /\ f[j - 1] = j
      <4>1. j \in 2..k
        OBVIOUS
      <4>2. j - 1 \in 1..k - 1 /\ (j - 1) + 1 = j
        BY <4>1
      <4>3. j - 1 \in B
        BY <4>2
      <4> QED
        BY <4>2, <4>3
    <3> QED
      BY <3>1
  <2> HIDE DEF f
  <2> QED
    BY <2>1, <2>2, <2>3 DEF Bijection, Injection, Surjection, IsInjective
<1>3. Cardinality(A \ {1}) = Cardinality(B)
  <2>1. ExistsBijection(B, A \ {1})
    BY <1>2, Zenon DEF ExistsBijection
  <2> QED
    BY <1>1, <2>1, FS_Bijection
<1>4. CASE 1 \in A
  <2>1. Cardinality(A \ {1}) = Cardinality(A) - 1
    BY <1>1, <1>4, FS_RemoveElement
  <2>2. Cardinality(A) = Cardinality(B) + 1
    BY <1>1, <1>3, <2>1
  <2> QED
    BY <1>1, <1>4, <2>2
<1>5. CASE 1 \notin A
  <2>1. A \ {1} = A
    BY <1>5
  <2>2. Cardinality(A) = Cardinality(B)
    BY <1>3, <2>1, Zenon
  <2> QED
    BY <1>1, <1>5, <2>2
<1> QED
  BY <1>4, <1>5

One(condition) == IF condition THEN 1 ELSE 0

\* How often a node is in ReqCh, after a send and after a receive.
LEMMA TimesAppend ==
  ASSUME NEW s \in Seq(Node), NEW x \in Node, NEW n
  PROVE  Times(n, s) \in Nat /\ Times(n, Append(s, x)) = Times(n, s) + One(x = n)
<1> DEFINE A == {i \in 1..Len(s) : s[i] = n}
           B == {i \in 1..Len(Append(s, x)) : Append(s, x)[i] = n}
<1>1. /\ Len(s) \in Nat /\ Len(Append(s, x)) = Len(s) + 1 /\ Append(s, x)[Len(s) + 1] = x
      /\ \A i \in 1..Len(s) : Append(s, x)[i] = s[i]
  BY AppendProperties, LenProperties
<1>2. /\ A \in SUBSET (1..Len(s)) /\ B \in SUBSET (1..Len(s) + 1)
      /\ \A i \in 1..Len(s) : i \in A <=> i \in B
      /\ Len(s) + 1 \in B <=> x = n
  BY <1>1
<1>3. Cardinality(A) \in Nat /\ Cardinality(B) = Cardinality(A) + One(x = n)
  <2> HIDE DEF A, B
  <2> QED
    BY <1>1, <1>2, PositionsAppend DEF One
<1> QED
  BY <1>3 DEF Times

LEMMA TimesTail ==
  ASSUME NEW s \in Seq(Node), s # <<>>, NEW n
  PROVE  /\ Times(n, s) \in Nat /\ Times(n, Tail(s)) \in Nat
         /\ Times(n, s) = Times(n, Tail(s)) + One(Head(s) = n)
<1> DEFINE A == {i \in 1..Len(s) : s[i] = n}
           B == {i \in 1..Len(Tail(s)) : Tail(s)[i] = n}
<1>1. /\ Len(s) \in Nat \ {0} /\ Len(Tail(s)) = Len(s) - 1 /\ Head(s) = s[1]
      /\ \A i \in 1..Len(s) - 1 : Tail(s)[i] = s[i + 1]
  BY HeadTailProperties, EmptySeq
<1>2. /\ A \in SUBSET (1..Len(s)) /\ B \in SUBSET (1..Len(s) - 1)
      /\ \A i \in 1..Len(s) - 1 : i \in B <=> i + 1 \in A
      /\ 1 \in A <=> Head(s) = n
  BY <1>1
<1>3. /\ Cardinality(A) \in Nat /\ Cardinality(B) \in Nat
      /\ Cardinality(A) = Cardinality(B) + One(Head(s) = n)
  <2> HIDE DEF A, B
  <2> QED
    BY <1>1, <1>2, PositionsTail DEF One
<1> QED
  BY <1>3 DEF Times

\* The same for the results in OutputCh.
Outputs(n, s) == Cardinality({i \in 1..Len(s) : s[i][1] = n})

LEMMA OutputsAppend ==
  ASSUME NEW S, NEW s \in Seq(S), NEW x \in S, NEW n
  PROVE  Outputs(n, s) \in Nat /\ Outputs(n, Append(s, x)) = Outputs(n, s) + One(x[1] = n)
<1> DEFINE A == {i \in 1..Len(s) : s[i][1] = n}
           B == {i \in 1..Len(Append(s, x)) : Append(s, x)[i][1] = n}
<1>1. /\ Len(s) \in Nat /\ Len(Append(s, x)) = Len(s) + 1 /\ Append(s, x)[Len(s) + 1] = x
      /\ \A i \in 1..Len(s) : Append(s, x)[i] = s[i]
  BY AppendProperties, LenProperties
<1>2. /\ A \in SUBSET (1..Len(s)) /\ B \in SUBSET (1..Len(s) + 1)
      /\ \A i \in 1..Len(s) : i \in A <=> i \in B
      /\ Len(s) + 1 \in B <=> x[1] = n
  BY <1>1
<1>3. Cardinality(A) \in Nat /\ Cardinality(B) = Cardinality(A) + One(x[1] = n)
  <2> HIDE DEF A, B
  <2> QED
    BY <1>1, <1>2, PositionsAppend DEF One
<1> QED
  BY <1>3 DEF Outputs

LEMMA OutputsTail ==
  ASSUME NEW S, NEW s \in Seq(S), s # <<>>, NEW n
  PROVE  /\ Outputs(n, s) \in Nat /\ Outputs(n, Tail(s)) \in Nat
         /\ Outputs(n, s) = Outputs(n, Tail(s)) + One(Head(s)[1] = n)
<1> DEFINE A == {i \in 1..Len(s) : s[i][1] = n}
           B == {i \in 1..Len(Tail(s)) : Tail(s)[i][1] = n}
<1>1. /\ Len(s) \in Nat \ {0} /\ Len(Tail(s)) = Len(s) - 1 /\ Head(s) = s[1]
      /\ \A i \in 1..Len(s) - 1 : Tail(s)[i] = s[i + 1]
  BY HeadTailProperties, EmptySeq
<1>2. /\ A \in SUBSET (1..Len(s)) /\ B \in SUBSET (1..Len(s) - 1)
      /\ \A i \in 1..Len(s) - 1 : i \in B <=> i + 1 \in A
      /\ 1 \in A <=> Head(s)[1] = n
  BY <1>1
<1>3. /\ Cardinality(A) \in Nat /\ Cardinality(B) \in Nat
      /\ Cardinality(A) = Cardinality(B) + One(Head(s)[1] = n)
  <2> HIDE DEF A, B
  <2> QED
    BY <1>1, <1>2, PositionsTail DEF One
<1> QED
  BY <1>3 DEF Outputs

-------------------------------------------------------------------------------
(* Where a node is. *)

USE CrawlerAssumption, ConnPoolAssumption DEF Channel

\* Goroutines that crawl node n; a goroutine that takes a node or hands it on
\* changes their number by one.
Crawlers(n) == {u \in User : node[u] = n}

LEMMA CrawlersFinite ==
  ASSUME Basic, FewBusy, NEW n \in Node
  PROVE  IsFiniteSet(Crawlers(n)) /\ Cardinality(Crawlers(n)) \in Nat
<1>1. Crawlers(n) \subseteq Busy
  <2>1. \A u \in User : node[u] = n => pc[u] # "none"
    BY DEF Basic, Hands
  <2> QED
    BY <2>1 DEF Crawlers, Busy
<1> QED
  BY <1>1, FS_Subset, FS_CardinalityType DEF FewBusy

LEMMA CrawlersMove ==
  ASSUME Basic, FewBusy, NEW n \in Node, NEW u \in User, NEW m \in Node \cup {NoNode},
         node' = [node EXCEPT ![u] = m], node[u] = NoNode \/ m = NoNode
  PROVE  Cardinality(Crawlers(n)') + One(node[u] = n) = Cardinality(Crawlers(n)) + One(m = n)
<1>1. IsFiniteSet(Crawlers(n)) /\ Cardinality(Crawlers(n)) \in Nat
  BY CrawlersFinite
<1>2. Crawlers(n)' =
        IF m = n THEN Crawlers(n) \cup {u} ELSE Crawlers(n) \ {u}
  BY DEF Crawlers, Basic, TypeOK
<1>3. u \in Crawlers(n) <=> node[u] = n
  BY DEF Crawlers
<1>4. CASE m = n
  <2>1. Crawlers(n)' = Crawlers(n) \cup {u} /\ u \notin Crawlers(n) /\ node[u] # n
    BY <1>2, <1>3, <1>4
  <2>2. Cardinality(Crawlers(n)') = Cardinality(Crawlers(n)) + 1
    BY <1>1, <2>1, FS_AddElement
  <2> QED
    BY <1>1, <1>3, <1>4, <2>1, <2>2 DEF One
<1>5. CASE m # n /\ node[u] = n
  <2>1. Crawlers(n)' = Crawlers(n) \ {u} /\ u \in Crawlers(n)
    BY <1>2, <1>3, <1>5
  <2>2. Cardinality(Crawlers(n)') = Cardinality(Crawlers(n)) - 1
    BY <1>1, <2>1, FS_RemoveElement
  <2> QED
    BY <1>1, <1>5, <2>2 DEF One
<1>6. CASE m # n /\ node[u] # n
  <2>1. Crawlers(n)' = Crawlers(n)
    BY <1>2, <1>3, <1>6
  <2> QED
    BY <1>6, <2>1 DEF One
<1> QED
  BY <1>4, <1>5, <1>6

AtDaemon(n) == One(dpc = "send" /\ dnode = n)

\* Traces, in these terms.
Sum(n) ==
  /\ Traces(n) = Times(n, chan["ReqCh"]) + Cardinality(Crawlers(n))
                   + Outputs(n, chan["OutputCh"]) + AtDaemon(n)
  /\ Times(n, chan["ReqCh"]) \in Nat /\ Cardinality(Crawlers(n)) \in Nat
  /\ Outputs(n, chan["OutputCh"]) \in Nat /\ AtDaemon(n) \in Nat /\ Traces(n) \in Nat
Sums == \A n \in Node : Sum(n)

LEMMA TracesSum == Basic /\ FewBusy => Sums
<1> SUFFICES ASSUME Basic, FewBusy, NEW n \in Node PROVE Sum(n)
  BY DEF Sums
<1>1. chan["ReqCh"] \in Seq(Node) /\ chan["OutputCh"] \in Seq(Node \X BOOLEAN)
  BY DEF Basic, TypeOK
<1>2. Times(n, chan["ReqCh"]) \in Nat
  BY <1>1, TimesAppend
<1>3. Outputs(n, chan["OutputCh"]) \in Nat
  <2>1. <<n, TRUE>> \in Node \X BOOLEAN
    OBVIOUS
  <2> QED
    BY <1>1, <2>1, OutputsAppend
<1>4. Cardinality(Crawlers(n)) \in Nat
  BY CrawlersFinite
<1>5. AtDaemon(n) \in Nat
  BY DEF AtDaemon, One
<1>6. Traces(n) = Times(n, chan["ReqCh"]) + Cardinality(Crawlers(n))
                    + Outputs(n, chan["OutputCh"]) + AtDaemon(n)
  BY DEF Traces, Crawlers, Outputs, AtDaemon, One
<1> QED
  BY <1>2, <1>3, <1>4, <1>5, <1>6 DEF Sum

\* A step moves a node in one of six ways, or leaves every node where it is.
Resting ==
  /\ UNCHANGED <<node, Cache, done>>
  /\ chan'["ReqCh"] = chan["ReqCh"] /\ chan'["OutputCh"] = chan["OutputCh"]
  /\ dpc = "send" <=> dpc' = "send"
  /\ dpc = "send" => UNCHANGED dnode

Moving ==
  \/ DaemonNew \/ DaemonSend \/ DaemonOutput \/ DaemonDrains
  \/ \E u \in User : CrawlTake(u) \/ CrawlMark(u) \/ CrawlOutput(u)

LEMMA NodeSteps == ASSUME Basic, [Next]_vars PROVE Resting \/ Moving
<1>1. ASSUME UNCHANGED <<node, Cache, done, chan, dpc, dnode>> PROVE Resting
  BY <1>1 DEF Resting
<1>2. CASE UNCHANGED vars
  BY <1>1, <1>2 DEF vars, allButProc, chanVars, crawlVars
<1>3. CASE Timeout \/ Spawn
  BY <1>1, <1>3 DEF Timeout, Spawn, bootFrame, chanVars
<1>4. CASE BootStep
  <2>1. \/ UNCHANGED <<node, Cache, done, chan, dnode>> /\ dpc # "send" /\ dpc' # "send"
        \/ UNCHANGED <<node, Cache, done, chan, dpc, dnode>>
    BY <1>4 DEF BootStep, BootEnds, CloserStep, CloseChannel, AfterClose, CloseTwice, ShutPool,
                ShutNilPool, DrainPool, Exit, Panic, allButProc, crawlVars, chanVars, bootFrame
  <2> QED
    BY <1>1, <2>1 DEF Resting
<1>5. CASE DaemonStep
  <2>1. CASE DaemonTake
    <3>1. ChanOK /\ "DHTCh" \in Channel
      BY ChanTyped DEF Basic
    <3>2. chan'["ReqCh"] = chan["ReqCh"] /\ chan'["OutputCh"] = chan["OutputCh"]
      BY <2>1, <3>1, ReceiveTyped DEF DaemonTake
    <3> QED
      BY <2>1, <3>2 DEF DaemonTake, daemonFrame, crawlVars, Resting
  <2>2. CASE DaemonSendClosed \/ DaemonTakeNil
    BY <1>1, <2>2 DEF DaemonSendClosed, DaemonTakeNil, Panic, allButProc, chanVars, crawlVars
  <2>3. CASE DaemonDB \/ DaemonKnown \/ DaemonStops
    BY <2>3 DEF DaemonDB, DaemonKnown, DaemonStops, daemonFrame, crawlVars, chanVars, Resting
  <2> QED
    BY <1>5, <2>1, <2>2, <2>3 DEF DaemonStep, DaemonWorks, Moving
<1>6. CASE WriterSaves \/ WriterFails
  BY <1>1, <1>6 DEF WriterSaves, WriterFails, Panic, allButProc, chanVars, crawlVars, daemonFrame
<1>7. ASSUME NEW u \in User, CrawlStep(u) PROVE Resting \/ Moving
  <2>1. CASE CrawlTakeNil(u) \/ GetNilPool(u) \/ CrawlSendClosed(u)
    BY <1>1, <2>1 DEF CrawlTakeNil, GetNilPool, CrawlSendClosed, Panic, allButProc, chanVars,
                      crawlVars
  <2>2. CASE \/ CrawlQuit(u) \/ GetIdle(u) \/ GetNone(u) \/ DialOK(u) \/ GetError(u)
             \/ ZeusEnds(u) \/ GiveToken(u)
    BY <1>1, <2>2 DEF CrawlQuit, GetIdle, GetNone, DialOK, GetError, ZeusEnds, GiveToken,
                      crawlFrame
  <2>3. CASE CrawlSend(u)
    <3>1. ChanOK /\ "DHTCh" \in Channel
      BY ChanTyped DEF Basic
    <3>2. PICK n \in todo[u] : Send("DHTCh", n)
      BY <2>3 DEF CrawlSend
    <3>3. n \in Content("DHTCh")
      BY DEF Content, Basic, TypeOK
    <3>4. chan'["ReqCh"] = chan["ReqCh"] /\ chan'["OutputCh"] = chan["OutputCh"]
      BY <3>1, <3>2, <3>3, SendTyped
    <3> QED
      BY <2>3, <3>4 DEF CrawlSend, crawlFrame, Resting
  <2> QED
    BY <1>7, <2>1, <2>2, <2>3 DEF CrawlStep, Moving
<1>8. ASSUME NEW s \in Disc, DiscStep(s) PROVE Resting \/ Moving
  <2>1. CASE DiscStarts(s) \/ DiscFails(s) \/ DiscFinds(s) \/ DiscPushesClosed(s) \/ DiscEnds(s)
    BY <1>1, <2>1 DEF DiscStarts, DiscFails, DiscFinds, DiscPushesClosed, DiscEnds, Panic,
                      allButProc, chanVars, crawlVars, discFrame
  <2>2. CASE DiscPushes(s)
    <3>1. ChanOK /\ "DHTCh" \in Channel
      BY ChanTyped DEF Basic
    <3>2. snode[s] \in Content("DHTCh") /\ Send("DHTCh", snode[s])
      BY <2>2 DEF DiscPushes, Content, Basic, TypeOK, Hands
    <3>3. chan'["ReqCh"] = chan["ReqCh"] /\ chan'["OutputCh"] = chan["OutputCh"]
      BY <3>1, <3>2, SendTyped
    <3> QED
      BY <2>2, <3>3 DEF DiscPushes, discFrame, crawlVars, Resting
  <2> QED
    BY <1>8, <2>1, <2>2 DEF DiscStep
<1> QED
  BY <1>2, <1>3, <1>4, <1>5, <1>6, <1>7, <1>8 DEF Next, Stopped

LEMMA RestKeeps == ASSUME Resting, NEW n \in Node PROVE Traces(n)' = Traces(n)
<1>1. AtDaemon(n)' = AtDaemon(n)
  BY DEF Resting, AtDaemon, One
<1>2. Crawlers(n)' = Crawlers(n)
  BY DEF Resting, Crawlers
<1>3. Traces(n) = Times(n, chan["ReqCh"]) + Cardinality(Crawlers(n))
                   + Outputs(n, chan["OutputCh"]) + AtDaemon(n)
  BY DEF Traces, Crawlers, Outputs, AtDaemon, One
<1>4. Traces(n)' = Times(n, chan'["ReqCh"]) + Cardinality(Crawlers(n)')
                   + Outputs(n, chan'["OutputCh"]) + AtDaemon(n)'
  BY DEF Traces, Crawlers, Outputs, AtDaemon, One, Times
<1> QED
  BY <1>1, <1>2, <1>3, <1>4 DEF Resting

\* From ReqCh to a goroutine, and from there to OutputCh; from the daemon to ReqCh.
LEMMA PassKeeps ==
  ASSUME Basic, FewBusy, Sums, Sums', NEW n \in Node,
         DaemonSend \/ \E u \in User : CrawlTake(u) \/ CrawlMark(u) \/ CrawlOutput(u)
  PROVE  Traces(n)' = Traces(n) /\ UNCHANGED done
<1>1. Sum(n) /\ Sum(n)'
  BY DEF Sums
<1>2. ChanOK /\ "ReqCh" \in Channel /\ "OutputCh" \in Channel
  BY ChanTyped DEF Basic
<1>3. CASE DaemonSend
  <2>1. dnode \in Node /\ Send("ReqCh", dnode) /\ dnode \in Content("ReqCh")
    BY <1>3 DEF DaemonSend, Content, Basic, TypeOK, Hands
  <2>2. chan'["ReqCh"] = Append(chan["ReqCh"], dnode) /\ chan'["OutputCh"] = chan["OutputCh"]
    BY <1>2, <2>1, SendTyped
  <2>3. Times(n, chan'["ReqCh"]) = Times(n, chan["ReqCh"]) + One(dnode = n)
    BY <1>2, <2>1, <2>2, TimesAppend DEF ChanOK, Content
  <2>4. AtDaemon(n) = One(dnode = n) /\ AtDaemon(n)' = 0
    BY <1>3 DEF DaemonSend, AtDaemon, One
  <2>5. Crawlers(n)' = Crawlers(n) /\ UNCHANGED done
    BY <1>3 DEF DaemonSend, daemonFrame, crawlVars, Crawlers
  <2>6. One(dnode = n) \in Nat
    BY DEF One
  <2> QED
    BY <1>1, <2>2, <2>3, <2>4, <2>5, <2>6 DEF Sum
<1>4. ASSUME NEW u \in User, CrawlTake(u) PROVE Traces(n)' = Traces(n) /\ UNCHANGED done
  <2> DEFINE m == Head(chan["ReqCh"])
  <2>1. Receive("ReqCh") /\ pc[u] = "select" /\ node' = [node EXCEPT ![u] = m]
    BY <1>4 DEF CrawlTake
  <2>2. /\ m \in Node /\ chan["ReqCh"] # <<>> /\ chan'["ReqCh"] = Tail(chan["ReqCh"])
        /\ chan'["OutputCh"] = chan["OutputCh"]
    BY <1>2, <2>1, ReceiveTyped DEF Content
  <2>3. node[u] = NoNode
    BY <2>1 DEF Basic, Hands
  <2>4. Times(n, chan["ReqCh"]) = Times(n, chan'["ReqCh"]) + One(m = n)
    BY <1>2, <2>2, TimesTail DEF ChanOK, Content
  <2>5. Cardinality(Crawlers(n)') + One(node[u] = n) = Cardinality(Crawlers(n)) + One(m = n)
    <3>1. m \in Node \cup {NoNode} /\ node' = [node EXCEPT ![u] = m]
      BY <2>1, <2>2
    <3>2. ASSUME NEW k \in Node \cup {NoNode}, node' = [node EXCEPT ![u] = k]
          PROVE  Cardinality(Crawlers(n)') + One(node[u] = n) = Cardinality(Crawlers(n)) + One(k = n)
      <4> HIDE CrawlerAssumption, ConnPoolAssumption
      <4>1. node[u] = NoNode \/ k = NoNode
        BY <2>3
      <4> QED
        BY <3>2, <4>1, CrawlersMove
    <3> HIDE DEF m
    <3> QED
      BY <3>1, <3>2
  <2>6. One(node[u] = n) = 0 /\ One(m = n) \in Nat
    BY <2>3 DEF One
  <2>7. AtDaemon(n)' = AtDaemon(n) /\ UNCHANGED done
    BY <1>4 DEF CrawlTake, crawlFrame, AtDaemon
  <2> HIDE DEF m
  <2> QED
    BY <1>1, <2>2, <2>4, <2>5, <2>6, <2>7 DEF Sum
<1>5. ASSUME NEW u \in User, CrawlMark(u) PROVE Traces(n)' = Traces(n) /\ UNCHANGED done
  <2>1. /\ UNCHANGED <<chan, node, done>> /\ AtDaemon(n)' = AtDaemon(n)
    BY <1>5 DEF CrawlMark, crawlFrame, AtDaemon
  <2>2. Crawlers(n)' = Crawlers(n)
    BY <2>1 DEF Crawlers
  <2> QED
    BY <1>1, <2>1, <2>2 DEF Sum
<1>6. ASSUME NEW u \in User, CrawlOutput(u) PROVE Traces(n)' = Traces(n) /\ UNCHANGED done
  <2>1. PICK info \in BOOLEAN : Send("OutputCh", <<node[u], info>>)
    BY <1>6 DEF CrawlOutput
  <2>2. node[u] \in Node /\ node' = [node EXCEPT ![u] = NoNode]
    BY <1>6 DEF CrawlOutput, Basic, TypeOK, Hands
  <2>3. <<node[u], info>> \in Node \X BOOLEAN /\ <<node[u], info>>[1] = node[u]
    BY <2>2
  <2>4. /\ chan'["OutputCh"] = Append(chan["OutputCh"], <<node[u], info>>)
        /\ chan'["ReqCh"] = chan["ReqCh"]
    BY <1>2, <2>1, <2>3, SendTyped DEF Content
  <2>5. Outputs(n, chan'["OutputCh"]) = Outputs(n, chan["OutputCh"]) + One(node[u] = n)
    <3>1. chan["OutputCh"] \in Seq(Node \X BOOLEAN)
      BY DEF Basic, TypeOK
    <3> DEFINE x == <<node[u], info>>
    <3>2. x \in Node \X BOOLEAN /\ x[1] = node[u] /\ chan'["OutputCh"] = Append(chan["OutputCh"], x)
      BY <2>3, <2>4
    <3> HIDE DEF x
    <3>3. Outputs(n, Append(chan["OutputCh"], x)) = Outputs(n, chan["OutputCh"]) + One(x[1] = n)
      BY <3>1, <3>2, OutputsAppend
    <3> QED
      BY <3>2, <3>3
  <2>6. Cardinality(Crawlers(n)') + One(node[u] = n) = Cardinality(Crawlers(n)) + One(NoNode = n)
    BY <2>2, CrawlersMove
  <2>7. One(NoNode = n) = 0 /\ One(node[u] = n) \in Nat
    BY DEF One
  <2>8. AtDaemon(n)' = AtDaemon(n) /\ UNCHANGED done
    BY <1>6 DEF CrawlOutput, crawlFrame, AtDaemon
  <2> QED
    BY <1>1, <2>4, <2>5, <2>6, <2>7, <2>8 DEF Sum
<1> QED
  BY <1>3, <1>4, <1>5, <1>6

\* A node that the daemon adds gets its trace, and one that arrives loses it.
LEMMA NewTraces ==
  ASSUME Basic, Sums, Sums', NEW n \in Node, DaemonNew
  PROVE  /\ Traces(n)' = Traces(n) + One(dnode = n)
         /\ Cache' = Cache \cup {dnode} /\ dnode \notin Cache /\ dnode \in Node
         /\ UNCHANGED done
<1>1. Sum(n) /\ Sum(n)'
  BY DEF Sums
<1>2. /\ dpc = "lock" /\ dpc' = "send" /\ UNCHANGED <<dnode, chan, node, done>>
      /\ Cache' = Cache \cup {dnode} /\ dnode \notin Cache
  BY DEF DaemonNew, Remember, daemonFrame, crawlVars, chanVars
<1>3. dnode \in Node
  BY <1>2 DEF Basic, TypeOK, Hands
<1>4. AtDaemon(n) = 0 /\ AtDaemon(n)' = One(dnode = n) /\ One(dnode = n) \in Nat
  BY <1>2 DEF AtDaemon, One
<1>5. Crawlers(n)' = Crawlers(n)
  BY <1>2 DEF Crawlers
<1>6. Traces(n)' = Traces(n) + One(dnode = n)
  BY <1>1, <1>2, <1>4, <1>5 DEF Sum
<1> QED
  BY <1>2, <1>3, <1>6

LEMMA ArrivalTraces ==
  ASSUME Basic, Sums, Sums', NEW n \in Node, DaemonOutput \/ DaemonDrains
  PROVE  \E m \in Node : /\ Traces(n) = Traces(n)' + One(m = n)
                        /\ done' = [done EXCEPT ![m] = @ + 1]
                        /\ m = Head(chan["OutputCh"])[1] /\ UNCHANGED Cache
<1> DEFINE m == Head(chan["OutputCh"])[1]
<1>1. Sum(n) /\ Sum(n)'
  BY DEF Sums
<1>2. ChanOK /\ "OutputCh" \in Channel /\ Took("OutputCh")
  BY ChanTyped DEF Basic, DaemonOutput, DaemonDrains
<1>3. /\ Head(chan["OutputCh"]) \in Node \X BOOLEAN /\ chan["OutputCh"] # <<>>
      /\ chan'["OutputCh"] = Tail(chan["OutputCh"]) /\ chan'["ReqCh"] = chan["ReqCh"]
  BY <1>2, ReceiveTyped DEF Took, Content
<1>4. m \in Node
  BY <1>3
<1>5. Outputs(n, chan["OutputCh"]) = Outputs(n, chan'["OutputCh"]) + One(m = n)
  BY <1>2, <1>3, OutputsTail DEF ChanOK, Content
<1>6. AtDaemon(n) = 0 /\ AtDaemon(n)' = 0
  BY DEF DaemonOutput, DaemonDrains, AtDaemon, One
<1>7. Crawlers(n)' = Crawlers(n) /\ UNCHANGED Cache
  BY DEF DaemonOutput, DaemonDrains, daemonFrame, crawlVars, Crawlers
<1>8. done' = [done EXCEPT ![m] = @ + 1]
  BY <1>2 DEF Took
<1>9. One(m = n) \in Nat
  BY DEF One
<1> HIDE DEF m
<1>10. Traces(n) = Traces(n)' + One(m = n)
  BY <1>1, <1>3, <1>5, <1>6, <1>7, <1>9 DEF Sum
<1> QED
  BY <1>4, <1>7, <1>8, <1>10 DEF m

-------------------------------------------------------------------------------
(* Every node in Cache is on its way exactly once. *)

Seeds == \A i \in 1..Len(Boot) : Boot[i] \in Cache
Once == EveryNodeOnce /\ Seeds

\* A node is a seed if a first lookup returned it.
LEMMA SeedTimes ==
  ASSUME NEW n
  PROVE  /\ Times(n, Boot) \in Nat
         /\ Times(n, Boot) > 0 <=> \E i \in 1..Len(Boot) : Boot[i] = n
<1> DEFINE A == {i \in 1..Len(Boot) : Boot[i] = n}
<1>1. Len(Boot) \in Nat
  BY LenProperties
<1>2. IsFiniteSet(1..Len(Boot))
  BY <1>1, FS_Interval
<1>3. IsFiniteSet(A) /\ Cardinality(A) \in Nat
  BY <1>2, FS_Subset, FS_CardinalityType
<1>4. Cardinality(A) = 0 <=> A = {}
  BY <1>3, FS_EmptySet
<1>5. Times(n, Boot) = Cardinality(A)
  BY DEF Times
<1>6. A # {} <=> \E i \in 1..Len(Boot) : Boot[i] = n
  OBVIOUS
<1> HIDE DEF A
<1> QED
  BY <1>3, <1>4, <1>5, <1>6

LEMMA OnceInit == Init /\ Sums => Once /\ \A n \in Node : Traces(n) = Times(n, Boot)
<1> SUFFICES ASSUME Init, Sums PROVE Once /\ \A n \in Node : Traces(n) = Times(n, Boot)
  OBVIOUS
<1>1. chan["ReqCh"] = Boot /\ chan["OutputCh"] = <<>>
  <2>1. chan = [ch \in Channel |-> IF ch = "ReqCh" THEN Boot ELSE <<>>]
    BY DEF Init
  <2> QED
    BY <2>1
<1>2. ASSUME NEW n \in Node PROVE Traces(n) = Times(n, Boot)
  <2>1. Outputs(n, <<>>) = 0
    <3>1. {i \in 1..Len(<<>>) : <<>>[i][1] = n} = {}
      BY EmptySeq
    <3> QED
      BY <3>1, FS_EmptySet DEF Outputs
  <2>2. Cardinality(Crawlers(n)) = 0
    <3>1. Crawlers(n) = {}
      BY DEF Init, Crawlers
    <3> QED
      BY <3>1, FS_EmptySet
  <2>3. AtDaemon(n) = 0
    BY DEF Init, AtDaemon, One
  <2> QED
    BY <1>1, <2>1, <2>2, <2>3, SeedTimes DEF Sums, Sum
<1>3. Cache = {Boot[i] : i \in 1..Len(Boot)}
  BY DEF Init
<1>4. Seeds
  BY <1>3 DEF Seeds
<1>5. ASSUME NEW n \in Node
      PROVE  Traces(n) + done[n] = Due(n)
  <2>1. done[n] = 0
    BY DEF Init
  <2>2. n \in Cache <=> Times(n, Boot) > 0
    BY <1>3, SeedTimes
  <2> QED
    BY <1>2, <2>1, <2>2, SeedTimes DEF Due
<1> QED
  BY <1>2, <1>4, <1>5 DEF Once, EveryNodeOnce

\* A goroutine marks a node that is in Cache already: the daemon put it there before
\* it put it into ReqCh.
LEMMA MarkKnown ==
  ASSUME Basic, FewBusy, Sums, Once, NEW u \in User, CrawlMark(u)
  PROVE  UNCHANGED Cache
<1> DEFINE n == node[u]
<1>1. n \in Node
  BY DEF CrawlMark, Basic, TypeOK, Hands
<1>2. IsFiniteSet(Crawlers(n)) /\ Cardinality(Crawlers(n)) \in Nat /\ u \in Crawlers(n)
  BY <1>1, CrawlersFinite DEF Crawlers
<1>3. Cardinality(Crawlers(n)) # 0
  BY <1>2, FS_EmptySet
<1>4. Sum(n)
  BY <1>1 DEF Sums
<1>5. Traces(n) \in Nat /\ Traces(n) > 0 /\ done[n] \in Nat
  BY <1>1, <1>2, <1>3, <1>4 DEF Sum, Basic, TypeOK
<1>6. n \in Cache
  BY <1>1, <1>5 DEF Once, EveryNodeOnce, Due
<1> QED
  BY <1>6 DEF CrawlMark

\* Of the steps that move a node, only DaemonNew changes Cache.
LEMMA PassKnown ==
  ASSUME Basic, FewBusy, Sums, Once,
         DaemonSend \/ \E u \in User : CrawlTake(u) \/ CrawlMark(u) \/ CrawlOutput(u)
  PROVE  UNCHANGED Cache
<1>1. CASE DaemonSend
  BY <1>1 DEF DaemonSend
<1>2. ASSUME NEW u \in User, CrawlTake(u) \/ CrawlMark(u) \/ CrawlOutput(u)
      PROVE  UNCHANGED Cache
  BY <1>2, MarkKnown DEF CrawlTake, CrawlOutput
<1> QED
  BY <1>1, <1>2

LEMMA OnceStep ==
  ASSUME Basic, FewBusy, Sums, Sums', Once, [Next]_vars
  PROVE  Once'
<1>1. Seeds'
  <2>1. Cache \subseteq Cache'
    BY NodeSteps, PassKnown DEF Resting, Moving, DaemonNew, Remember, DaemonOutput, DaemonDrains
  <2> QED
    BY <2>1 DEF Once, Seeds
<1>2. ASSUME NEW n \in Node
      PROVE  Traces(n)' + done'[n] =
               IF n \notin Cache' THEN 0 ELSE IF Times(n, Boot) > 1 THEN Times(n, Boot) ELSE 1
  <2>1. Traces(n) + done[n] =
          IF n \notin Cache THEN 0 ELSE IF Times(n, Boot) > 1 THEN Times(n, Boot) ELSE 1
    BY DEF Once, EveryNodeOnce, Due
  <2>2. Traces(n) \in Nat /\ Traces(n)' \in Nat /\ done[n] \in Nat
    BY DEF Sums, Sum, Basic, TypeOK
  <2>3. CASE Resting
    BY <2>1, <2>3, RestKeeps DEF Resting
  <2>4. CASE DaemonSend \/ \E u \in User : CrawlTake(u) \/ CrawlMark(u) \/ CrawlOutput(u)
    <3>1. Traces(n)' = Traces(n) /\ UNCHANGED done
      BY <2>4, PassKeeps
    <3>2. UNCHANGED Cache
      BY <2>4, PassKnown
    <3> QED
      BY <2>1, <3>1, <3>2
  <2>5. CASE DaemonNew
    <3>1. /\ Traces(n)' = Traces(n) + One(dnode = n)
          /\ Cache' = Cache \cup {dnode} /\ dnode \notin Cache /\ UNCHANGED done
      BY <2>5, NewTraces
    <3>2. Times(dnode, Boot) = 0
      BY <3>1, SeedTimes DEF Once, Seeds
    <3>3. CASE n = dnode
      BY <2>1, <2>2, <3>1, <3>2, <3>3 DEF One
    <3>4. CASE n # dnode
      BY <2>1, <2>2, <3>1, <3>4 DEF One
    <3> QED
      BY <3>3, <3>4
  <2>6. CASE DaemonOutput \/ DaemonDrains
    <3>1. PICK m \in Node : /\ Traces(n) = Traces(n)' + One(m = n)
                            /\ done' = [done EXCEPT ![m] = @ + 1] /\ UNCHANGED Cache
      BY <2>6, ArrivalTraces
    <3>2. done'[n] = done[n] + One(m = n)
      BY <2>2, <3>1 DEF One, Basic, TypeOK
    <3>3. One(m = n) \in Nat
      BY DEF One
    <3>4. Traces(n)' + done'[n] = Traces(n) + done[n]
      BY <2>2, <3>1, <3>2, <3>3
    <3> QED
      BY <2>1, <3>1, <3>4
  <2> QED
    BY <2>3, <2>4, <2>5, <2>6, NodeSteps DEF Moving
<1> QED
  BY <1>1, <1>2 DEF Once, EveryNodeOnce, Due

LEMMA OnceAlways == Spec => [](Sums /\ Once)
<1>1. Basic /\ Counted => FewBusy /\ Sums
  BY TracesSum DEF Counted
<1>2. Basic /\ FewBusy /\ Sums /\ Sums' /\ Once /\ [Next]_vars => Once'
  BY OnceStep
<1>3. Init /\ Sums => Once
  BY OnceInit
<1> QED
  BY <1>1, <1>2, <1>3, BasicAlways, CountedAlways, PTL DEF Spec

\* A node that is in Cache is in exactly one place, or delivered, whatever the order
\* in which goroutines, daemon and services reach the channels and c.mu
\* (crawler.go:312-333, 338-392).
THEOREM NodesOnce == Spec => []EveryNodeOnce
BY OnceAlways, PTL DEF Once

-------------------------------------------------------------------------------
(* The refinement of CrawlSpec. *)

\* The Times and Cardinality of the instance are other symbols with the same
\* definitions.
LEMMA SameTimes == ASSUME NEW n PROVE Crawl!Times(n, Boot) = Times(n, Boot)
BY DEF Crawl!Times, Times, Crawl!Cardinality, Cardinality

\* What is owed, in terms of the places of nodes.
OwedIsUnderway == \A n \in Node : Due(n) - done[n] = Traces(n)
LEMMA OwedTraces == Basic /\ Sums /\ Once => OwedIsUnderway
<1> SUFFICES ASSUME Basic, Sums, Once, NEW n \in Node PROVE Due(n) - done[n] = Traces(n)
  BY DEF OwedIsUnderway
<1>1. Traces(n) + done[n] = Due(n) /\ Traces(n) \in Nat /\ done[n] \in Nat
  BY DEF Once, EveryNodeOnce, Sums, Sum, Basic, TypeOK
<1> QED
  BY <1>1

LEMMA CrawlRefinesInit == Init /\ Sums => Crawl!CrawlInit
<1> SUFFICES ASSUME Init, Sums PROVE Crawl!CrawlInit
  OBVIOUS
<1>1. Cache = {n \in Node : Crawl!Times(n, Boot) > 0}
  <2>1. Cache = {Boot[i] : i \in 1..Len(Boot)} /\ Cache \subseteq Node
    BY BasicInit DEF Init, Basic, TypeOK
  <2>2. \A n \in Node : n \in Cache <=> Crawl!Times(n, Boot) > 0
    BY <2>1, SeedTimes, SameTimes
  <2> QED
    BY <2>1, <2>2
<1>2. [n \in Node |-> Due(n) - done[n]] = [n \in Node |-> Crawl!Times(n, Boot)]
  <2>1. \A n \in Node : Due(n) - done[n] = Times(n, Boot)
    BY BasicInit, OnceInit, OwedTraces DEF OwedIsUnderway
  <2> QED
    BY <2>1, SameTimes
<1>3. (ctxDone \/ proc # "running") = FALSE
  BY DEF Init
<1>4. Stuck = FALSE
  BY DEF Init, Stuck, Standstill, NoTokenLeft
<1> QED
  BY <1>1, <1>2, <1>3, <1>4 DEF Crawl!CrawlInit

Over == ctxDone \/ proc # "running"

\* What is over stays so, what moves a node ends nothing, and what ends the crawl
\* leaves channels and goroutines as they are.
LEMMA OverStep ==
  ASSUME [Next]_vars
  PROVE  /\ Over => Over'
         /\ Moving => UNCHANGED <<proc, ctxDone>>
         /\ UNCHANGED <<proc, ctxDone>> \/ UNCHANGED <<dpc, chan, tokens, pc>>
<1>1. ASSUME proc # "running" PROVE proc' # "running"
  BY <1>1 DEF Next, Stopped, vars
<1>2. ASSUME ctxDone PROVE ctxDone'
  BY <1>2, TimeoutOnly DEF Timeout
<1>3. Moving => UNCHANGED <<proc, ctxDone>>
  BY DEF Moving, DaemonNew, DaemonSend, DaemonOutput, DaemonDrains, CrawlTake, CrawlMark,
         CrawlOutput, daemonFrame, crawlFrame, procVars
<1>4. UNCHANGED proc \/ UNCHANGED <<dpc, chan, tokens, pc>>
  <2> USE DEF procVars
  <2>1. CASE Timeout \/ Spawn \/ BootStep
    BY <2>1 DEF Timeout, Spawn, BootStep, BootEnds, CloserStep, CloseChannel, CloseTwice, ShutPool,
                ShutNilPool, DrainPool, Exit, Panic, allButProc, chanVars, crawlVars
  <2>2. CASE DaemonStep \/ WriterSaves \/ WriterFails
    BY <2>2 DEF DaemonStep, DaemonWorks, DaemonDB, DaemonKnown, DaemonNew, DaemonSend,
                DaemonSendClosed, DaemonTakeNil, DaemonStops, DaemonDrains, DaemonOutput,
                DaemonTake, WriterSaves, WriterFails, Panic, allButProc, chanVars, crawlVars,
                daemonFrame
  <2>3. ASSUME NEW u \in User, CrawlStep(u)
        PROVE  UNCHANGED proc \/ UNCHANGED <<dpc, chan, tokens, pc>>
    BY <2>3 DEF CrawlStep, CrawlQuit, CrawlTake, CrawlTakeNil, CrawlMark, GetIdle, GetNone, DialOK,
                GetError, GetNilPool, ZeusEnds, GiveToken, CrawlSend, CrawlSendClosed,
                CrawlOutput, Panic, allButProc, chanVars, crawlVars, crawlFrame
  <2>4. ASSUME NEW s \in Disc, DiscStep(s)
        PROVE  UNCHANGED proc \/ UNCHANGED <<dpc, chan, tokens, pc>>
    BY <2>4 DEF DiscStep, DiscStarts, DiscFails, DiscFinds, DiscPushes, DiscPushesClosed,
                DiscEnds, Panic, allButProc, chanVars, crawlVars, discFrame
  <2>5. CASE UNCHANGED vars
    BY <2>5 DEF vars
  <2> QED
    BY <2>1, <2>2, <2>3, <2>4, <2>5 DEF Next, Stopped
<1>5. UNCHANGED ctxDone \/ UNCHANGED <<dpc, chan, tokens, pc>>
  BY TimeoutOnly DEF Timeout, chanVars
<1> QED
  BY <1>1, <1>2, <1>3, <1>4, <1>5 DEF Over

\* A goroutine that waits for c.mu waits while the daemon has it.
LEMMA MarkWaits ==
  ASSUME Basic, [Next]_vars, dpc = "send", NEW u \in User, pc[u] = "mark"
  PROVE  pc'[u] = "mark"
<1>1. CASE Spawn
  BY <1>1 DEF Spawn
<1>2. CASE Timeout \/ BootStep
  BY <1>2 DEF Timeout, BootStep, BootEnds, CloserStep, CloseChannel, CloseTwice, ShutPool,
              ShutNilPool, DrainPool, Exit, Panic, allButProc, crawlVars
<1>3. CASE DaemonStep \/ WriterSaves \/ WriterFails
  BY <1>3 DEF DaemonStep, DaemonWorks, DaemonDB, DaemonKnown, DaemonNew, DaemonSend,
              DaemonSendClosed, DaemonTakeNil, DaemonStops, DaemonDrains, DaemonOutput,
              DaemonTake, WriterSaves, WriterFails, Panic, allButProc, crawlVars, daemonFrame
<1>4. ASSUME NEW v \in User, CrawlStep(v) PROVE pc'[u] = "mark"
  <2>1. v # u \/ UNCHANGED pc
    BY <1>4 DEF CrawlStep, CrawlQuit, CrawlTake, CrawlTakeNil, CrawlMark, GetIdle, GetNone, DialOK,
                GetError, GetNilPool, ZeusEnds, GiveToken, CrawlSend, CrawlSendClosed,
                CrawlOutput, Panic, allButProc, crawlVars
  <2>2. UNCHANGED pc \/ \E p : pc' = [pc EXCEPT ![v] = p]
    BY <1>4, Zenon
    DEF CrawlStep, CrawlQuit, CrawlTake, CrawlTakeNil, CrawlMark, GetIdle, GetNone, DialOK,
        GetError, GetNilPool, ZeusEnds, GiveToken, CrawlSend, CrawlSendClosed, CrawlOutput,
        Panic, allButProc, crawlVars, Goto
  <2> QED
    BY <2>1, <2>2 DEF Basic, TypeOK
<1>5. ASSUME NEW s \in Disc, DiscStep(s) PROVE pc'[u] = "mark"
  BY <1>5 DEF DiscStep, DiscStarts, DiscFails, DiscFinds, DiscPushes, DiscPushesClosed, DiscEnds,
              Panic, allButProc, crawlVars, discFrame
<1>6. CASE UNCHANGED vars
  BY <1>6 DEF vars, allButProc, crawlVars
<1> QED
  BY <1>1, <1>2, <1>3, <1>4, <1>5, <1>6 DEF Next, Stopped

\* Nobody who could crawl a node, or bring the others to do so, ever comes back.
LEMMA StuckStays == ASSUME Basic, [Next]_vars, Stuck PROVE Stuck'
<1> USE DEF TokenHolders, Holding
<1>1. TokenStep
  BY TokenSteps
<1>2. CASE NoTokenLeft
  <2>1. tokens = 0 /\ TokenHolders = {} /\ InitialCap < Workers
    BY <1>2 DEF NoTokenLeft
  <2>2. ASSUME NEW u \in User, NEW p \in CrawlPC, pc' = [pc EXCEPT ![u] = p], TokenMoves(u, p)
        PROVE  tokens' = 0 /\ TokenHolders' = {}
    <3>1. pc[u] \notin Holding
      BY <2>1
    <3>2. Delivering(u, p)
      BY <2>1, <2>2, <3>1 DEF TokenMoves, Started, Working, GivesBack, Loses
    <3> QED
      BY <2>1, <2>2, <3>2 DEF Delivering, Basic, TypeOK
  <2>3. CASE UNCHANGED <<pc, tokens>>
    BY <2>1, <2>3 DEF Stuck, NoTokenLeft
  <2> QED
    BY <1>1, <2>1, <2>2, <2>3 DEF TokenStep, Stuck, NoTokenLeft
<1>3. CASE Standstill
  <2>1. /\ dpc = "send" /\ ~HasRoom("ReqCh") /\ tokens = 0
        /\ \A u \in TokenHolders : pc[u] = "mark"
    BY <1>3 DEF Standstill
  <2>2. dpc' = "send" /\ chan'["ReqCh"] = chan["ReqCh"]
    <3>1. CASE Resting
      BY <2>1, <3>1 DEF Resting
    <3>2. ASSUME NEW u \in User, CrawlTake(u) \/ CrawlMark(u) PROVE FALSE
      BY <2>1, <3>2 DEF CrawlTake, CrawlMark
    <3>3. ASSUME NEW u \in User, CrawlOutput(u) PROVE dpc' = "send" /\ chan'["ReqCh"] = chan["ReqCh"]
      <4>1. PICK info \in BOOLEAN : Send("OutputCh", <<node[u], info>>)
        BY <3>3 DEF CrawlOutput
      <4>2. <<node[u], info>> \in Content("OutputCh") /\ ChanOK
        BY <3>3, ChanTyped DEF CrawlOutput, Content, Basic, TypeOK, Hands
      <4> QED
        BY <2>1, <3>3, <4>1, <4>2, SendTyped DEF CrawlOutput, crawlFrame
    <3>4. ~DaemonNew /\ ~DaemonSend /\ ~DaemonOutput /\ ~DaemonDrains
      BY <2>1 DEF DaemonNew, DaemonSend, Send, DaemonOutput, DaemonDrains
    <3> QED
      BY <3>1, <3>2, <3>3, <3>4, NodeSteps DEF Moving
  <2>3. tokens' = 0 /\ \A u \in TokenHolders' : pc'[u] = "mark"
    <3>1. ASSUME NEW u \in User, NEW p \in CrawlPC, pc' = [pc EXCEPT ![u] = p], TokenMoves(u, p)
          PROVE  tokens' = 0 /\ \A v \in TokenHolders' : pc'[v] = "mark"
      <4>1. pc'[u] = p /\ \A v \in User \ {u} : pc'[v] = pc[v]
        BY <3>1 DEF Basic, TypeOK
      <4>2. pc[u] \in Holding => pc[u] = "mark" /\ p = "mark"
        BY <2>1, <4>1, MarkWaits
      <4>3. tokens' = 0 /\ (p \in Holding => p = "mark")
        BY <2>1, <3>1, <4>2 DEF TokenMoves, Started, Working, GivesBack, Loses, Delivering
      <4> QED
        BY <2>1, <4>1, <4>3
    <3>2. CASE UNCHANGED <<pc, tokens>>
      BY <2>1, <3>2
    <3> QED
      BY <1>1, <3>1, <3>2 DEF TokenStep
  <2> QED
    BY <2>1, <2>2, <2>3 DEF Stuck, Standstill, HasRoom
<1> QED
  BY <1>2, <1>3 DEF Stuck

\* What arrives leaves everything that could get stuck as it is.
LEMMA ArrivalStuck == DaemonOutput \/ DaemonDrains => Stuck' = Stuck
<1> SUFFICES ASSUME DaemonOutput \/ DaemonDrains PROVE Stuck' = Stuck
  OBVIOUS
<1>1. dpc # "send" /\ dpc' # "send" /\ UNCHANGED <<tokens, pc>>
  BY DEF DaemonOutput, DaemonDrains, daemonFrame, crawlVars
<1> QED
  BY <1>1 DEF Stuck, Standstill, NoTokenLeft, TokenHolders

LEMMA CrawlRefinesStep ==
  ASSUME Basic, Basic', FewBusy, Sums, Sums', Once, Once', [Next]_vars
  PROVE  [Crawl!CrawlNext]_(Crawl!crawl)
<1> DEFINE owed == [n \in Node |-> Traces(n)]
           owedNext == [n \in Node |-> Traces(n)']
<1>1. /\ [n \in Node |-> Due(n) - done[n]] = owed
      /\ [n \in Node |-> Due(n)' - done'[n]] = owedNext
  <2>1. OwedIsUnderway /\ OwedIsUnderway'
    BY OwedTraces, PTL
  <2> QED
    BY <2>1 DEF OwedIsUnderway
<1>2. Stuck => Stuck'
  BY StuckStays
<1> HIDE DEF owed, owedNext
\* Nothing moved: the others or nobody got stuck.
<1>3. ASSUME Cache' = Cache, owedNext = owed, Over' = Over
      PROVE  [Crawl!CrawlNext]_(Crawl!crawl)
  <2>1. CASE Stuck' = Stuck
    BY <1>1, <1>3, <2>1 DEF Crawl!crawl, Over
  <2>2. CASE Stuck' # Stuck
    <3>1. ~Stuck /\ Stuck'
      BY <1>2, <2>2 DEF Stuck, Standstill, NoTokenLeft
    <3>2. Crawl!Stick
      BY <1>1, <1>3, <3>1 DEF Crawl!Stick, Over
    <3> QED
      BY <3>2 DEF Crawl!CrawlNext
  <2> QED
    BY <2>1, <2>2
<1>4. CASE Resting
  <2>1. Cache' = Cache /\ owedNext = owed
    BY <1>4, RestKeeps DEF Resting, owed, owedNext
  <2>2. CASE Over' = Over
    BY <1>3, <2>1, <2>2
  <2>3. CASE Over' # Over
    <3>1. ~Over /\ Over'
      BY <2>3, OverStep DEF Over
    <3>2. Stuck' = Stuck
      <4>1. UNCHANGED <<dpc, chan, tokens, pc>>
        BY <2>3, OverStep DEF Over
      <4> QED
        BY <4>1 DEF Stuck, Standstill, NoTokenLeft, HasRoom, TokenHolders
    <3>3. Crawl!End
      BY <1>1, <2>1, <3>1, <3>2 DEF Crawl!End, Over
    <3> QED
      BY <3>3 DEF Crawl!CrawlNext
  <2> QED
    BY <2>2, <2>3
<1>5. CASE Moving
  <2>1. Over' = Over
    BY <1>5, OverStep DEF Over
  <2>2. CASE DaemonSend \/ \E u \in User : CrawlTake(u) \/ CrawlMark(u) \/ CrawlOutput(u)
    <3>1. Cache' = Cache
      BY <2>2, PassKnown
    <3>2. owedNext = owed
      BY <2>2, PassKeeps DEF owed, owedNext
    <3> QED
      BY <1>3, <2>1, <3>1, <3>2
  <2>3. CASE DaemonNew
    <3>1. /\ \A n \in Node : Traces(n)' = Traces(n) + One(dnode = n)
          /\ Cache' = Cache \cup {dnode} /\ dnode \notin Cache /\ dnode \in Node
      <4>1. dnode \in Node
        BY <2>3 DEF DaemonNew, Basic, TypeOK, Hands
      <4> QED
        BY <2>3, <4>1, NewTraces
    <3>2. Traces(dnode) = 0
      <4>1. Traces(dnode) \in Nat /\ done[dnode] \in Nat
        BY <3>1 DEF Sums, Sum, Basic, TypeOK
      <4>2. Traces(dnode) + done[dnode] = 0
        BY <3>1 DEF Once, EveryNodeOnce, Due
      <4> QED
        BY <4>1, <4>2
    <3>3. ASSUME NEW n \in Node PROVE Traces(n)' = IF n = dnode THEN 1 ELSE Traces(n)
      <4>1. Traces(n) \in Nat /\ Traces(n)' = Traces(n) + One(dnode = n)
        BY <3>1 DEF Sums, Sum
      <4>2. CASE n = dnode
        BY <3>2, <4>1, <4>2 DEF One
      <4>3. CASE n # dnode
        BY <4>1, <4>3 DEF One
      <4> QED
        BY <4>2, <4>3
    <3>4. owedNext = [owed EXCEPT ![dnode] = 1]
      BY <3>1, <3>3 DEF owed, owedNext
    <3>5. Stuck' \in {Stuck, TRUE}
      BY <1>2 DEF Stuck, Standstill, NoTokenLeft
    <3>6. PICK k \in Node : k = dnode
      BY <3>1
    <3>7. Crawl!Discover(k)
      BY <1>1, <2>1, <3>1, <3>4, <3>5, <3>6 DEF Crawl!Discover, Over
    <3> QED
      BY <3>7 DEF Crawl!CrawlNext
  <2>4. CASE DaemonOutput \/ DaemonDrains
    <3> DEFINE m == Head(chan["OutputCh"])[1]
    <3>1. /\ \A n \in Node : Traces(n) = Traces(n)' + One(m = n)
          /\ UNCHANGED Cache
      BY <2>4, ArrivalTraces DEF DaemonOutput, DaemonDrains
    <3>2. m \in Node
      <4>1. ChanOK /\ "OutputCh" \in Channel /\ Receive("OutputCh")
        BY <2>4, ChanTyped DEF Basic, DaemonOutput, DaemonDrains, Took
      <4>2. Head(chan["OutputCh"]) \in Node \X BOOLEAN
        BY <4>1, ReceiveTyped DEF Content
      <4> QED
        BY <4>2
    <3> HIDE DEF m
    <3>3. ASSUME NEW n \in Node
          PROVE  /\ Traces(n)' = IF n = m THEN Traces(n) - 1 ELSE Traces(n)
                 /\ n = m => Traces(n) > 0
      <4>1. /\ Traces(n) \in Nat /\ Traces(n)' \in Nat
            /\ Traces(n) = Traces(n)' + One(m = n)
        BY <3>1 DEF Sums, Sum
      <4>2. CASE n = m
        BY <4>1, <4>2 DEF One
      <4>3. CASE n # m
        BY <4>1, <4>3 DEF One
      <4> QED
        BY <4>2, <4>3
    <3>4. Traces(m) > 0
      BY <3>2, <3>3
    <3>5. owedNext = [owed EXCEPT ![m] = @ - 1] /\ owed[m] > 0
      BY <3>2, <3>3, <3>4 DEF owed, owedNext
    <3>6. Stuck' = Stuck
      BY <2>4, ArrivalStuck
    <3>7. PICK k \in Node : k = m
      BY <3>2
    <3>8. Crawl!Deliver(k)
      BY <1>1, <2>1, <3>1, <3>5, <3>6, <3>7 DEF Crawl!Deliver, Over
    <3> QED
      BY <3>8 DEF Crawl!CrawlNext
  <2> QED
    BY <1>5, <2>2, <2>3, <2>4 DEF Moving
<1> QED
  BY <1>4, <1>5, NodeSteps

\* Each step of the crawler discovers a node, delivers the result of one, ends the
\* crawl, gets it stuck for good or does none of these: the safety half of
\* CrawlImplemented.
THEOREM CrawlRefines == Spec => Crawl!CrawlSafeSpec
<1>1. Basic /\ Counted => FewBusy /\ Sums
  BY TracesSum DEF Counted
<1>2. Init /\ Sums => Crawl!CrawlInit
  BY CrawlRefinesInit
<1>3. Basic /\ Basic' /\ FewBusy /\ Sums /\ Sums' /\ Once /\ Once' /\ [Next]_vars
        => [Crawl!CrawlNext]_(Crawl!crawl)
  BY CrawlRefinesStep
<1> QED
  BY <1>1, <1>2, <1>3, OnceAlways, BasicAlways, CountedAlways, PTL DEF Spec, Crawl!CrawlSafeSpec
===============================================================================
