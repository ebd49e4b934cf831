--------------------------------- MODULE Zeus ---------------------------------
(***************************************************************************)
(* One crawl of a node's table, crawler/zeus.go: crawlZeus asks the node   *)
(* for its nodes near chosen identifiers, and splits the interval between  *)
(* the two ends it knows until nothing is left to split or 30 seconds are  *)
(* over. An identifier is a sequence of Bits bits from index 0, in bytes   *)
(* of ByteBits bits; the code has 256 and 8.                               *)
(***************************************************************************)
EXTENDS Integers, Sequences, FiniteSets

CONSTANTS Bits, ByteBits,
          Dest,         \* the identifier of the node that is crawled
          Table,        \* the identifiers of the nodes it knows
          MaxRequests   \* requests that fit in RoundInterval, each after respTimeout

Index == 0..Bits - 1
ID == [Index -> {0, 1}]
ALL_ZERO == [i \in Index |-> 0]
ALL_ONES == [i \in Index |-> 1]

ASSUME ZeusAssumption ==
  /\ ByteBits \in Nat \ {0} /\ Bits \in Nat /\ Bits >= 4 /\ Bits % ByteBits = 0
  /\ Dest \in ID /\ Table \subseteq ID \ {Dest} /\ IsFiniteSet(Table)
  /\ MaxRequests \in Nat /\ MaxRequests >= 2

\* The leading bits a and b share, and compareId(a, b) < 0.
getCommonPrefix(a, b) == Cardinality({l \in 1..Bits : \A i \in 0..l - 1 : a[i] = b[i]})
Before(a, b) == a # b /\ a[getCommonPrefix(a, b)] = 0

\* enode.LogDist, and enode.DistCmp(t, a, b) < 0: where a and b part, a goes with t.
LogDist(a, b) == Bits - getCommonPrefix(a, b)
Closer(t, a, b) == a # b /\ LET i == getCommonPrefix(a, b) IN a[i] = t[i]

\* The first bit behind the byte that holds bit `length`.
ByteEnd(length) == (length \div ByteBits + 1) * ByteBits

\* That byte is changed in a copy that is not written back: only the bytes behind
\* it are set.
SetTail(a, length, bit) ==
  IF length = Bits - 1 THEN a ELSE [i \in Index |-> IF i < ByteEnd(length) THEN a[i] ELSE bit]
mergeWith01(a, length) == SetTail(a, length, 1)
mergeWith10(a, length) == SetTail(a, length, 0)

getClosetKey(m, target) == CHOOSE x \in m : \A y \in m : ~Closer(target, y, x)

\* One round of the loop in lookupDistances, and the loop: it ends as soon as
\* there are three distances, which takes one round or two.
Round(dists, td, i) ==
  dists \o (IF td + i < Bits THEN <<td + i>> ELSE <<>>)
        \o (IF td - i > 0 THEN <<td - i>> ELSE <<>>)
LookupAround(td) ==
  LET once == Round(<<td>>, td, 1)
  IN  IF Len(once) < 3 THEN Round(once, td, 2) ELSE once
lookupDistances(target, dest) == LookupAround(LogDist(target, dest))

-------------------------------------------------------------------------------
VARIABLES
  pc,        \* the request that is made next, the head of the loop, or the end
  q,         \* the queue of pairs <<from, end>>
  l,         \* the nodes found
  first,     \* k_first
  pair,      \* the pair that is split
  sent,      \* the requests sent, which take the time
  result,    \* what crawlZeus returns; {} stands for nil
  answers    \* history: every node an answer held

vars == <<pc, q, l, first, pair, sent, result, answers>>

NoID == <<>>

TypeOK ==
  /\ pc \in {"zeros", "ones", "loop", "left", "right", "done"}
  /\ q \in Seq(ID \X ID)
  /\ l \subseteq Table /\ result \subseteq Table /\ answers \subseteq Table
  /\ first \in ID \cup {NoID}
  /\ pair \in (ID \cup {NoID}) \X (ID \cup {NoID})
  /\ sent \in 0..MaxRequests + 2

Init ==
  /\ pc = "zeros" /\ q = <<>> /\ l = {} /\ first = NoID /\ pair = <<NoID, NoID>>
  /\ sent = 0 /\ result = {} /\ answers = {}

\* What the node may answer: some of its nodes at the distances asked for.
Answer(target) ==
  SUBSET {n \in Table : \E i \in 1..3 : LogDist(n, Dest) = lookupDistances(target, Dest)[i]}

\* Variant: the last answer takes the place of what was found before.
ReplaceFound(m) == l' = m

Merge(m) == l' = l \cup m

\* Requests are counted up to SentCap, which RequestsBounded never lets them reach.
SentCap == MaxRequests + 2
CountSent == sent' = IF sent < SentCap THEN sent + 1 ELSE sent

Take(m) == Merge(m) /\ answers' = answers \cup m /\ CountSent

Finish(nodes) == pc' = "done" /\ result' = nodes

\* A request that fails ends the crawl, and what was found is dropped.
RequestFails ==
  /\ pc \in {"zeros", "ones", "left", "right"}
  /\ CountSent
  /\ Finish({})
  /\ UNCHANGED <<q, l, first, pair, answers>>

\* Variant: the pair is pushed without comparing its ends.
PushAnyway(a, b, rest) == Append(rest, <<a, b>>)

Pushed(a, b, rest) == IF a # b THEN Append(rest, <<a, b>>) ELSE rest

RequestZeros ==
  /\ pc = "zeros"
  /\ \E m \in Answer(ALL_ZERO) :
       /\ Take(m)
       /\ first' = IF m = {} THEN NoID ELSE getClosetKey(m, ALL_ZERO)
  /\ pc' = "ones"
  /\ UNCHANGED <<q, pair, result>>

\* Variant: only the second answer is looked at.
FailedLate(m) == m = {}

\* Without a closest node to either end there is no interval to split.
Failed(m) == m = {} \/ first = NoID

RequestOnes ==
  /\ pc = "ones"
  /\ \E m \in Answer(ALL_ONES) :
       /\ Take(m)
       /\ IF Failed(m) THEN Finish({}) /\ UNCHANGED q
          ELSE /\ q' = Pushed(first, getClosetKey(m, ALL_ONES), q)
               /\ pc' = "loop" /\ UNCHANGED result
  /\ UNCHANGED <<first, pair>>

\* Variant: the time is not looked at.
AlwaysTime == TRUE

InTime == sent < MaxRequests

\* The targets of the pair that is split, and whether they are asked for.
leftTarget(p) == mergeWith01(p[1], getCommonPrefix(p[1], p[2]))
rightTarget(p) == mergeWith10(p[2], getCommonPrefix(p[1], p[2]))
AfterLeft(p) == IF Before(rightTarget(p), p[2]) THEN "right" ELSE "loop"

Pop ==
  /\ pc = "loop" /\ q # <<>> /\ InTime
  /\ pair' = Head(q)
  /\ q' = Tail(q)
  /\ pc' = IF Before(Head(q)[1], leftTarget(Head(q))) THEN "left" ELSE AfterLeft(Head(q))
  /\ UNCHANGED <<l, first, sent, result, answers>>

LoopEnds ==
  /\ pc = "loop" /\ ~(q # <<>> /\ InTime)
  /\ Finish(l)
  /\ UNCHANGED <<q, l, first, pair, sent, answers>>

\* An empty answer for the left half skips the right half too.
RequestLeft ==
  /\ pc = "left"
  /\ \E m \in Answer(leftTarget(pair)) :
       /\ Take(m)
       /\ IF m = {} THEN pc' = "loop" /\ UNCHANGED q
          ELSE /\ q' = Pushed(pair[1], getClosetKey(m, leftTarget(pair)), q)
               /\ pc' = AfterLeft(pair)
  /\ UNCHANGED <<first, pair, result>>

RequestRight ==
  /\ pc = "right"
  /\ \E m \in Answer(rightTarget(pair)) :
       /\ Take(m)
       /\ q' = IF m = {} THEN q ELSE Pushed(getClosetKey(m, rightTarget(pair)), pair[2], q)
  /\ pc' = "loop"
  /\ UNCHANGED <<first, pair, result>>

Next ==
  \/ RequestFails \/ RequestZeros \/ RequestOnes \/ Pop \/ LoopEnds
  \/ RequestLeft \/ RequestRight
  \/ pc = "done" /\ UNCHANGED vars

\* findnode answers or times out, and the goroutine goes on.
FairSpec == Init /\ [][Next]_vars /\ WF_vars(Next)

-------------------------------------------------------------------------------
(* Properties. *)

\* The ends of a pair differ: for equal ends getCommonPrefix is Bits, and
\* mergeWith01 would index a byte behind the identifier (zeus.go:143).
EndsDiffer ==
  /\ \A i \in 1..Len(q) : q[i][1] # q[i][2]
  /\ pc \in {"left", "right"} => pair[1] # pair[2]

\* The time is looked at only before a pair is split, so the two requests of
\* one split may still follow its end, and no more.
RequestsBounded == sent <= MaxRequests + 1

\* crawlZeus returns everything it was told, or nothing.
AllOrNothing == pc = "done" => result \in {{}, answers}

\* Every crawl ends, although nothing makes the pairs of the queue smaller.
CrawlEnds == <>(pc = "done")

\* "length bits start with 0 and other bits are 1" (zeus.go:133): the target of
\* the left half keeps the common prefix, then has a 0 and ones to the end.
LeftTargetSplits ==
  pc = "left" =>
    LET p == getCommonPrefix(pair[1], pair[2])
        t == leftTarget(pair)
    IN  /\ getCommonPrefix(t, pair[1]) >= p
        /\ t[p] = 0 /\ \A i \in p + 1..Bits - 1 : t[i] = 1
===============================================================================
