---------------------------- MODULE CrawlBFSProofs -----------------------------
(***************************************************************************)
(* The safety properties of CrawlBFS, for any nodes, records and           *)
(* capacities.                                                             *)
(***************************************************************************)
EXTENDS CrawlBFS, SequenceTheorems, TLAPS

USE CrawlBFSAssumption

-------------------------------------------------------------------------------
(* Types. *)

\* Every variable keeps its type in every action.
LEMMA TypeInit == Init => TypeOK
<1>1. /\ <<>> \in Seq(SUBSET Found) /\ <<>> \in Seq(Record \cup {Nil})
      /\ Len(<<>>) = 0 /\ 0 <= ChanCap
  BY EmptySeq
<1> QED
  BY <1>1 DEF Init, TypeOK, MainPC, LoopPC

\* The four steps of the deferred function, one by one.
LEMMA ReturnSteps ==
  ASSUME Return, ctxDone \in BOOLEAN
  PROVE  /\ mpc \in {"token", "conn", "cancel", "close"}
         /\ mpc' \in {"conn", "cancel", "close", "done"}
         /\ mpc' \in {"close", "done"} => ctxDone' \/ mpc = "close"
         /\ (ctxDone => ctxDone') /\ ctxDone' \in BOOLEAN
         /\ mpc = "close" \/ UNCHANGED shut
         /\ shut' \subseteq shut \cup {"enrChan"}
         /\ open' \in {open, FALSE}
         /\ UNCHANGED <<dead, nodesChan, enrChan, res, lpc, item, seen, epc, seq>>
<1>1. /\ mpc \in {"token", "conn", "cancel", "close"}
      /\ mpc' = Deferred[mpc]
  BY DEF Return, Deferred
<1>2. ctxDone' = (ctxDone \/ mpc = "cancel")
  BY DEF Return
<1>3. ctxDone' \in BOOLEAN /\ (ctxDone => ctxDone') /\ (mpc = "cancel" => ctxDone')
  BY <1>2
<1>4. /\ mpc' \in {"conn", "cancel", "close", "done"}
      /\ mpc' \in {"close", "done"} => mpc \in {"cancel", "close"}
  BY <1>1 DEF Deferred
<1>5. /\ mpc = "close" \/ UNCHANGED shut
      /\ shut' \subseteq shut \cup {"enrChan"}
      /\ open' \in {open, FALSE}
      /\ UNCHANGED <<dead, nodesChan, enrChan, res, lpc, item, seen, epc, seq>>
  BY DEF Return, CloseConn, loopVars, enrVars
<1> QED
  BY <1>1, <1>3, <1>4, <1>5

LEMMA TypeMain == ASSUME TypeOK, MainStep PROVE TypeOK'
<1> USE DEF TypeOK, MainPC, LoopPC, mainVars, loopVars, enrVars, shared
<1>1. CASE Ping
  BY <1>1 DEF Ping
<1>2. CASE GetENR
  BY <1>2 DEF GetENR
<1>3. CASE FindNodes
  BY <1>3 DEF FindNodes
<1>4. CASE RoundEnds
  BY <1>4 DEF RoundEnds
<1>5. CASE TakeNodes
  <2>1. nodesChan # <<>> /\ nodesChan \in Seq(SUBSET Found)
    BY <1>5 DEF TakeNodes
  <2>2. /\ Head(nodesChan) \in SUBSET Found
        /\ Tail(nodesChan) \in Seq(SUBSET Found) /\ Len(Tail(nodesChan)) = Len(nodesChan) - 1
    BY <2>1, HeadTailProperties
  <2> QED
    BY <1>5, <2>2 DEF TakeNodes, Merge
<1>6. CASE WaitTimeout
  BY <1>6 DEF WaitTimeout
<1>7. CASE Return
  BY <1>7, ReturnSteps
<1> QED
  BY <1>1, <1>2, <1>3, <1>4, <1>5, <1>6, <1>7 DEF MainStep

LEMMA TypeLoop == ASSUME TypeOK, LoopStep PROVE TypeOK'
<1> USE DEF TypeOK, MainPC, LoopPC, mainVars, loopVars, enrVars, shared
<1>1. CASE LoopChecks
  BY <1>1 DEF LoopChecks
<1>2. CASE ReadFails
  BY <1>2 DEF ReadFails
<1>3. CASE ReadOther
  BY <1>3 DEF ReadOther
<1>4. CASE ReadENR
  BY <1>4 DEF ReadENR
<1>5. CASE ReadNeighbors
  BY <1>5 DEF ReadNeighbors
<1>6. CASE SendENR
  BY <1>6, AppendProperties DEF SendENR, Room
<1>7. CASE SendNodes
  BY <1>7, AppendProperties DEF SendNodes, Room
<1>8. CASE SendClosed
  BY <1>8 DEF SendClosed
<1> QED
  BY <1>1, <1>2, <1>3, <1>4, <1>5, <1>6, <1>7, <1>8 DEF LoopStep, LoopSends

LEMMA TypeEnr == ASSUME TypeOK, EnrStep PROVE TypeOK'
<1> USE DEF TypeOK, MainPC, LoopPC, mainVars, loopVars, enrVars, shared
<1>1. CASE TakeRecord
  <2>1. enrChan # <<>> /\ enrChan \in Seq(Record \cup {Nil})
    BY <1>1 DEF TakeRecord
  <2>2. /\ Head(enrChan) \in Record \cup {Nil}
        /\ Tail(enrChan) \in Seq(Record \cup {Nil}) /\ Len(Tail(enrChan)) = Len(enrChan) - 1
    BY <2>1, HeadTailProperties
  <2>3. seq' \in 0..MaxSeq
    BY <1>1, <2>2 DEF TakeRecord, Newer, Record
  <2> QED
    BY <1>1, <2>2, <2>3 DEF TakeRecord
<1>2. CASE RecordWaitEnds
  BY <1>2 DEF RecordWaitEnds
<1> QED
  BY <1>1, <1>2 DEF EnrStep

LEMMA TypeStep == TypeOK /\ [Next]_vars => TypeOK'
<1> SUFFICES ASSUME TypeOK, [Next]_vars PROVE TypeOK'
  OBVIOUS
<1>1. CASE Deadline
  BY <1>1 DEF Deadline, TypeOK, mainVars, loopVars, enrVars
<1>2. CASE UNCHANGED vars
  BY <1>2 DEF TypeOK, vars, mainVars, loopVars, enrVars, shared
<1> QED
  BY <1>1, <1>2, TypeMain, TypeLoop, TypeEnr DEF Next

\* The channels never hold more than their capacity, results and packets are what
\* the code takes them for.
THEOREM TypeCorrect == Spec => []TypeOK
BY TypeInit, TypeStep, PTL DEF Spec

-------------------------------------------------------------------------------
(* The end. *)

\* A channel is closed only when the context is done: by the crawl that saw it done,
\* or by the deferred function, which cancels it before.
AtEnd ==
  /\ shut # {} => ctxDone
  /\ mpc \in {"close", "done"} => ctxDone
  /\ dead => ctxDone

LEMMA AtEndStep == TypeOK /\ AtEnd /\ [Next]_vars => AtEnd'
<1> SUFFICES ASSUME TypeOK, AtEnd, [Next]_vars PROVE AtEnd'
  OBVIOUS
<1> USE DEF AtEnd, mainVars, loopVars, enrVars, shared
<1>1. CASE Deadline
  BY <1>1 DEF Deadline
<1>2. CASE MainStep
  <2>1. CASE RoundEnds
    BY <2>1 DEF RoundEnds
  <2>2. CASE Return
    BY <2>2, ReturnSteps DEF TypeOK
  <2> QED
    BY <1>2, <2>1, <2>2 DEF MainStep, Ping, GetENR, FindNodes, TakeNodes, WaitTimeout
<1>3. CASE LoopStep
  <2>1. CASE SendClosed
    BY <2>1 DEF SendClosed
  <2> QED
    BY <1>3, <2>1 DEF LoopStep, LoopSends, LoopChecks, ReadFails, ReadOther, ReadENR,
                      ReadNeighbors, SendENR, SendNodes
<1>4. CASE EnrStep
  BY <1>4 DEF EnrStep, TakeRecord, RecordWaitEnds
<1>5. CASE UNCHANGED vars
  BY <1>5 DEF vars
<1> QED
  BY <1>1, <1>2, <1>3, <1>4, <1>5 DEF Next

\* A send to a closed channel cannot happen before the context is done, for any
\* capacity of the channels and whatever the node sends (crawler.go:411-417, 462).
THEOREM DeadAtEnd == Spec => []DeadOnlyAtEnd
<1>1. Init => AtEnd
  BY DEF Init, AtEnd
<1>2. AtEnd => DeadOnlyAtEnd
  BY DEF AtEnd, DeadOnlyAtEnd
<1> QED
  BY <1>1, <1>2, AtEndStep, TypeCorrect, PTL DEF Spec

-------------------------------------------------------------------------------
(* Answers. *)

\* The nodes named in a sequence of answers.
Named(s) == UNION {s[i] : i \in 1..Len(s)}

LEMMA NamedTail ==
  ASSUME NEW s \in Seq(SUBSET Found), s # <<>>
  PROVE  Named(s) = Head(s) \cup Named(Tail(s))
<1>1. /\ Len(s) \in Nat /\ Len(s) > 0 /\ Len(Tail(s)) = Len(s) - 1 /\ Head(s) = s[1]
      /\ \A i \in 1..Len(s) - 1 : Tail(s)[i] = s[i + 1]
  BY HeadTailProperties
<1>2. ASSUME NEW x \in Named(s) PROVE x \in Head(s) \cup Named(Tail(s))
  <2>1. PICK i \in 1..Len(s) : x \in s[i]
    BY <1>2 DEF Named
  <2>2. CASE i = 1
    BY <1>1, <2>1, <2>2
  <2>3. CASE i # 1
    <3>1. i - 1 \in 1..Len(Tail(s)) /\ Tail(s)[i - 1] = s[i]
      BY <1>1, <2>1, <2>3
    <3> QED
      BY <2>1, <3>1 DEF Named
  <2> QED
    BY <2>2, <2>3
<1>3. Head(s) \subseteq Named(s)
  BY <1>1 DEF Named
<1>4. ASSUME NEW x \in Named(Tail(s)) PROVE x \in Named(s)
  <2>1. PICK i \in 1..Len(Tail(s)) : x \in Tail(s)[i]
    BY <1>4 DEF Named
  <2>2. i + 1 \in 1..Len(s) /\ s[i + 1] = Tail(s)[i]
    BY <1>1, <2>1
  <2> QED
    BY <2>1, <2>2 DEF Named
<1> QED
  BY <1>2, <1>3, <1>4

LEMMA NamedAppend ==
  ASSUME NEW s \in Seq(SUBSET Found), NEW a \in SUBSET Found
  PROVE  Named(Append(s, a)) = Named(s) \cup a
<1>1. /\ Len(s) \in Nat /\ Len(Append(s, a)) = Len(s) + 1
      /\ \A i \in 1..Len(s) : Append(s, a)[i] = s[i]
      /\ Append(s, a)[Len(s) + 1] = a
  BY AppendProperties
<1>2. ASSUME NEW x \in Named(Append(s, a)) PROVE x \in Named(s) \cup a
  <2>1. PICK i \in 1..Len(s) + 1 : x \in Append(s, a)[i]
    BY <1>1, <1>2 DEF Named
  <2> QED
    BY <1>1, <2>1 DEF Named
<1>3. ASSUME NEW x \in Named(s) PROVE x \in Named(Append(s, a))
  <2>1. PICK i \in 1..Len(s) : x \in s[i]
    BY <1>3 DEF Named
  <2>2. i \in 1..Len(Append(s, a)) /\ Append(s, a)[i] = s[i]
    BY <1>1, <2>1
  <2> QED
    BY <2>1, <2>2 DEF Named
<1>4. a \subseteq Named(Append(s, a))
  <2>1. Len(s) + 1 \in 1..Len(Append(s, a))
    BY <1>1
  <2> QED
    BY <1>1, <2>1 DEF Named
<1> QED
  BY <1>2, <1>3, <1>4

\* NoAnswerLost, with the answer that loop has in hand by name.
InHand == IF lpc = "sendNodes" THEN item ELSE {}
AllThere == ~ctxDone => seen = res \cup Named(nodesChan) \cup InHand

LEMMA AnswersStep == TypeOK /\ AllThere /\ [Next]_vars => AllThere'
<1> SUFFICES ASSUME TypeOK, AllThere, [Next]_vars, ~ctxDone' PROVE AllThere'
  BY DEF AllThere
<1> USE DEF mainVars, loopVars, enrVars, shared
<1>1. CASE Deadline
  BY <1>1 DEF Deadline
<1>2. CASE TakeNodes
  <2>1. /\ nodesChan' = Tail(nodesChan) /\ res' = res \cup Head(nodesChan)
        /\ UNCHANGED <<seen, item, lpc, ctxDone>>
    BY <1>2 DEF TakeNodes, Merge
  <2>2. Named(nodesChan) = Head(nodesChan) \cup Named(nodesChan')
    BY <1>2, <2>1, NamedTail DEF TakeNodes, TypeOK
  <2>3. InHand' = InHand
    BY <2>1 DEF InHand
  <2> QED
    BY <2>1, <2>2, <2>3 DEF AllThere
<1>3. CASE SendNodes
  <2>1. /\ nodesChan' = Append(nodesChan, item) /\ lpc = "sendNodes" /\ lpc' = "check"
        /\ UNCHANGED <<seen, res, ctxDone>>
    BY <1>3 DEF SendNodes
  <2>2. Named(nodesChan') = Named(nodesChan) \cup item
    BY <2>1, NamedAppend DEF TypeOK
  <2>3. InHand = item /\ InHand' = {}
    BY <2>1 DEF InHand
  <2> QED
    BY <2>1, <2>2, <2>3 DEF AllThere
<1>4. CASE ReadNeighbors
  <2>1. /\ lpc = "read" /\ lpc' = "sendNodes" /\ seen' = seen \cup item'
        /\ UNCHANGED <<nodesChan, res, ctxDone>>
    BY <1>4 DEF ReadNeighbors
  <2>2. InHand = {} /\ InHand' = item'
    BY <2>1 DEF InHand
  <2>3. Named(nodesChan') = Named(nodesChan)
    BY <2>1
  <2> QED
    BY <2>1, <2>2, <2>3 DEF AllThere
<1>5. CASE Return
  <2>1. UNCHANGED <<nodesChan, res, seen, item, lpc>> /\ ~ctxDone
    BY <1>5, ReturnSteps DEF TypeOK
  <2> QED
    BY <2>1 DEF AllThere, InHand
<1>6. CASE (MainStep /\ ~TakeNodes /\ ~Return) \/ EnrStep \/ UNCHANGED vars
  <2>1. UNCHANGED <<nodesChan, res, seen, item, lpc>> /\ ~ctxDone
    BY <1>6 DEF MainStep, Ping, GetENR, FindNodes, RoundEnds, WaitTimeout, EnrStep,
                TakeRecord, RecordWaitEnds, vars
  <2> QED
    BY <2>1 DEF AllThere, InHand
<1>7. CASE LoopStep /\ ~SendNodes /\ ~ReadNeighbors
  <2>1. /\ UNCHANGED <<nodesChan, res, seen>> /\ ~ctxDone
        /\ \/ lpc # "sendNodes" /\ lpc' # "sendNodes"
           \/ UNCHANGED <<lpc, item>>
    BY <1>7 DEF LoopStep, LoopSends, LoopChecks, ReadFails, ReadOther, ReadENR, SendENR, SendClosed
  <2> QED
    BY <2>1 DEF AllThere, InHand
<1> QED
  BY <1>1, <1>2, <1>3, <1>4, <1>5, <1>6, <1>7 DEF Next, LoopStep, LoopSends, MainStep

\* No answer read before the context is done is lost between loop and crawlBFS
\* (crawler.go:485-492, 554), for any capacity of nodesChan.
THEOREM AnswersKept == Spec => []NoAnswerLost
<1>1. Init => AllThere
  BY DEF Init, AllThere, InHand, Named
<1>2. AllThere => NoAnswerLost
  BY DEF AllThere, NoAnswerLost, InHand, Named
<1> QED
  BY <1>1, <1>2, AnswersStep, TypeCorrect, PTL DEF Spec
===============================================================================
