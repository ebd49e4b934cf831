---------------------------- MODULE HandshakeProofs -----------------------------
(***************************************************************************)
(* The safety properties of Handshake, for any number of goroutines and    *)
(* calls and any versions and total difficulties of the peers.             *)
(***************************************************************************)
EXTENDS Handshake, FiniteSetTheorems, WellFoundedInduction, TLAPS

-------------------------------------------------------------------------------
(* The version that is negotiated. *)

LEMMA GreatestNumber ==
  ASSUME NEW S \in SUBSET Nat, S # {}, NEW k \in Nat, \A v \in S : v <= k
  PROVE  \E v \in S : \A w \in S : w <= v
<1> DEFINE Above(v) == {w \in S : w > v}
           Family   == {Above(v) : v \in S}
<1>1. \A v \in S : Above(v) \in SUBSET S /\ IsFiniteSet(Above(v))
  BY FS_BoundedSetOfNaturals
<1>2. Family \subseteq FiniteSubsetsOf(S) /\ Family # {}
  <2>1. \A T \in Family : T \in FiniteSubsetsOf(S)
    <3> SUFFICES ASSUME NEW v \in S PROVE Above(v) \in FiniteSubsetsOf(S)
      OBVIOUS
    <3> HIDE DEF Above
    <3> QED
      BY <1>1 DEF FiniteSubsetsOf
  <2>2. PICK v \in S : TRUE
    OBVIOUS
  <2>3. Above(v) \in Family
    OBVIOUS
  <2> HIDE DEF Family
  <2> QED
    BY <2>1, <2>3
<1>3. PICK T \in Family : \A U \in Family : <<U, T>> \notin StrictSubsetOrdering(S)
  <2> HIDE DEF Family
  <2> QED
    BY <1>2, WFMin, FS_StrictSubsetOrderingWellFounded
<1>4. PICK v \in S : T = Above(v)
  OBVIOUS
<1>5. ASSUME NEW w \in S, w > v PROVE FALSE
  <2>1. Above(w) \subseteq T /\ w \in T /\ w \notin Above(w)
    <3>1. \A u \in S : u > w => u > v
      BY <1>5
    <3>2. v \in Nat /\ w \in Nat /\ ~(w > w)
      OBVIOUS
    <3> QED
      BY <1>4, <1>5, <3>1, <3>2
  <2>2. Above(w) \in Family
    OBVIOUS
  <2>3. Above(w) \in SUBSET S /\ T \in SUBSET S
    BY <1>4
  <2>4. <<Above(w), T>> \in StrictSubsetOrdering(S)
    <3> HIDE DEF Above
    <3> QED
      BY <2>1, <2>3 DEF StrictSubsetOrdering
  <2> QED
    BY <1>3, <2>2, <2>4
<1>6. \A w \in S : w <= v
  BY <1>5
<1> QED
  BY <1>6

\* negotiateEthProtocol finds the highest version that is offered and not above our
\* own, and 0 if and only if there is none (connection.go:190).
THEOREM HighestCommon ==
  ASSUME NEW offered \in SUBSET Version
  PROVE  LET v == negotiateEthProtocol(offered)
         IN  IF \A w \in offered : w > OurHighest THEN v = 0
             ELSE /\ v \in offered /\ v \in 1..OurHighest
                  /\ \A w \in offered : w <= OurHighest => w <= v
<1> DEFINE S == {w \in offered : w <= OurHighest}
<1>0. S \in SUBSET Nat /\ OurHighest \in Nat /\ 0 \notin S /\ offered \in SUBSET Nat
  BY HandshakeAssumption
<1>1. CASE \A w \in offered : w > OurHighest
  <2>1. S = {}
    BY <1>0, <1>1
  <2> QED
    BY <1>1, <2>1 DEF negotiateEthProtocol, Best
<1>2. CASE ~\A w \in offered : w > OurHighest
  <2>1. S # {} /\ \A w \in S : w <= OurHighest
    BY <1>0, <1>2
  <2>2. \E v \in S : \A w \in S : w <= v
    <3> HIDE DEF S
    <3> QED
      BY <1>0, <2>1, GreatestNumber
  <2>3. Best(S) \in S /\ \A w \in S : w <= Best(S)
    <3> HIDE DEF S
    <3> QED
      BY <2>1, <2>2, Zenon DEF Best
  <2>4. negotiateEthProtocol(offered) = Best(S)
    BY DEF negotiateEthProtocol
  <2> QED
    BY <1>0, <1>2, <2>3, <2>4
<1> QED
  BY <1>1, <1>2

-------------------------------------------------------------------------------
(* Types, and the status: every one that is made names a negotiated        *)
(* version, and who goes on to write one has seen or made it.              *)

Negotiated == \A g \in Client : pc[g] \in {"get", "make"} => version[g] \in 1..OurHighest
Known == \A g \in Client : pc[g] \in {"write", "read", "compare", "set"} => current # Nobody
Named == current # Nobody => made[current].version \in 1..OurHighest

\* What the skip of a node says of it: every version it offers is above our own.
SkippedOffersNewer == \A g \in Client : pc[g] = "skip" => \A v \in caps[g] : v > OurHighest

\* Whoever is about to make a status has made none before, and one that was ever
\* made is not forgotten.
MakesFirst == \A g \in Client : pc[g] = "make" => made[g] = NoStatus
Kept == \A g \in Client : made[g] # NoStatus => current # Nobody

Inv == TypeOK /\ Negotiated /\ Known /\ Named /\ SkippedOffersNewer /\ MakesFirst /\ Kept

LEMMA InvInit == Init => Inv
BY HandshakeAssumption
   DEF Init, Inv, TypeOK, PC, Negotiated, Known, Named, SkippedOffersNewer, MakesFirst, Kept

LEMMA InvNext == Inv /\ [Next]_vars => Inv'
<1> SUFFICES ASSUME Inv, [Next]_vars PROVE Inv'
  OBVIOUS
<1> USE HandshakeAssumption
<1> USE DEF Inv, TypeOK, Negotiated, Known, Named, SkippedOffersNewer, MakesFirst, Kept, PC
<1>1. ASSUME NEW g \in Client, Dial(g) PROVE Inv'
  BY <1>1 DEF Dial, Goto, connVars
<1>2. ASSUME NEW g \in Client, DialFails(g) PROVE Inv'
  BY <1>2 DEF DialFails, vars, connVars
<1>3. ASSUME NEW g \in Client, Encrypt(g) PROVE Inv'
  BY <1>3 DEF Encrypt, Goto, connVars
<1>4. ASSUME NEW g \in Client, Hello(g) PROVE Inv'
  <2>1. PICK offered \in SUBSET Version :
          /\ caps' = [caps EXCEPT ![g] = offered]
          /\ version' = [version EXCEPT ![g] = negotiateEthProtocol(offered)]
          /\ pc' = [pc EXCEPT ![g] = AfterHello(negotiateEthProtocol(offered))]
    BY <1>4 DEF Hello, Goto
  <2> DEFINE v == negotiateEthProtocol(offered)
  <2>2. \/ v = 0 /\ \A w \in offered : w > OurHighest
        \/ v \in Version /\ v \in 1..OurHighest
    BY HighestCommon
  <2> HIDE DEF v
  <2>3. UNCHANGED <<current, made, td>>
    BY <1>4 DEF Hello
  <2>4. TypeOK'
    BY <2>1, <2>2, <2>3 DEF AfterHello, v
  <2>5. (Negotiated /\ Known /\ Named /\ SkippedOffersNewer /\ MakesFirst /\ Kept)'
    BY <2>1, <2>2, <2>3 DEF AfterHello, v
  <2> QED
    BY <2>4, <2>5
<1>5. ASSUME NEW g \in Client, Skip(g) PROVE Inv'
  BY <1>5 DEF Skip, Return, Goto
<1>6. ASSUME NEW g \in Client, MessageFails(g) PROVE Inv'
  BY <1>6 DEF MessageFails, Return, Goto
<1>7. ASSUME NEW g \in Client, GetStatus(g) PROVE Inv'
  BY <1>7 DEF GetStatus, IsNil, Goto, connVars
<1>8. ASSUME NEW g \in Client, MakeStatus(g) PROVE Inv'
  <2>1. version[g] \in Version /\ version[g] \in 1..OurHighest
    BY <1>8 DEF MakeStatus
  <2>2. made' = [made EXCEPT ![g] = [version |-> version[g], td |-> 0]] /\ current' = g
    BY <1>8 DEF MakeStatus
  <2>3. made' \in [Client -> Statuses \cup {NoStatus}] /\ made'[g].version \in 1..OurHighest
    BY <2>1, <2>2 DEF Statuses
  <2> QED
    BY <1>8, <2>2, <2>3 DEF MakeStatus, Goto, connVars
<1>9. ASSUME NEW g \in Client, WriteStatus(g) PROVE Inv'
  BY <1>9 DEF WriteStatus, Goto, connVars
<1>10. ASSUME NEW g \in Client, ReadStatus(g) PROVE Inv'
  BY <1>10 DEF ReadStatus, Goto
<1>11. ASSUME NEW g \in Client, CompareTD(g) PROVE Inv'
  <2>1. CASE Higher(td[g])
    BY <1>11, <2>1 DEF CompareTD, Goto, connVars
  <2>2. CASE ~Higher(td[g])
    BY <1>11, <2>2 DEF CompareTD, Return, Goto
  <2> QED
    BY <2>1, <2>2
<1>12. ASSUME NEW g \in Client, SetTD(g) PROVE Inv'
  <2>1. /\ current \in Client /\ made[current].version \in 1..OurHighest
        /\ made[current] \in Statuses
    BY <1>12 DEF SetTD, NoStatus
  <2>2. made' = [made EXCEPT ![current] = [made[current] EXCEPT !.td = td[g]]]
    BY <1>12 DEF SetTD
  <2>3. td[g] \in TD \cup {0}
    OBVIOUS
  <2>4. /\ made' \in [Client -> Statuses \cup {NoStatus}]
        /\ made'[current].version = made[current].version
    BY <2>1, <2>2, <2>3 DEF Statuses
  <2>5. made[current] # NoStatus
    BY <2>1 DEF NoStatus
  <2>6. MakesFirst'
    <3>1. \A h \in Client : pc'[h] = "make" => pc[h] = "make" /\ h # current
      BY <1>12, <2>5 DEF SetTD, Return, Goto
    <3>2. \A h \in Client : h # current => made'[h] = made[h]
      BY <2>2
    <3> QED
      BY <3>1, <3>2
  <2>7. current' # Nobody
    BY <1>12, <2>1 DEF SetTD
  <2> QED
    BY <1>12, <2>1, <2>4, <2>6, <2>7 DEF SetTD, Return, Goto
<1>13. CASE UNCHANGED vars
  BY <1>13 DEF vars, connVars
<1> QED
  BY <1>1, <1>2, <1>3, <1>4, <1>5, <1>6, <1>7, <1>8, <1>9, <1>10, <1>11, <1>12, <1>13
     DEF Next, DialStep, ConnStep

LEMMA InvAlways == Spec => []Inv
BY InvInit, InvNext, PTL DEF Spec

\* Every state has the types TypeOK gives: the versions in the shared status and of
\* the connections are versions that peers offered.
THEOREM TypeCorrect == Spec => []TypeOK
<1>1. Inv => TypeOK
  BY DEF Inv
<1> QED
  BY <1>1, InvAlways, PTL

\* The shared status exists whenever it is sent, compared or set, and names a
\* version that was negotiated, however many goroutines race to make it
\* (handshake.go:159).
THEOREM UsableStatus == Spec => []StatusUsable
<1>1. Inv => StatusUsable
  BY DEF Inv, Known, Named, StatusUsable
<1> QED
  BY <1>1, InvAlways, PTL

\* A node that is skipped has offered no version that we speak; it may have offered
\* some, although "if node provides no eth version, we can skip it" (handshake.go:58).
THEOREM SkipsNewerOnly == Spec => []SkippedOffersNewer
<1>1. Inv => SkippedOffersNewer
  BY DEF Inv, SkippedOffersNewer
<1> QED
  BY <1>1, InvAlways, PTL

\* A goroutine makes at most one status however often it calls getClientInfo, so the
\* status is replaced less often than there are goroutines in getClientInfo at a time
\* (handshake.go:159): a goroutine that is about to make one has made none before.
THEOREM MadeOnce == Spec => []MakesFirst
<1>1. Inv => MakesFirst
  BY DEF Inv
<1> QED
  BY <1>1, InvAlways, PTL

\* Once there is a status it is never taken away and no goroutine joins those that
\* are about to make one, the safety step to StatusSettles: what is left is that each
\* of them goes on.
NoneJoins == current # Nobody => current' # Nobody /\ Makers' \subseteq Makers
THEOREM SettledStatus == Spec => [][NoneJoins]_vars
<1>1. Inv /\ [Next]_vars => [NoneJoins]_vars
  <2> SUFFICES ASSUME Inv, [Next]_vars, current # Nobody
               PROVE  current' # Nobody /\ Makers' \subseteq Makers
    BY DEF NoneJoins
  <2> USE DEF Inv, TypeOK
  <2>1. ASSUME NEW g \in Client, DialStep(g) PROVE current' # Nobody /\ Makers' \subseteq Makers
    BY <2>1 DEF DialStep, Dial, DialFails, Goto, Makers, vars
  <2>2. ASSUME NEW g \in Client, ConnStep(g) PROVE current' # Nobody /\ Makers' \subseteq Makers
    <3>1. CASE Encrypt(g) \/ Skip(g) \/ MessageFails(g) \/ GetStatus(g)
      BY <3>1 DEF Encrypt, Skip, MessageFails, GetStatus, IsNil, Return, Goto, Makers
    <3>2. CASE MakeStatus(g)
      BY <3>2, HandshakeAssumption DEF MakeStatus, Goto, Makers
    <3>3. CASE Hello(g)
      BY <3>3 DEF Hello, AfterHello, Goto, Makers
    <3>4. CASE WriteStatus(g) \/ ReadStatus(g) \/ CompareTD(g) \/ SetTD(g)
      BY <3>4 DEF WriteStatus, ReadStatus, CompareTD, SetTD, Return, Goto, Makers
    <3> QED
      BY <2>2, <3>1, <3>2, <3>3, <3>4 DEF ConnStep
  <2>3. CASE UNCHANGED vars
    BY <2>3 DEF vars, Makers
  <2> QED
    BY <2>1, <2>2, <2>3 DEF Next
<1> QED
  BY <1>1, InvInit, InvNext, PTL DEF Spec
===============================================================================
