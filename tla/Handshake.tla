------------------------------- MODULE Handshake ------------------------------
(***************************************************************************)
(* getClientInfo of crawler/handshake.go, which every Crawl goroutine      *)
(* calls for a node that answered: a TCP connection, the hello messages    *)
(* that negotiate an eth version, and the status messages. The status sent *)
(* to every peer is the one package variable _status, which the goroutines *)
(* create, read and change without a lock: an access of a field is a step. *)
(***************************************************************************)
EXTENDS Integers, FiniteSets

CONSTANTS Client,      \* places for the goroutines that are in getClientInfo at a time
          Version,     \* eth versions a peer may offer in its hello
          TD,          \* total difficulties a peer may send
          OurHighest,  \* conn.ourHighestProtoVersion, 66
          Nobody

ASSUME HandshakeAssumption ==
  /\ Nobody \notin Client
  /\ Version \subseteq Nat \ {0} /\ TD \subseteq Nat /\ OurHighest \in Nat

VARIABLES
  current,   \* who made the Status that _status points to, or Nobody: nil
  made,      \* made[g]: the version and TD of the Status that g made last
  pc,        \* pc[g]: where g is in getClientInfo
  caps,      \* caps[g]: the eth versions its peer offered
  version,   \* version[g]: conn.negotiatedProtoVersion
  td         \* td[g]: msg.TD of the peer's status

connVars == <<caps, version, td>>
vars == <<current, made, pc, connVars>>

Statuses == [version : Version, td : TD \cup {0}]
NoStatus == [version |-> 0, td |-> 0]
PC == {"idle", "rlpx", "hello", "skip", "get", "make", "write", "read", "compare", "set"}

TypeOK ==
  /\ current \in Client \cup {Nobody}
  /\ made \in [Client -> Statuses \cup {NoStatus}]
  /\ pc \in [Client -> PC]
  /\ caps \in [Client -> SUBSET Version]
  /\ version \in [Client -> Version \cup {0}]
  /\ td \in [Client -> TD \cup {0}]

Init ==
  /\ current = Nobody
  /\ made = [g \in Client |-> NoStatus]
  /\ pc = [g \in Client |-> "idle"]
  /\ caps = [g \in Client |-> {}]
  /\ version = [g \in Client |-> 0]
  /\ td = [g \in Client |-> 0]

Goto(g, place) == pc' = [pc EXCEPT ![g] = place]

\* getClientInfo returns, with an error or without: nothing of conn outlives it.
Return(g) ==
  /\ Goto(g, "idle")
  /\ caps' = [caps EXCEPT ![g] = {}]
  /\ version' = [version EXCEPT ![g] = 0]
  /\ td' = [td EXCEPT ![g] = 0]

-------------------------------------------------------------------------------
(* dial. *)

Dial(g) ==
  /\ pc[g] = "idle"
  /\ Goto(g, "rlpx")
  /\ UNCHANGED <<current, made, connVars>>

DialFails(g) == pc[g] = "idle" /\ UNCHANGED vars

Encrypt(g) ==
  /\ pc[g] = "rlpx"
  /\ Goto(g, "hello")
  /\ UNCHANGED <<current, made, connVars>>

-------------------------------------------------------------------------------
(* writeHello, readHello and negotiateEthProtocol. *)

Best(S) == IF S = {} THEN 0 ELSE CHOOSE v \in S : \A w \in S : w <= v

\* Variant: our own highest version is not looked at.
negotiateHighest(offered) == Best(offered)

negotiateEthProtocol(offered) == Best({v \in offered : v <= OurHighest})

\* Variant: the status is sent also without a common version.
AlwaysStatus(v) == "get"

AfterHello(v) == IF v = 0 THEN "skip" ELSE "get"

Hello(g) ==
  /\ pc[g] = "hello"
  /\ \E offered \in SUBSET Version :
       LET v == negotiateEthProtocol(offered)
       IN  /\ caps' = [caps EXCEPT ![g] = offered]
           /\ version' = [version EXCEPT ![g] = v]
           /\ Goto(g, AfterHello(v))
  /\ UNCHANGED <<current, made, td>>

\* Without a version the call returns what the hello said.
Skip(g) == pc[g] = "skip" /\ Return(g) /\ UNCHANGED <<current, made>>

\* The RLPx handshake fails, a deadline cannot be set, a message cannot be written,
\* or a Disconnect, any other message or the deadline comes instead of the one
\* expected.
MessageFails(g) ==
  /\ pc[g] \in {"rlpx", "hello", "get", "write", "read"}
  /\ Return(g)
  /\ UNCHANGED <<current, made>>

-------------------------------------------------------------------------------
(* getStatus and readStatus. *)

\* Variant: getStatus makes a new status for every peer.
AlwaysNil == TRUE

IsNil == current = Nobody

\* if _status == nil
GetStatus(g) ==
  /\ pc[g] = "get"
  /\ Goto(g, IF IsNil THEN "make" ELSE "write")
  /\ UNCHANGED <<current, made, connVars>>

\* _status = &Status{...}, also when another goroutine has made one meanwhile.
MakeStatus(g) ==
  /\ pc[g] = "make"
  /\ made' = [made EXCEPT ![g] = [version |-> version[g], td |-> 0]]
  /\ current' = g
  /\ Goto(g, "write")
  /\ UNCHANGED <<connVars>>

WriteStatus(g) ==
  /\ pc[g] = "write"
  /\ Goto(g, "read")
  /\ UNCHANGED <<current, made, connVars>>

ReadStatus(g) ==
  /\ pc[g] = "read"
  /\ \E t \in TD : td' = [td EXCEPT ![g] = t]
  /\ Goto(g, "compare")
  /\ UNCHANGED <<current, made, caps, version>>

\* Variant: any TD is taken for a higher one.
AnyTD(t) == TRUE

Higher(t) == t > made[current].td

\* if msg.TD.Cmp(_status.TD) > 0
CompareTD(g) ==
  /\ pc[g] = "compare"
  /\ IF Higher(td[g]) THEN Goto(g, "set") /\ UNCHANGED connVars ELSE Return(g)
  /\ UNCHANGED <<current, made>>

\* _status.TD = msg.TD, whatever _status has become since.
SetTD(g) ==
  /\ pc[g] = "set"
  /\ made' = [made EXCEPT ![current].td = td[g]]
  /\ Return(g)
  /\ UNCHANGED <<current>>

-------------------------------------------------------------------------------
DialStep(g) == Dial(g) \/ DialFails(g)
ConnStep(g) ==
  \/ Encrypt(g) \/ Hello(g) \/ Skip(g) \/ MessageFails(g) \/ GetStatus(g)
  \/ MakeStatus(g) \/ WriteStatus(g) \/ ReadStatus(g) \/ CompareTD(g) \/ SetTD(g)

Next == \E g \in Client : DialStep(g) \/ ConnStep(g)

Spec == Init /\ [][Next]_vars

\* A goroutine inside getClientInfo goes on: its waits are a sleep or have a
\* deadline. No node has to be dialled, and no message to come.
FairSpec == Spec /\ \A g \in Client : WF_vars(ConnStep(g))

-------------------------------------------------------------------------------
(* Properties. *)

\* The status sent to the peers exists when it is sent, compared and set, and it
\* names a version that was negotiated, so not above our own, whatever goroutines
\* raced to make it.
StatusUsable ==
  /\ \A g \in Client : pc[g] \in {"write", "read", "compare", "set"} => current # Nobody
  /\ current # Nobody => made[current].version \in 1..OurHighest

\* Sooner or later nobody makes a status any more, and from then on one status is
\* that of every goroutine, however many calls there are: goroutines that saw none
\* before the first one was there may still replace it, one after the other, but
\* each only once and with no others to follow (handshake.go:159).
Makers == {g \in Client : pc[g] = "make"}
StatusSettles == <>[](Makers = {})

\* "Set correct TD if received TD is higher" (handshake.go:181): the TD of
\* _status never falls.
TDNeverFalls ==
  [][current # Nobody => current' # Nobody /\ made'[current'].td >= made[current].td]_vars
===============================================================================
