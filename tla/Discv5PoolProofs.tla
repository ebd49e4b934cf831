--------------------------- MODULE Discv5PoolProofs ---------------------------
(***************************************************************************)
(* The safety of the socket pool for every number of sockets, borrowers,   *)
(* closers and capacities. Three layers of inductive invariants, each over *)
(* the one before: the types with the places of the borrowers (Basic), the *)
(* lock (Locking), and the sockets (Owning).                               *)
(***************************************************************************)
EXTENDS Discv5Pool, SequenceTheorems, TLAPS

-------------------------------------------------------------------------------
(* Types. *)

\* A borrower has a socket in exactly the places where it uses or returns one,
\* and those that return one are the readers of the lock.
Places ==
  /\ readers = {u \in User : pc[u] = "put"}
  /\ \A u \in User : held[u] # NoConn <=> pc[u] \in {"using", "put"}

Basic == TypeOK /\ Places

\* The channel of a new pool is empty and nobody has a socket.
LEMMA BasicInit == Init => Basic
<1>. SUFFICES ASSUME Init PROVE Basic
  OBVIOUS
<1>. USE PoolAssumption DEF Init
<1>1. buf \in Seq(Conn) /\ Len(buf) <= MaxCap
  <2>1. <<>> \in Seq(Conn) /\ Len(<<>>) = 0
    BY EmptySeq
  <2>. QED BY <2>1
<1>2. TypeOK
  BY <1>1 DEF TypeOK, UserPC, CloserPC
<1>3. Places
  BY DEF Places
<1>. QED BY <1>2, <1>3 DEF Basic

\* Every operation of the pool keeps the types and the borrowers' places.
LEMMA BasicStep == Basic /\ [Next]_vars => Basic'
<1>. SUFFICES ASSUME Basic, [Next]_vars PROVE Basic'
  OBVIOUS
<1>. USE PoolAssumption DEF Basic, TypeOK, Places, AllClosers, UserPC, CloserPC
<1>1. CASE FillOne
  BY <1>1, AppendProperties DEF FillOne, userVars
<1>2. CASE FillFails
  BY <1>2 DEF FillFails, userVars
<1>3. CASE FillDone
  BY <1>3 DEF FillDone, userVars
<1>4. CASE FillFailed
  BY <1>4 DEF FillFailed, vars, userVars
<1>5. ASSUME NEW u \in User, UserStep(u) PROVE Basic'
  <2>1. CASE GetConns(u)
    BY <2>1 DEF GetConns
  <2>2. CASE GetRefused(u)
    BY <2>2 DEF GetRefused, vars, userVars
  <2>3. CASE MarkUnusable(u)
    BY <2>3 DEF MarkUnusable
  <2>4. CASE GetReceive(u)
    <3>1. /\ Head(buf) \in Conn /\ Tail(buf) \in Seq(Conn)
          /\ Len(Tail(buf)) = Len(buf) - 1 /\ Len(buf) \in Nat
      BY <2>4, HeadTailProperties, LenProperties DEF GetReceive
    <3>. QED BY <2>4, <3>1 DEF GetReceive
  <2>5. CASE GetClosed(u)
    BY <2>5 DEF GetClosed
  <2>6. CASE GetDefault(u)
    BY <2>6 DEF GetDefault
  <2>7. CASE DialOK(u)
    BY <2>7 DEF DialOK
  <2>8. CASE DialFails(u)
    BY <2>8 DEF DialFails
  <2>9. CASE CloseUnusable(u)
    BY <2>9 DEF CloseUnusable, Discard, CloseConn, LetGo
  <2>10. CASE PutLock(u)
    BY <2>10 DEF PutLock
  <2>11. CASE PutFinish(u)
    <3>1. held[u] \in Conn
      BY <2>11 DEF PutFinish
    <3>2. buf' \in Seq(Conn) /\ Len(buf') <= MaxCap /\ life' \in [Conn -> {"unborn", "open", "closed"}]
      <4>1. CASE snap[u] /\ Room
        <5>1. buf' = Append(buf, held[u]) /\ life' = life /\ Len(buf) < MaxCap
          BY <2>11, <4>1 DEF PutFinish, Room
        <5>2. Append(buf, held[u]) \in Seq(Conn) /\ Len(Append(buf, held[u])) = Len(buf) + 1
          BY <3>1, AppendProperties
        <5>. QED BY <5>1, <5>2, LenProperties
      <4>2. CASE ~(snap[u] /\ Room)
        BY <2>11, <4>2 DEF PutFinish, Refuse, CloseConn
      <4>. QED BY <4>1, <4>2
    <3>3. pc' = [pc EXCEPT ![u] = "idle"] /\ held' = [held EXCEPT ![u] = NoConn]
          /\ unusable' = [unusable EXCEPT ![u] = FALSE] /\ readers' = readers \ {u}
          /\ UNCHANGED <<field, bufClosed, snap, cpc, filling>>
      BY <2>11 DEF PutFinish, LetGo
    <3>4. TypeOK'
      BY <3>2, <3>3
    <3>5. Places'
      BY <3>3
    <3>. QED BY <3>4, <3>5
  <2>. QED
    BY <1>5, <2>1, <2>2, <2>3, <2>4, <2>5, <2>6, <2>7, <2>8, <2>9, <2>10, <2>11
    DEF UserStep, GetStep, ReturnStep
<1>6. ASSUME NEW k \in AllClosers, CloseCall(k) \/ CloseStep(k) PROVE Basic'
  <2>1. CASE CloseCall(k)
    BY <2>1 DEF CloseCall, userVars
  <2>2. CASE CloseSwap(k)
    BY <2>2 DEF CloseSwap, userVars
  <2>3. CASE CloseChan(k)
    BY <2>3 DEF CloseChan, userVars
  <2>4. CASE CloseDrain(k)
    <3>1. Tail(buf) \in Seq(Conn) /\ Len(Tail(buf)) = Len(buf) - 1 /\ Len(buf) \in Nat
      BY <2>4, HeadTailProperties, LenProperties DEF CloseDrain
    <3>. QED BY <2>4, <3>1 DEF CloseDrain, CloseConn, userVars
  <2>5. CASE CloseDone(k)
    BY <2>5 DEF CloseDone, userVars
  <2>. QED BY <1>6, <2>1, <2>2, <2>3, <2>4, <2>5 DEF CloseStep
<1>7. CASE UNCHANGED vars
  BY <1>7 DEF vars, userVars
<1>. QED BY <1>1, <1>2, <1>3, <1>4, <1>5, <1>6, <1>7 DEF Next

\* The types of the pool's state hold in every run.
THEOREM TypeCorrect == Spec => []TypeOK
<1>1. Basic => TypeOK
  BY DEF Basic
<1>. QED BY BasicInit, BasicStep, <1>1, PTL DEF Spec

-------------------------------------------------------------------------------
(* The lock: what a reader inside put has read is still so, the channel is     *)
(* closed only after the field was cleared, and until NewChannelPool returns   *)
(* no other goroutine has the pool.                                            *)

Locking ==
  /\ \A u \in User : pc[u] = "put" => snap[u] = field
  /\ bufClosed => ~field
  /\ \A k \in AllClosers : cpc[k] \in {"close", "drain"} => ~field
  /\ filling /\ cpc[Ctor] = "idle" => field
  /\ filling => \A k \in Closer : cpc[k] = "idle"

LEMMA LockingInit == Init => Locking
  BY PoolAssumption DEF Init, Locking, AllClosers

\* A borrower's step changes neither the field nor a closer.
LEMMA LockingUser ==
  ASSUME Basic, Locking, NEW u \in User, UserStep(u)
  PROVE  Locking'
<1>. USE DEF Basic, TypeOK, Places, Locking
<1>1. CASE GetConns(u)
  BY <1>1 DEF GetConns
<1>2. CASE GetRefused(u)
  BY <1>2 DEF GetRefused, vars, userVars
<1>3. CASE MarkUnusable(u)
  BY <1>3 DEF MarkUnusable
<1>4. CASE GetReceive(u)
  BY <1>4 DEF GetReceive
<1>5. CASE GetClosed(u)
  BY <1>5 DEF GetClosed
<1>6. CASE GetDefault(u)
  BY <1>6 DEF GetDefault
<1>7. CASE DialOK(u)
  BY <1>7 DEF DialOK
<1>8. CASE DialFails(u)
  BY <1>8 DEF DialFails
<1>9. CASE CloseUnusable(u)
  BY <1>9 DEF CloseUnusable, LetGo
<1>10. CASE PutLock(u)
  BY <1>10 DEF PutLock
<1>11. CASE PutFinish(u)
  BY <1>11 DEF PutFinish, LetGo
<1>. QED
  BY <1>1, <1>2, <1>3, <1>4, <1>5, <1>6, <1>7, <1>8, <1>9, <1>10, <1>11
  DEF UserStep, GetStep, ReturnStep

\* Close clears the field when no reader is inside put.
LEMMA LockingCloser ==
  ASSUME Basic, Locking, NEW k \in AllClosers, CloseCall(k) \/ CloseStep(k)
  PROVE  Locking'
<1>. USE PoolAssumption DEF Basic, TypeOK, Places, Locking, AllClosers, userVars
<1>1. CASE CloseCall(k)
  BY <1>1 DEF CloseCall
<1>2. CASE CloseSwap(k)
  <2>1. \A u \in User : pc[u] # "put"
    BY <1>2 DEF CloseSwap, MayLock
  <2>. QED BY <1>2, <2>1 DEF CloseSwap
<1>3. CASE CloseChan(k)
  BY <1>3 DEF CloseChan
<1>4. CASE CloseDrain(k)
  BY <1>4 DEF CloseDrain
<1>5. CASE CloseDone(k)
  BY <1>5 DEF CloseDone
<1>. QED BY <1>1, <1>2, <1>3, <1>4, <1>5 DEF CloseStep

LEMMA LockingStep == Basic /\ Locking /\ [Next]_vars => Locking'
<1>. SUFFICES ASSUME Basic, Locking, [Next]_vars PROVE Locking'
  OBVIOUS
<1>. USE PoolAssumption DEF Basic, TypeOK, Locking, AllClosers
<1>1. CASE FillOne
  BY <1>1 DEF FillOne, userVars
<1>2. CASE FillFails
  BY <1>2 DEF FillFails, userVars
<1>3. CASE FillDone
  BY <1>3 DEF FillDone, userVars
<1>4. CASE FillFailed \/ UNCHANGED vars
  BY <1>4 DEF FillFailed, vars, userVars
<1>. QED BY <1>1, <1>2, <1>3, <1>4, LockingUser, LockingCloser DEF Next

\* put holds the read lock from reading c.conns to the send, and Close clears
\* the field under the write lock before it closes the channel.
THEOREM SendSafe == Spec => []NoSendOnClosed
<1>1. Locking => NoSendOnClosed
  BY DEF Locking, NoSendOnClosed
<1>. QED BY BasicInit, BasicStep, LockingInit, LockingStep, <1>1, PTL DEF Spec

-------------------------------------------------------------------------------
(* The sockets. Six lemmas, one for each way an operation moves a socket, then *)
(* the operations by the way they move theirs.                                 *)

Owning == ExclusiveOwnership /\ LiveSockets /\ NoLostSocket

LEMMA OwningInit == Init => Owning
<1>. SUFFICES ASSUME Init PROVE Owning
  OBVIOUS
<1>1. Len(buf) = 0
  BY EmptySeq DEF Init
<1>. QED
  BY <1>1 DEF Init, Owning, ExclusiveOwnership, LiveSockets, NoLostSocket

\* An operation that moves no socket.
LEMMA OwningSame ==
  ASSUME Owning, UNCHANGED <<buf, held, life>>
  PROVE  Owning'
BY DEF Owning, ExclusiveOwnership, LiveSockets, NoLostSocket, InBuf, Holders

\* The constructor makes a socket and puts it into the channel.
LEMMA OwningFill ==
  ASSUME Basic, Owning, NEW c \in Conn, life[c] = "unborn",
         life' = [life EXCEPT ![c] = "open"], buf' = Append(buf, c), held' = held
  PROVE  Owning'
<1>. USE PoolAssumption DEF Basic, TypeOK, Owning, ExclusiveOwnership, LiveSockets, NoLostSocket
<1>1. /\ Len(buf) \in Nat /\ Len(buf') = Len(buf) + 1 /\ buf'[Len(buf) + 1] = c
      /\ \A i \in 1..Len(buf) : buf'[i] = buf[i] /\ buf[i] \in Conn
  BY AppendProperties, LenProperties
<1>2. \A i \in 1..Len(buf) : buf[i] # c
  OBVIOUS
<1>3. \A u \in User : held[u] # c
  BY PoolAssumption
<1>4. ExclusiveOwnership'
  BY <1>1, <1>2, <1>3
<1>5. LiveSockets'
  BY <1>1, <1>2, <1>3
<1>6. NoLostSocket'
  <2>. SUFFICES ASSUME NEW d \in Conn, life'[d] = "open"
                PROVE  InBuf(d)' \/ Holders(d)' # {}
    OBVIOUS
  <2>1. CASE d = c
    BY <2>1, <1>1 DEF InBuf
  <2>2. CASE d # c
    <3>1. InBuf(d) \/ Holders(d) # {}
      BY <2>2
    <3>2. InBuf(d) => InBuf(d)'
      BY <1>1 DEF InBuf
    <3>3. Holders(d)' = Holders(d)
      BY DEF Holders
    <3>. QED BY <3>1, <3>2, <3>3
  <2>. QED BY <2>1, <2>2
<1>. QED BY <1>4, <1>5, <1>6

\* Get receives the first socket of the channel.
LEMMA OwningReceive ==
  ASSUME Basic, Owning, NEW u \in User, held[u] = NoConn, buf # <<>>,
         held' = [held EXCEPT ![u] = Head(buf)], buf' = Tail(buf), life' = life
  PROVE  Owning'
<1>. USE PoolAssumption DEF Basic, TypeOK, Owning, ExclusiveOwnership, LiveSockets, NoLostSocket
<1>1. /\ Len(buf) \in Nat \ {0} /\ Len(buf') = Len(buf) - 1
      /\ \A i \in 1..Len(buf') : i + 1 \in 1..Len(buf) /\ buf'[i] = buf[i + 1]
      /\ \A i \in 1..Len(buf) : buf[i] \in Conn
  BY HeadTailProperties, LenProperties, EmptySeq
<1>2. Head(buf) = buf[1] /\ 1 \in 1..Len(buf) /\ buf[1] \in Conn
  BY <1>1
<1>3. held'[u] = buf[1] /\ \A v \in User : v # u => held'[v] = held[v]
  BY <1>2
<1>4. ExclusiveOwnership'
  <2>1. \A i, j \in 1..Len(buf') : buf'[i] = buf'[j] => i = j
    BY <1>1
  <2>2. \A v, w \in User : held'[v] = held'[w] /\ held'[v] # NoConn => v = w
    BY <1>2, <1>3
  <2>3. \A v \in User, i \in 1..Len(buf') : held'[v] # buf'[i]
    BY <1>1, <1>2, <1>3
  <2>. QED BY <2>1, <2>2, <2>3
<1>5. LiveSockets'
  BY <1>1, <1>2, <1>3
<1>6. NoLostSocket'
  <2>. SUFFICES ASSUME NEW d \in Conn, life[d] = "open"
                PROVE  InBuf(d)' \/ Holders(d)' # {}
    OBVIOUS
  <2>1. CASE d = buf[1]
    BY <2>1, <1>3 DEF Holders
  <2>2. CASE d # buf[1] /\ InBuf(d)
    <3>1. PICK i \in 1..Len(buf) : buf[i] = d
      BY <2>2 DEF InBuf
    <3>2. i - 1 \in 1..Len(buf') /\ buf'[i - 1] = d
      BY <1>1, <2>2, <3>1
    <3>. QED BY <3>2 DEF InBuf
  <2>3. CASE Holders(d) # {}
    BY <2>3, <1>3 DEF Holders
  <2>. QED BY <2>1, <2>2, <2>3
<1>. QED BY <1>4, <1>5, <1>6

\* Get is given a socket that the factory makes.
LEMMA OwningDial ==
  ASSUME Basic, Owning, NEW u \in User, NEW c \in Conn, held[u] = NoConn, life[c] = "unborn",
         life' = [life EXCEPT ![c] = "open"], held' = [held EXCEPT ![u] = c], buf' = buf
  PROVE  Owning'
<1>. USE PoolAssumption DEF Basic, TypeOK, Owning, ExclusiveOwnership, LiveSockets, NoLostSocket
<1>1. \A i \in 1..Len(buf) : buf[i] \in Conn /\ buf[i] # c
  BY LenProperties
<1>2. \A v \in User : held[v] # c
  OBVIOUS
<1>3. ExclusiveOwnership'
  BY <1>1, <1>2
<1>4. LiveSockets'
  BY <1>1, <1>2
<1>5. NoLostSocket'
  BY DEF InBuf, Holders
<1>. QED BY <1>3, <1>4, <1>5

\* A borrower gives its socket up and closes it.
LEMMA OwningDiscard ==
  ASSUME Basic, Owning, NEW u \in User, held[u] \in Conn,
         life' = [life EXCEPT ![held[u]] = "closed"],
         held' = [held EXCEPT ![u] = NoConn], buf' = buf
  PROVE  Owning'
<1>. USE PoolAssumption DEF Basic, TypeOK, Owning, ExclusiveOwnership, LiveSockets, NoLostSocket
<1>1. \A i \in 1..Len(buf) : buf[i] \in Conn /\ buf[i] # held[u]
  BY LenProperties
<1>2. ExclusiveOwnership'
  BY <1>1
<1>3. LiveSockets'
  BY <1>1
<1>4. NoLostSocket'
  BY DEF InBuf, Holders
<1>. QED BY <1>2, <1>3, <1>4

\* put sends the borrower's socket to the channel.
LEMMA OwningPut ==
  ASSUME Basic, Owning, NEW u \in User, held[u] \in Conn, life' = life,
         held' = [held EXCEPT ![u] = NoConn], buf' = Append(buf, held[u])
  PROVE  Owning'
<1>. USE PoolAssumption DEF Basic, TypeOK, Owning, ExclusiveOwnership, LiveSockets, NoLostSocket
<1>1. /\ Len(buf) \in Nat /\ Len(buf') = Len(buf) + 1 /\ buf'[Len(buf) + 1] = held[u]
      /\ \A i \in 1..Len(buf) : buf'[i] = buf[i] /\ buf[i] \in Conn
  BY AppendProperties, LenProperties
<1>2. \A v \in User : v # u => held'[v] = held[v]
  OBVIOUS
<1>3. ExclusiveOwnership'
  <2>1. \A i, j \in 1..Len(buf') : buf'[i] = buf'[j] => i = j
    BY <1>1
  <2>2. \A v, w \in User : held'[v] = held'[w] /\ held'[v] # NoConn => v = w
    OBVIOUS
  <2>3. \A v \in User, i \in 1..Len(buf') : held'[v] # buf'[i]
    BY <1>1
  <2>. QED BY <2>1, <2>2, <2>3
<1>4. LiveSockets'
  BY <1>1
<1>5. NoLostSocket'
  <2>. SUFFICES ASSUME NEW d \in Conn, life[d] = "open"
                PROVE  InBuf(d)' \/ Holders(d)' # {}
    OBVIOUS
  <2>1. CASE d = held[u]
    BY <2>1, <1>1 DEF InBuf
  <2>2. CASE InBuf(d)
    BY <2>2, <1>1 DEF InBuf
  <2>3. CASE d # held[u] /\ Holders(d) # {}
    BY <2>3, <1>2 DEF Holders
  <2>. QED BY <2>1, <2>2, <2>3
<1>. QED BY <1>3, <1>4, <1>5

\* Close takes the first socket of the channel and closes it.
LEMMA OwningDrain ==
  ASSUME Basic, Owning, buf # <<>>, life' = [life EXCEPT ![Head(buf)] = "closed"],
         buf' = Tail(buf), held' = held
  PROVE  Owning'
<1>. USE PoolAssumption DEF Basic, TypeOK, Owning, ExclusiveOwnership, LiveSockets, NoLostSocket
<1>1. /\ Len(buf) \in Nat \ {0} /\ Len(buf') = Len(buf) - 1
      /\ \A i \in 1..Len(buf') : i + 1 \in 1..Len(buf) /\ buf'[i] = buf[i + 1]
      /\ \A i \in 1..Len(buf) : buf[i] \in Conn
  BY HeadTailProperties, LenProperties, EmptySeq
<1>2. Head(buf) = buf[1] /\ 1 \in 1..Len(buf) /\ buf[1] \in Conn
  BY <1>1
<1>3. ExclusiveOwnership'
  BY <1>1
<1>4. LiveSockets'
  <2>1. \A i \in 1..Len(buf') : buf'[i] # buf[1]
    BY <1>1, <1>2
  <2>2. \A v \in User : held[v] # buf[1]
    BY <1>2
  <2>. QED BY <1>1, <1>2, <2>1, <2>2
<1>5. NoLostSocket'
  <2>. SUFFICES ASSUME NEW d \in Conn, life'[d] = "open"
                PROVE  InBuf(d)' \/ Holders(d)' # {}
    OBVIOUS
  <2>1. d # buf[1] /\ life[d] = "open"
    BY <1>2
  <2>2. CASE InBuf(d)
    <3>1. PICK i \in 1..Len(buf) : buf[i] = d
      BY <2>2 DEF InBuf
    <3>2. i - 1 \in 1..Len(buf') /\ buf'[i - 1] = d
      BY <1>1, <2>1, <3>1
    <3>. QED BY <3>2 DEF InBuf
  <2>3. CASE Holders(d) # {}
    BY <2>3 DEF Holders
  <2>. QED BY <2>1, <2>2, <2>3
<1>. QED BY <1>3, <1>4, <1>5

\* Every operation moves at most one socket, in one of these ways.
LEMMA OwningStep == Basic /\ Owning /\ [Next]_vars => Owning'
<1>. SUFFICES ASSUME Basic, Owning, [Next]_vars PROVE Owning'
  OBVIOUS
<1>1. CASE FillOne
  BY <1>1, OwningFill DEF FillOne, userVars
<1>2. CASE FillFails \/ FillDone \/ FillFailed \/ UNCHANGED vars
  BY <1>2, OwningSame DEF FillFails, FillDone, FillFailed, vars, userVars
<1>3. ASSUME NEW u \in User, UserStep(u) PROVE Owning'
  <2>. USE <1>3
  <2>1. CASE GetConns(u) \/ GetRefused(u) \/ MarkUnusable(u) \/ GetClosed(u) \/ GetDefault(u)
               \/ DialFails(u) \/ PutLock(u)
    BY <2>1, OwningSame
    DEF GetConns, GetRefused, MarkUnusable, GetClosed, GetDefault, DialFails, PutLock, vars,
        userVars
  <2>2. CASE GetReceive(u)
    BY <2>2, OwningReceive DEF GetReceive, Basic, Places
  <2>3. CASE DialOK(u)
    BY <2>3, OwningDial DEF DialOK, Basic, Places
  <2>4. CASE CloseUnusable(u)
    <3>1. held[u] \in Conn
      BY <2>4 DEF CloseUnusable, Basic, TypeOK, Places
    <3>. QED BY <2>4, <3>1, OwningDiscard DEF CloseUnusable, Discard, CloseConn, LetGo
  <2>5. CASE PutFinish(u)
    <3>1. held[u] \in Conn /\ held' = [held EXCEPT ![u] = NoConn]
      BY <2>5 DEF PutFinish, LetGo, Basic, TypeOK, Places
    <3>2. CASE snap[u] /\ Room
      BY <2>5, <3>1, <3>2, OwningPut DEF PutFinish
    <3>3. CASE ~(snap[u] /\ Room)
      BY <2>5, <3>1, <3>3, OwningDiscard DEF PutFinish, Refuse, CloseConn
    <3>. QED BY <3>2, <3>3
  <2>. QED BY <2>1, <2>2, <2>3, <2>4, <2>5 DEF UserStep, GetStep, ReturnStep
<1>4. ASSUME NEW k \in AllClosers, CloseCall(k) \/ CloseStep(k) PROVE Owning'
  <2>. USE <1>4
  <2>1. CASE CloseCall(k) \/ CloseSwap(k) \/ CloseChan(k) \/ CloseDone(k)
    BY <2>1, OwningSame DEF CloseCall, CloseSwap, CloseChan, CloseDone, userVars
  <2>2. CASE CloseDrain(k)
    BY <2>2, OwningDrain DEF CloseDrain, CloseConn, userVars
  <2>. QED BY <2>1, <2>2 DEF CloseStep
<1>. QED BY <1>1, <1>2, <1>3, <1>4 DEF Next

\* No two borrowers share a socket, and no socket is borrowed while it is idle.
THEOREM Exclusive == Spec => []ExclusiveOwnership
<1>1. Owning => ExclusiveOwnership
  BY DEF Owning
<1>. QED BY BasicInit, BasicStep, OwningInit, OwningStep, <1>1, PTL DEF Spec

\* No socket is closed while it is borrowed or idle.
THEOREM Live == Spec => []LiveSockets
<1>1. Owning => LiveSockets
  BY DEF Owning
<1>. QED BY BasicInit, BasicStep, OwningInit, OwningStep, <1>1, PTL DEF Spec

\* No open socket is out of everybody's reach.
THEOREM NoneLost == Spec => []NoLostSocket
<1>1. Owning => NoLostSocket
  BY DEF Owning
<1>. QED BY BasicInit, BasicStep, OwningInit, OwningStep, <1>1, PTL DEF Spec

-------------------------------------------------------------------------------
(* The drain. *)

LEMMA StrandedInit == Init => NoStrandedSocket
  BY DEF Init, NoStrandedSocket

\* An operation that leaves the field, the channel and the closers alone, or
\* only takes a socket from the channel.
LEMMA StrandedSame ==
  ASSUME NoStrandedSocket, UNCHANGED <<field, cpc>>, buf' = buf \/ buf # <<>>
  PROVE  NoStrandedSocket'
BY DEF NoStrandedSocket

\* put sends only while the pool is open, and only the closer that has emptied
\* the channel leaves its loop.
LEMMA StrandedStep ==
  Basic /\ Locking /\ NoStrandedSocket /\ [Next]_vars => NoStrandedSocket'
<1>. SUFFICES ASSUME Basic, Locking, NoStrandedSocket, [Next]_vars PROVE NoStrandedSocket'
  OBVIOUS
<1>1. CASE FillOne
  BY <1>1 DEF FillOne, Locking, NoStrandedSocket
<1>2. CASE FillFails
  BY <1>2, PoolAssumption DEF FillFails, Locking, NoStrandedSocket
<1>3. CASE FillDone \/ FillFailed \/ UNCHANGED vars
  BY <1>3, StrandedSame DEF FillDone, FillFailed, vars, userVars
<1>4. ASSUME NEW u \in User, UserStep(u) PROVE NoStrandedSocket'
  <2>. USE <1>4
  <2>1. CASE GetConns(u) \/ GetRefused(u) \/ MarkUnusable(u) \/ GetClosed(u) \/ GetDefault(u)
               \/ DialOK(u) \/ DialFails(u) \/ PutLock(u) \/ CloseUnusable(u) \/ GetReceive(u)
    BY <2>1, StrandedSame
    DEF GetConns, GetRefused, MarkUnusable, GetClosed, GetDefault, DialOK, DialFails, PutLock,
        CloseUnusable, Discard, GetReceive, vars, userVars
  <2>2. CASE PutFinish(u)
    <3>1. CASE snap[u] /\ Room
      BY <2>2, <3>1 DEF PutFinish, Basic, TypeOK, Locking, NoStrandedSocket
    <3>2. CASE ~(snap[u] /\ Room)
      BY <2>2, <3>2, StrandedSame DEF PutFinish
    <3>. QED BY <3>1, <3>2
  <2>. QED BY <2>1, <2>2 DEF UserStep, GetStep, ReturnStep
<1>5. ASSUME NEW k \in AllClosers, CloseCall(k) \/ CloseStep(k) PROVE NoStrandedSocket'
  <2>. USE <1>5 DEF NoStrandedSocket, Basic, TypeOK
  <2>1. CASE CloseCall(k)
    BY <2>1 DEF CloseCall
  <2>2. CASE CloseSwap(k)
    BY <2>2 DEF CloseSwap
  <2>3. CASE CloseChan(k)
    BY <2>3 DEF CloseChan
  <2>4. CASE CloseDrain(k)
    BY <2>4, StrandedSame DEF CloseDrain
  <2>5. CASE CloseDone(k)
    BY <2>5 DEF CloseDone, Drained
  <2>. QED BY <2>1, <2>2, <2>3, <2>4, <2>5 DEF CloseStep
<1>. QED BY <1>1, <1>2, <1>3, <1>4, <1>5 DEF Next

\* A socket left in a closed pool still has a Close on its way to it.
THEOREM NoneStranded == Spec => []NoStrandedSocket
BY BasicInit, BasicStep, LockingInit, LockingStep, StrandedInit, StrandedStep, PTL DEF Spec
===============================================================================
