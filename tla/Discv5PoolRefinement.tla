------------------------- MODULE Discv5PoolRefinement -------------------------
(***************************************************************************)
(* The pool of pool.go implements ConnPool for every value of the          *)
(* constants: each of its steps is one operation of ConnPool on the place  *)
(* of one socket, or leaves every socket where it is.                      *)
(***************************************************************************)
EXTENDS Discv5PoolProofs, FiniteSetTheorems, FunctionTheorems

\* What the mapping says of a socket in the channel, of one that is borrowed,
\* and of one that is neither.
Located ==
  \A c \in Conn :
    /\ InBuf(c) <=> Where[c] = "idle"
    /\ \A u \in User : held[u] = c => Where[c] = u /\ ~InBuf(c)
    /\ ~InBuf(c) /\ Holders(c) = {} => Where[c] = life[c]

\* A socket has one place, so the choice of its borrower is no choice.
LEMMA WhereLocated == Basic /\ Owning => Located
<1>. SUFFICES ASSUME Basic, Owning, NEW c \in Conn
              PROVE  /\ InBuf(c) <=> Where[c] = "idle"
                     /\ \A u \in User : held[u] = c => Where[c] = u /\ ~InBuf(c)
                     /\ ~InBuf(c) /\ Holders(c) = {} => Where[c] = life[c]
  BY DEF Located
<1>. USE PoolAssumption DEF Basic, TypeOK, Owning, ExclusiveOwnership
<1>1. CASE InBuf(c)
  <2>1. \A u \in User : held[u] # c
    BY <1>1 DEF InBuf
  <2>. QED BY <1>1, <2>1 DEF Where
<1>2. CASE ~InBuf(c) /\ Holders(c) # {}
  <2>1. PICK u \in User : held[u] = c
    BY <1>2 DEF Holders
  <2>2. \A v \in User : held[v] = c => v = u
    BY <2>1
  <2>3. (CHOOSE v \in User : held[v] = c) = u
    BY <2>1, <2>2
  <2>4. Where[c] = u
    BY <1>2, <2>3 DEF Where
  <2>. QED BY <1>2, <2>2, <2>4
<1>3. CASE ~InBuf(c) /\ Holders(c) = {}
  BY <1>3 DEF Where, Holders
<1>. QED BY <1>1, <1>2, <1>3

\* The sockets that ConnPool counts are those the channel holds. The Cardinality
\* in the instance is another symbol with the same definition.
LEMMA IdlersCounted ==
  ASSUME Basic, Owning
  PROVE  Atomic!Cardinality(Atomic!Idlers) = Len(buf)
<1>1. Atomic!Idlers = {c \in Conn : InBuf(c)}
  BY WhereLocated DEF Located, Atomic!Idlers
<1>2. Len(buf) \in Nat /\ buf \in [1..Len(buf) -> Conn]
  BY LenProperties DEF Basic, TypeOK
<1>3. buf \in Bijection(1..Len(buf), Atomic!Idlers)
  <2>1. buf \in [1..Len(buf) -> Atomic!Idlers]
    BY <1>1, <1>2 DEF InBuf
  <2>2. \A i, j \in 1..Len(buf) : buf[i] = buf[j] => i = j
    BY DEF Owning, ExclusiveOwnership
  <2>3. \A c \in Atomic!Idlers : \E i \in 1..Len(buf) : buf[i] = c
    BY <1>1 DEF InBuf
  <2>. QED BY <2>1, <2>2, <2>3 DEF Bijection, Injection, Surjection, IsInjective
<1>4. ExistsBijection(1..Len(buf), Atomic!Idlers)
  BY <1>3 DEF ExistsBijection
<1>5. IsFiniteSet(1..Len(buf)) /\ Cardinality(1..Len(buf)) = Len(buf)
  BY <1>2, FS_Interval
<1>6. Cardinality(Atomic!Idlers) = Len(buf)
  BY <1>4, <1>5, FS_Bijection
<1>7. Atomic!Cardinality(Atomic!Idlers) = Cardinality(Atomic!Idlers)
  BY DEF Atomic!Cardinality, Cardinality
<1>. QED BY <1>6, <1>7

\* A step that touches one socket moves that socket only.
LEMMA WhereMoves ==
  ASSUME NEW c \in Conn, Located, Located',
         \A d \in Conn \ {c} : /\ InBuf(d)' <=> InBuf(d)
                               /\ \A u \in User : held'[u] = d <=> held[u] = d
                               /\ life'[d] = life[d]
  PROVE  Where' = [Where EXCEPT ![c] = Where'[c]]
<1>1. ASSUME NEW d \in Conn \ {c} PROVE Where'[d] = Where[d]
  <2>1. CASE InBuf(d)
    BY <2>1 DEF Located
  <2>2. CASE Holders(d) # {}
    BY <2>2 DEF Located, Holders
  <2>3. CASE ~InBuf(d) /\ Holders(d) = {}
    <3>1. ~InBuf(d)' /\ Holders(d)' = {}
      BY <2>3 DEF Holders
    <3>. QED BY <2>3, <3>1 DEF Located
  <2>. QED BY <2>1, <2>2, <2>3
<1>2. Where = [d \in Conn |-> Where[d]] /\ Where' = [d \in Conn |-> Where'[d]]
  BY DEF Where
<1>. QED BY <1>1, <1>2

\* What sending to the channel and receiving from it do to its contents.
LEMMA AppendedBuf ==
  ASSUME Basic, NEW c \in Conn, buf' = Append(buf, c)
  PROVE  InBuf(c)' /\ \A d \in Conn \ {c} : InBuf(d)' <=> InBuf(d)
<1>1. /\ Len(buf) \in Nat /\ Len(buf') = Len(buf) + 1 /\ buf'[Len(buf) + 1] = c
      /\ \A i \in 1..Len(buf) : buf'[i] = buf[i]
  BY AppendProperties, LenProperties DEF Basic, TypeOK
<1>2. \A i \in 1..Len(buf') : i \in 1..Len(buf) \/ i = Len(buf) + 1
  BY <1>1
<1>. QED BY <1>1, <1>2 DEF InBuf

LEMMA ReceivedBuf ==
  ASSUME Basic, Owning, buf # <<>>, buf' = Tail(buf), NEW c \in Conn, c = Head(buf)
  PROVE  /\ InBuf(c) /\ ~InBuf(c)'
         /\ \A d \in Conn \ {c} : InBuf(d)' <=> InBuf(d)
<1>1. /\ Len(buf) \in Nat \ {0} /\ Len(buf') = Len(buf) - 1
      /\ \A i \in 1..Len(buf') : i + 1 \in 1..Len(buf) /\ buf'[i] = buf[i + 1]
      /\ \A i \in 1..Len(buf) : buf[i] \in Conn
  BY HeadTailProperties, LenProperties, EmptySeq DEF Basic, TypeOK
<1>2. c = buf[1] /\ 1 \in 1..Len(buf)
  BY <1>1
<1>3. ~InBuf(c)'
  BY <1>1, <1>2 DEF InBuf, Owning, ExclusiveOwnership
<1>4. ASSUME NEW d \in Conn \ {c} PROVE InBuf(d)' <=> InBuf(d)
  <2>1. ASSUME NEW i \in 1..Len(buf), buf[i] = d PROVE i - 1 \in 1..Len(buf') /\ buf'[i - 1] = d
    BY <1>1, <1>2, <2>1
  <2>. QED BY <1>1, <2>1 DEF InBuf
<1>. QED BY <1>1, <1>2, <1>3, <1>4 DEF InBuf

-------------------------------------------------------------------------------
\* A new pool is ConnPool's initial state.
LEMMA RefinesInit == Init => Atomic!PoolInit
<1>. SUFFICES ASSUME Init PROVE Atomic!PoolInit
  OBVIOUS
<1>1. Len(buf) = 0
  BY EmptySeq DEF Init
<1>2. \A c \in Conn : ~InBuf(c) /\ Holders(c) = {} /\ life[c] = "unborn"
  BY <1>1, PoolAssumption DEF Init, InBuf, Holders
<1>. QED BY <1>2 DEF Atomic!PoolInit, Where, Init

\* No socket moves and the field keeps its value: a stuttering step.
LEMMA RefinesSame ==
  ASSUME UNCHANGED <<field, buf, held, life>>
  PROVE  UNCHANGED Atomic!poolVars
BY DEF Atomic!poolVars, Where, InBuf, Holders

\* A borrower's step is a Get, a Dial, a Return, a Discard or no step.
LEMMA RefinesUser ==
  ASSUME Basic, Locking, Owning, Located, Located', NEW u \in User, UserStep(u)
  PROVE  [Atomic!PoolNext]_(Atomic!poolVars)
<1>. USE PoolAssumption DEF Basic, TypeOK, Places
<1>1. CASE GetConns(u) \/ GetRefused(u) \/ MarkUnusable(u) \/ GetClosed(u) \/ GetDefault(u)
             \/ DialFails(u) \/ PutLock(u)
  BY <1>1, RefinesSame
  DEF GetConns, GetRefused, MarkUnusable, GetClosed, GetDefault, DialFails, PutLock, vars,
      userVars
<1>2. CASE GetReceive(u)
  <2>. PICK c \in Conn : c = Head(buf)
    BY <1>2, HeadTailProperties DEF GetReceive
  <2>1. /\ InBuf(c) /\ ~InBuf(c)'
        /\ \A d \in Conn \ {c} : InBuf(d)' <=> InBuf(d)
    BY <1>2, ReceivedBuf DEF GetReceive
  <2>2. held[u] = NoConn /\ held' = [held EXCEPT ![u] = c] /\ UNCHANGED <<field, life>>
    BY <1>2 DEF GetReceive
  <2>3. Where[c] = "idle" /\ Where'[c] = u
    BY <2>1, <2>2 DEF Located
  <2>4. Where' = [Where EXCEPT ![c] = Where'[c]]
    BY <2>1, <2>2, WhereMoves
  <2>5. Atomic!Get(u, c)
    BY <2>2, <2>3, <2>4 DEF Atomic!Get, Atomic!Move
  <2>. QED BY <2>1, <2>5 DEF Atomic!PoolNext
<1>3. CASE DialOK(u)
  <2>1. PICK c \in Conn : /\ life[c] = "unborn" /\ life' = [life EXCEPT ![c] = "open"]
                          /\ held' = [held EXCEPT ![u] = c]
    BY <1>3 DEF DialOK
  <2>2. held[u] = NoConn /\ UNCHANGED <<field, buf>>
    BY <1>3 DEF DialOK
  <2>3. \A d \in Conn : InBuf(d)' <=> InBuf(d)
    BY <2>2 DEF InBuf
  <2>4. ~InBuf(c) /\ Holders(c) = {}
    BY <2>1, LenProperties DEF InBuf, Holders, Owning, LiveSockets
  <2>5. Where[c] = "unborn" /\ Where'[c] = u
    BY <2>1, <2>4 DEF Located
  <2>6. Where' = [Where EXCEPT ![c] = Where'[c]]
    BY <2>1, <2>2, <2>3, WhereMoves
  <2>7. Atomic!Dial(u, c)
    BY <2>2, <2>5, <2>6 DEF Atomic!Dial, Atomic!Move
  <2>. QED BY <2>7 DEF Atomic!PoolNext
<1>4. CASE CloseUnusable(u)
  <2>. PICK c \in Conn : c = held[u]
    BY <1>4 DEF CloseUnusable
  <2>1. c # NoConn
    OBVIOUS
  <2>2. /\ held' = [held EXCEPT ![u] = NoConn] /\ life' = [life EXCEPT ![c] = "closed"]
        /\ UNCHANGED <<field, buf>>
    BY <1>4 DEF CloseUnusable, Discard, CloseConn, LetGo
  <2>3. \A v \in User : held[v] = c => v = u
    BY <2>1 DEF Owning, ExclusiveOwnership
  <2>4. \A d \in Conn : InBuf(d)' <=> InBuf(d)
    BY <2>2 DEF InBuf
  <2>5. Holders(c)' = {}
    BY <2>1, <2>2, <2>3 DEF Holders
  <2>6. Where[c] = u /\ ~InBuf(c)
    BY <2>1 DEF Located
  <2>7. Where'[c] = "closed"
    BY <2>1, <2>2, <2>4, <2>5, <2>6 DEF Located
  <2>8. Where' = [Where EXCEPT ![c] = Where'[c]]
    BY <2>1, <2>2, <2>3, <2>4, WhereMoves
  <2>9. Atomic!Discard(u, c)
    BY <2>2, <2>6, <2>7, <2>8 DEF Atomic!Discard, Atomic!Move
  <2>. QED BY <2>1, <2>9 DEF Atomic!PoolNext
<1>5. CASE PutFinish(u)
  <2>. PICK c \in Conn : c = held[u]
    BY <1>5 DEF PutFinish
  <2>1. c # NoConn /\ snap[u] = field
    BY <1>5 DEF PutFinish, Locking
  <2>2. held' = [held EXCEPT ![u] = NoConn] /\ field' = field
    BY <1>5 DEF PutFinish, LetGo
  <2>3. \A v \in User : held[v] = c => v = u
    BY <2>1 DEF Owning, ExclusiveOwnership
  <2>4. Holders(c)' = {}
    BY <2>1, <2>2, <2>3 DEF Holders
  <2>5. Where[c] = u /\ ~InBuf(c)
    BY <2>1 DEF Located
  <2>6. Atomic!Cardinality(Atomic!Idlers) = Len(buf)
    BY IdlersCounted
  <2>7. CASE snap[u] /\ Room
    <3>1. buf' = Append(buf, c) /\ life' = life
      BY <1>5, <2>7 DEF PutFinish
    <3>2. InBuf(c)' /\ \A d \in Conn \ {c} : InBuf(d)' <=> InBuf(d)
      BY <2>1, <3>1, AppendedBuf
    <3>3. Where'[c] = "idle"
      BY <2>1, <3>2 DEF Located
    <3>4. Where' = [Where EXCEPT ![c] = Where'[c]]
      BY <2>1, <2>2, <2>3, <3>1, <3>2, WhereMoves
    <3>5. field /\ Atomic!Cardinality(Atomic!Idlers) < MaxCap
      BY <2>1, <2>6, <2>7 DEF Room
    <3>6. Atomic!Return(u, c)
      BY <2>2, <2>5, <3>3, <3>4, <3>5 DEF Atomic!Return, Atomic!Move
    <3>. QED BY <2>1, <3>6 DEF Atomic!PoolNext
  <2>8. CASE ~(snap[u] /\ Room)
    <3>1. life' = [life EXCEPT ![c] = "closed"] /\ buf' = buf
      BY <1>5, <2>8 DEF PutFinish, Refuse, CloseConn
    <3>2. \A d \in Conn : InBuf(d)' <=> InBuf(d)
      BY <3>1 DEF InBuf
    <3>3. Where'[c] = "closed"
      BY <2>1, <2>4, <2>5, <3>1, <3>2 DEF Located
    <3>4. Where' = [Where EXCEPT ![c] = Where'[c]]
      BY <2>1, <2>2, <2>3, <3>1, <3>2, WhereMoves
    <3>5. ~(field /\ Atomic!Cardinality(Atomic!Idlers) < MaxCap)
      BY <2>1, <2>6, <2>8 DEF Room
    <3>6. Atomic!Return(u, c)
      BY <2>2, <2>5, <3>3, <3>4, <3>5 DEF Atomic!Return, Atomic!Move
    <3>. QED BY <2>1, <3>6 DEF Atomic!PoolNext
  <2>. QED BY <2>7, <2>8
<1>. QED BY <1>1, <1>2, <1>3, <1>4, <1>5 DEF UserStep, GetStep, ReturnStep

\* A closer's step shuts the pool, drains a socket or does nothing.
LEMMA RefinesCloser ==
  ASSUME Basic, Locking, Owning, Located, Located', NEW k \in AllClosers,
         CloseCall(k) \/ CloseStep(k)
  PROVE  [Atomic!PoolNext]_(Atomic!poolVars)
<1>. USE PoolAssumption DEF Basic, TypeOK
<1>1. CASE CloseCall(k) \/ CloseChan(k) \/ CloseDone(k)
  BY <1>1, RefinesSame DEF CloseCall, CloseChan, CloseDone, userVars
<1>2. CASE CloseSwap(k)
  <2>1. Where' = Where /\ field' = FALSE
    BY <1>2 DEF CloseSwap, userVars, Where, InBuf, Holders
  <2>. QED BY <2>1 DEF Atomic!PoolNext, Atomic!Shut
<1>3. CASE CloseDrain(k)
  <2>. PICK c \in Conn : c = Head(buf)
    BY <1>3, HeadTailProperties DEF CloseDrain
  <2>1. /\ InBuf(c) /\ ~InBuf(c)'
        /\ \A d \in Conn \ {c} : InBuf(d)' <=> InBuf(d)
    BY <1>3, ReceivedBuf DEF CloseDrain
  <2>2. life' = [life EXCEPT ![c] = "closed"] /\ UNCHANGED <<field, held>> /\ ~field
    BY <1>3 DEF CloseDrain, CloseConn, userVars, Locking
  <2>3. Holders(c)' = {}
    BY <2>1, <2>2 DEF Located, Holders
  <2>4. Where[c] = "idle" /\ Where'[c] = "closed"
    BY <2>1, <2>2, <2>3 DEF Located
  <2>5. Where' = [Where EXCEPT ![c] = Where'[c]]
    BY <2>1, <2>2, WhereMoves
  <2>6. Atomic!Drain(c)
    BY <2>2, <2>4, <2>5 DEF Atomic!Drain, Atomic!Move
  <2>. QED BY <2>1, <2>6 DEF Atomic!PoolNext
<1>. QED BY <1>1, <1>2, <1>3 DEF CloseStep

LEMMA RefinesStep ==
  Basic /\ Locking /\ Owning /\ Located /\ Located' /\ [Next]_vars
    => [Atomic!PoolNext]_(Atomic!poolVars)
<1>. SUFFICES ASSUME Basic, Locking, Owning, Located, Located', [Next]_vars
              PROVE  [Atomic!PoolNext]_(Atomic!poolVars)
  OBVIOUS
<1>. USE PoolAssumption DEF Basic, TypeOK
<1>1. CASE FillOne
  <2>1. PICK c \in Conn : /\ life[c] = "unborn" /\ life' = [life EXCEPT ![c] = "open"]
                          /\ buf' = Append(buf, c)
    BY <1>1 DEF FillOne
  <2>2. /\ field /\ Len(buf) < MaxCap /\ UNCHANGED <<field, held>>
    BY <1>1, LenProperties DEF FillOne, userVars, Locking
  <2>3. InBuf(c)' /\ \A d \in Conn \ {c} : InBuf(d)' <=> InBuf(d)
    BY <2>1, AppendedBuf
  <2>4. ~InBuf(c) /\ Holders(c) = {}
    BY <2>1, LenProperties DEF InBuf, Holders, Owning, LiveSockets
  <2>5. Where[c] = "unborn" /\ Where'[c] = "idle"
    BY <2>1, <2>3, <2>4 DEF Located
  <2>6. Where' = [Where EXCEPT ![c] = Where'[c]]
    BY <2>1, <2>2, <2>3, WhereMoves
  <2>7. Atomic!Cardinality(Atomic!Idlers) < MaxCap
    BY <2>2, IdlersCounted
  <2>8. Atomic!Fill(c)
    BY <2>2, <2>5, <2>6, <2>7 DEF Atomic!Fill, Atomic!Move
  <2>. QED BY <2>8 DEF Atomic!PoolNext
<1>2. CASE FillFails \/ FillDone \/ FillFailed \/ UNCHANGED vars
  BY <1>2, RefinesSame DEF FillFails, FillDone, FillFailed, vars, userVars
<1>. QED BY <1>1, <1>2, RefinesUser, RefinesCloser DEF Next

\* Every behaviour of the pool is one of ConnPool, whose operations are atomic.
THEOREM Implements == Spec => AtomicSpec
<1>1. Init => Atomic!PoolInit
  BY RefinesInit
<1>2. Basic /\ Owning => Located
  BY WhereLocated
<1>. QED
  BY <1>1, <1>2, RefinesStep, BasicInit, BasicStep, LockingInit, LockingStep, OwningInit,
     OwningStep, PTL
  DEF Spec, AtomicSpec, Atomic!PoolSpec
===============================================================================
