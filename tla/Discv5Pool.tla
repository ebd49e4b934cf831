------------------------------ MODULE Discv5Pool ------------------------------
(***************************************************************************)
(* The pool of discovery sockets, crawler/pool.go, step by step: the       *)
(* buffered channel c.conns, the read-write lock around the field that     *)
(* holds it, and the windows between reading the field and using the       *)
(* channel. A goroutine of User borrows a socket with Get and gives it     *)
(* back once with PoolConn.Close (Crawler.crawlZeus defers that call).     *)
(* Close may be called by several goroutines, Closer, and NewChannelPool   *)
(* calls it itself, as Ctor, when the factory fails.                       *)
(***************************************************************************)
EXTENDS Integers, Sequences, FiniteSets

CONSTANTS Conn,         \* the sockets (*discover.UDPv5) a run may create
          User,         \* goroutines that borrow a socket
          Closer,       \* goroutines that call Discv5Pool.Close
          Ctor,         \* the goroutine inside NewChannelPool
          InitialCap, MaxCap,
          NoConn

\* The capacities are those NewChannelPool accepts (pool.go:51).
ASSUME PoolAssumption ==
  /\ IsFiniteSet(Conn) /\ NoConn \notin Conn
  /\ {"unborn", "idle", "closed"} \cap User = {}
  /\ Ctor \notin Closer
  /\ InitialCap \in Nat /\ MaxCap \in Nat \ {0} /\ InitialCap <= MaxCap

VARIABLES
  field,      \* c.conns # nil; c.factory is set and cleared with it
  buf,        \* the sockets in the buffer of the channel
  bufClosed,  \* close(conns) has run
  readers,    \* the users that hold c.mu.RLock inside put
  life,       \* life[c]: "unborn", "open" or "closed"
  pc,         \* pc[u]: where user u is
  held,       \* held[u]: the socket in the PoolConn of user u, or NoConn
  snap,       \* snap[u]: user u read a non-nil c.conns
  unusable,   \* unusable[u]: MarkUnusable was called on that PoolConn
  cpc,        \* cpc[k]: where the call of Close by goroutine k is
  filling     \* NewChannelPool has not returned

userVars == <<pc, held, snap, unusable>>
vars == <<field, buf, bufClosed, readers, life, userVars, cpc, filling>>

AllClosers == Closer \cup {Ctor}
UserPC   == {"idle", "get", "dial", "using", "put"}
CloserPC == {"idle", "lock", "close", "drain", "done"}

TypeOK ==
  /\ field \in BOOLEAN /\ bufClosed \in BOOLEAN /\ filling \in BOOLEAN
  /\ buf \in Seq(Conn) /\ Len(buf) <= MaxCap
  /\ readers \subseteq User
  /\ life \in [Conn -> {"unborn", "open", "closed"}]
  /\ pc \in [User -> UserPC]
  /\ held \in [User -> Conn \cup {NoConn}]
  /\ snap \in [User -> BOOLEAN]
  /\ unusable \in [User -> BOOLEAN]
  /\ cpc \in [AllClosers -> CloserPC]

Init ==
  /\ field = TRUE /\ buf = <<>> /\ bufClosed = FALSE /\ readers = {}
  /\ life = [c \in Conn |-> "unborn"]
  /\ pc = [u \in User |-> "idle"]
  /\ held = [u \in User |-> NoConn]
  /\ snap = [u \in User |-> FALSE]
  /\ unusable = [u \in User |-> FALSE]
  /\ cpc = [k \in AllClosers |-> "idle"]
  /\ filling = TRUE

-------------------------------------------------------------------------------
(* NewChannelPool: nobody else has the pool yet. *)

\* factory() succeeds and its socket goes into the channel.
FillOne ==
  /\ filling /\ Len(buf) < InitialCap /\ cpc[Ctor] = "idle"
  /\ \E c \in Conn :
       /\ life[c] = "unborn"
       /\ life' = [life EXCEPT ![c] = "open"]
       /\ buf' = Append(buf, c)
  /\ UNCHANGED <<field, bufClosed, readers, userVars, cpc, filling>>

\* factory() fails: the constructor closes what it has made and returns nil.
FillFails ==
  /\ filling /\ Len(buf) < InitialCap /\ cpc[Ctor] = "idle"
  /\ cpc' = [cpc EXCEPT ![Ctor] = "lock"]
  /\ UNCHANGED <<field, buf, bufClosed, readers, life, userVars, filling>>

FillDone ==
  /\ filling /\ Len(buf) = InitialCap /\ cpc[Ctor] = "idle"
  /\ filling' = FALSE
  /\ UNCHANGED <<field, buf, bufClosed, readers, life, userVars, cpc>>

\* NewChannelPool has returned nil and an error: nobody ever has this pool.
FillFailed ==
  /\ filling /\ cpc[Ctor] = "done"
  /\ UNCHANGED vars

-------------------------------------------------------------------------------
(* The read-write lock. A pending Lock keeps new readers out. *)

MayRLock == \A k \in AllClosers : cpc[k] # "lock"

\* Variant: Close swaps the field with RLock's exclusion forgotten.
MayLockAlways == TRUE

MayLock == readers = {}

-------------------------------------------------------------------------------
(* Get. *)

\* getConnsAndFactory, under RLock; the channel is used after RUnlock.
GetConns(u) ==
  /\ ~filling /\ pc[u] = "idle" /\ MayRLock /\ field
  /\ pc' = [pc EXCEPT ![u] = "get"]
  /\ UNCHANGED <<field, buf, bufClosed, readers, life, held, snap, unusable, cpc, filling>>

\* The same on a closed pool: ErrClosed, and nothing has changed.
GetRefused(u) ==
  /\ ~filling /\ pc[u] = "idle" /\ MayRLock /\ ~field
  /\ UNCHANGED vars

\* conn := <-conns yields a socket, also when the channel is closed meanwhile.
GetReceive(u) ==
  /\ pc[u] = "get" /\ buf # <<>>
  /\ held' = [held EXCEPT ![u] = Head(buf)]
  /\ buf' = Tail(buf)
  /\ pc' = [pc EXCEPT ![u] = "using"]
  /\ UNCHANGED <<field, bufClosed, readers, life, snap, unusable, cpc, filling>>

\* conn == nil from the closed and drained channel: ErrClosed.
GetClosed(u) ==
  /\ pc[u] = "get" /\ buf = <<>> /\ bufClosed
  /\ pc' = [pc EXCEPT ![u] = "idle"]
  /\ UNCHANGED <<field, buf, bufClosed, readers, life, held, snap, unusable, cpc, filling>>

\* The default case: no socket in the channel, so call the factory.
GetDefault(u) ==
  /\ pc[u] = "get" /\ buf = <<>> /\ ~bufClosed
  /\ pc' = [pc EXCEPT ![u] = "dial"]
  /\ UNCHANGED <<field, buf, bufClosed, readers, life, held, snap, unusable, cpc, filling>>

\* The factory makes a socket, whatever happened to the pool meanwhile.
DialOK(u) ==
  /\ pc[u] = "dial"
  /\ \E c \in Conn :
       /\ life[c] = "unborn"
       /\ life' = [life EXCEPT ![c] = "open"]
       /\ held' = [held EXCEPT ![u] = c]
  /\ pc' = [pc EXCEPT ![u] = "using"]
  /\ UNCHANGED <<field, buf, bufClosed, readers, snap, unusable, cpc, filling>>

DialFails(u) ==
  /\ pc[u] = "dial"
  /\ pc' = [pc EXCEPT ![u] = "idle"]
  /\ UNCHANGED <<field, buf, bufClosed, readers, life, held, snap, unusable, cpc, filling>>

-------------------------------------------------------------------------------
(* The borrower's end: PoolConn.MarkUnusable and PoolConn.Close. *)

MarkUnusable(u) ==
  /\ pc[u] = "using"
  /\ unusable' = [unusable EXCEPT ![u] = TRUE]
  /\ UNCHANGED <<field, buf, bufClosed, readers, life, pc, held, snap, cpc, filling>>

\* Variant: the caller keeps using the PoolConn it has closed.
KeepHold(u) ==
  /\ pc' = [pc EXCEPT ![u] = "using"]
  /\ UNCHANGED <<held, unusable>>

\* The PoolConn is gone: its next Get wraps a socket anew (wrapConn).
LetGo(u) ==
  /\ held' = [held EXCEPT ![u] = NoConn]
  /\ unusable' = [unusable EXCEPT ![u] = FALSE]
  /\ pc' = [pc EXCEPT ![u] = "idle"]

CloseConn(c) == life' = [life EXCEPT ![c] = "closed"]

\* Variant: the socket is dropped and never closed.
ForgetConn(c) == UNCHANGED life

\* A socket put has no use for: the pool is closed or full.
Refuse(c) == CloseConn(c)

\* Variant: the socket of an unusable PoolConn goes back to the channel too.
CloseAndKeep(c) == CloseConn(c) /\ buf' = Append(buf, c)

\* The socket of an unusable PoolConn.
Discard(c) == CloseConn(c) /\ UNCHANGED buf

\* PoolConn.Close of an unusable socket closes it.
CloseUnusable(u) ==
  /\ pc[u] = "using" /\ unusable[u]
  /\ Discard(held[u])
  /\ LetGo(u)
  /\ UNCHANGED <<field, bufClosed, readers, snap, cpc, filling>>

\* PoolConn.Close calls put, which takes RLock and reads c.conns under it.
PutLock(u) ==
  /\ pc[u] = "using" /\ ~unusable[u] /\ MayRLock
  /\ readers' = readers \cup {u}
  /\ snap' = [snap EXCEPT ![u] = field]
  /\ pc' = [pc EXCEPT ![u] = "put"]
  /\ UNCHANGED <<field, buf, bufClosed, life, held, unusable, cpc, filling>>

\* Variant: one socket more than the channel's capacity.
RoomPlusOne == Len(buf) <= MaxCap

Room == Len(buf) < MaxCap

\* put ends: send to the channel it read, or close the socket when the pool is
\* closed or full; then RUnlock. Sending to a closed channel would panic.
PutFinish(u) ==
  /\ pc[u] = "put"
  /\ IF snap[u] /\ Room
     THEN buf' = Append(buf, held[u]) /\ UNCHANGED life
     ELSE Refuse(held[u]) /\ UNCHANGED buf
  /\ readers' = readers \ {u}
  /\ LetGo(u)
  /\ UNCHANGED <<field, bufClosed, snap, cpc, filling>>

-------------------------------------------------------------------------------
(* Close. *)

CloseCall(k) ==
  /\ ~filling /\ k # Ctor /\ cpc[k] = "idle"
  /\ cpc' = [cpc EXCEPT ![k] = "lock"]
  /\ UNCHANGED <<field, buf, bufClosed, readers, life, userVars, filling>>

\* Under Lock: take the channel and leave nil. A second Close finds nil.
CloseSwap(k) ==
  /\ cpc[k] = "lock" /\ MayLock
  /\ field' = FALSE
  /\ cpc' = [cpc EXCEPT ![k] = IF field THEN "close" ELSE "done"]
  /\ UNCHANGED <<buf, bufClosed, readers, life, userVars, filling>>

CloseChan(k) ==
  /\ cpc[k] = "close"
  /\ bufClosed' = TRUE
  /\ cpc' = [cpc EXCEPT ![k] = "drain"]
  /\ UNCHANGED <<field, buf, readers, life, userVars, filling>>

\* for conn := range conns { conn.Close() }
CloseDrain(k) ==
  /\ cpc[k] = "drain" /\ buf # <<>>
  /\ CloseConn(Head(buf))
  /\ buf' = Tail(buf)
  /\ UNCHANGED <<field, bufClosed, readers, userVars, cpc, filling>>

\* Variant: the drain stops early.
DrainedAny == TRUE

Drained == buf = <<>>

CloseDone(k) ==
  /\ cpc[k] = "drain" /\ Drained
  /\ cpc' = [cpc EXCEPT ![k] = "done"]
  /\ UNCHANGED <<field, buf, bufClosed, readers, life, userVars, filling>>

-------------------------------------------------------------------------------
GetStep(u) ==
  \/ GetReceive(u) \/ GetClosed(u) \/ GetDefault(u) \/ DialOK(u) \/ DialFails(u)
ReturnStep(u) == CloseUnusable(u) \/ PutLock(u) \/ PutFinish(u)
UserStep(u) == GetConns(u) \/ GetRefused(u) \/ MarkUnusable(u) \/ GetStep(u) \/ ReturnStep(u)
CloseStep(k) == CloseSwap(k) \/ CloseChan(k) \/ CloseDrain(k) \/ CloseDone(k)

Next ==
  \/ FillOne \/ FillFails \/ FillDone \/ FillFailed
  \/ \E u \in User : UserStep(u)
  \/ \E k \in AllClosers : CloseCall(k) \/ CloseStep(k)

Spec == Init /\ [][Next]_vars

\* A running goroutine is scheduled, the lock queues its waiters, and a borrower
\* does give its socket back: crawlZeus ends by its timeout and defers Close.
\* Nothing forces a goroutine to borrow again or to call Close.
Fairness ==
  /\ \A u \in User : WF_vars(GetStep(u)) /\ WF_vars(ReturnStep(u))
  /\ \A k \in AllClosers : WF_vars(CloseStep(k))

FairSpec == Spec /\ Fairness

-------------------------------------------------------------------------------
(* Properties. *)

Holders(c) == {u \in User : held[u] = c}
InBuf(c) == \E i \in 1..Len(buf) : buf[i] = c

\* put never sends to a channel that Close has closed: that would panic
\* (pool.go:129 against pool.go:149). The lock is held across read and send.
NoSendOnClosed == \A u \in User : pc[u] = "put" /\ snap[u] => ~bufClosed

\* A socket is borrowed by one goroutine or sits once in the channel, so two
\* crawls never share a socket and no socket is closed twice.
ExclusiveOwnership ==
  /\ \A i, j \in 1..Len(buf) : buf[i] = buf[j] => i = j
  /\ \A u, v \in User : held[u] = held[v] /\ held[u] # NoConn => u = v
  /\ \A u \in User, i \in 1..Len(buf) : held[u] # buf[i]

\* A socket in use or waiting to be used is open: Close, which closes every
\* idle socket, closes none under the goroutine that borrowed it.
LiveSockets ==
  /\ \A u \in User : held[u] # NoConn => life[held[u]] = "open"
  /\ \A i \in 1..Len(buf) : life[buf[i]] = "open"

\* No open socket is lost: it is in the channel, or some goroutine has it.
NoLostSocket ==
  \A c \in Conn : life[c] = "open" => InBuf(c) \/ Holders(c) # {}

\* Once the pool is closed, a socket left in the channel still has a Close on
\* its way to it: none arrives behind the back of the drain (pool.go:150).
NoStrandedSocket ==
  ~field /\ buf # <<>> => \E k \in AllClosers : cpc[k] \in {"close", "drain"}

\* A pool that is closed ends up with every socket closed, the borrowed ones
\* and those the factory makes late for a Get that read c.conns before.
ClosedPoolReleasesAll ==
  ~field ~> [](\A c \in Conn : life[c] # "open")

-------------------------------------------------------------------------------
(* The pool implements ConnPool. *)

Where ==
  [c \in Conn |-> IF InBuf(c) THEN "idle"
                  ELSE IF Holders(c) # {} THEN CHOOSE u \in User : held[u] = c
                  ELSE life[c]]

Atomic == INSTANCE ConnPool WITH
  Unborn <- "unborn", Idle <- "idle", Closed <- "closed", open <- field, where <- Where

\* Every step of the pool is one atomic operation of ConnPool, or none.
AtomicSpec == Atomic!PoolSpec
===============================================================================
