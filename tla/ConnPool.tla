------------------------------- MODULE ConnPool -------------------------------
(***************************************************************************)
(* What the Pool interface of crawler/pool.go promises to the goroutines   *)
(* that borrow discovery sockets from it, every operation in one step: a   *)
(* socket is in one place at a time, a borrower keeps its socket until it  *)
(* gives it back, and a pool that is shut closes the sockets it holds.     *)
(*                                                                         *)
(* Discv5Pool implements this module (Discv5Pool!Atomic), and Crawler is   *)
(* composed with it: its goroutines take and return sockets by the actions *)
(* Get, Dial and Return below.                                             *)
(***************************************************************************)
EXTENDS Naturals, FiniteSets

CONSTANTS Conn,                   \* the sockets a run may create
          User,                   \* the goroutines that borrow them
          MaxCap,                 \* capacity of the pool
          Unborn, Idle, Closed    \* the places of a socket nobody borrowed

ASSUME ConnPoolAssumption ==
  /\ IsFiniteSet(Conn)
  /\ MaxCap \in Nat \ {0}
  /\ Unborn # Idle /\ Idle # Closed /\ Closed # Unborn
  /\ {Unborn, Idle, Closed} \cap User = {}

VARIABLES where,    \* where[c]: Unborn, Idle, Closed or the user of socket c
          open      \* the pool has not been shut

poolVars == <<where, open>>

Idlers == {c \in Conn : where[c] = Idle}

PoolTypeOK ==
  /\ where \in [Conn -> User \cup {Unborn, Idle, Closed}]
  /\ open \in BOOLEAN

PoolInit ==
  /\ where = [c \in Conn |-> Unborn]
  /\ open = TRUE

Move(c, from, to) ==
  /\ where[c] = from
  /\ where' = [where EXCEPT ![c] = to]

\* The constructor adds an initial socket.
Fill(c) ==
  /\ open
  /\ Cardinality(Idlers) < MaxCap
  /\ Move(c, Unborn, Idle)
  /\ UNCHANGED open

\* An idle socket is handed out; even from a pool that was shut while Get ran.
Get(u, c) == Move(c, Idle, u) /\ UNCHANGED open

\* No socket was idle: the factory makes one for the caller.
Dial(u, c) == Move(c, Unborn, u) /\ UNCHANGED open

\* The borrower closes its PoolConn: back to the pool if there is room.
Return(u, c) ==
  /\ Move(c, u, IF open /\ Cardinality(Idlers) < MaxCap THEN Idle ELSE Closed)
  /\ UNCHANGED open

\* The borrower had marked the PoolConn unusable.
Discard(u, c) == Move(c, u, Closed) /\ UNCHANGED open

Shut == open' = FALSE /\ UNCHANGED where

\* The goroutine that shut the pool closes an idle socket.
Drain(c) == ~open /\ Move(c, Idle, Closed) /\ UNCHANGED open

PoolNext ==
  \/ \E c \in Conn : Fill(c) \/ Drain(c)
  \/ \E u \in User, c \in Conn : Get(u, c) \/ Dial(u, c) \/ Return(u, c) \/ Discard(u, c)
  \/ Shut

PoolSpec == PoolInit /\ [][PoolNext]_poolVars
===============================================================================
