------------------------------- MODULE CrawlSpec -------------------------------
(***************************************************************************)
(* What the crawl of crawler/crawler.go promises, apart from channels,     *)
(* goroutines and locks: a node becomes known once; a known node is owed   *)
(* one crawl, a seed one for every first lookup that returned it; and as   *)
(* long as the crawl is neither over nor stuck what is owed is paid.       *)
(***************************************************************************)
EXTENDS Naturals, FiniteSets, Sequences

CONSTANTS Node, Boot

VARIABLES known,  \* the nodes remembered
          owed,   \* owed[n]: the crawls of n whose result is still to come
          over,   \* the time is out or the process is dead
          stuck   \* nobody is left who could crawl a node

crawl == <<known, owed, over, stuck>>

Times(n, s) == Cardinality({i \in 1..Len(s) : s[i] = n})

CrawlInit ==
  /\ known = {n \in Node : Times(n, Boot) > 0}
  /\ owed = [n \in Node |-> Times(n, Boot)]
  /\ over = FALSE /\ stuck = FALSE

Discover(n) ==
  /\ n \notin known /\ known' = known \cup {n}
  /\ owed' = [owed EXCEPT ![n] = 1]
  /\ stuck' \in {stuck, TRUE}
  /\ UNCHANGED over

Deliver(n) ==
  /\ owed[n] > 0 /\ owed' = [owed EXCEPT ![n] = @ - 1]
  /\ UNCHANGED <<known, over, stuck>>

End == ~over /\ over' = TRUE /\ UNCHANGED <<known, owed, stuck>>

\* For good. A node that becomes known may be the one too many.
Stick == ~stuck /\ stuck' = TRUE /\ UNCHANGED <<known, owed, over>>

CrawlNext == End \/ Stick \/ \E n \in Node : Discover(n) \/ Deliver(n)

CrawlSafeSpec == CrawlInit /\ [][CrawlNext]_crawl

CrawlFairSpec ==
  /\ CrawlSafeSpec
  /\ \A n \in Node : WF_crawl(~over /\ ~stuck /\ Deliver(n))
===============================================================================
