------------------------------ MODULE MCCrawler -------------------------------
(***************************************************************************)
(* Crawler on small networks. The seeds are a sequence, which a .cfg file  *)
(* cannot write down, so they are chosen here.                             *)
(***************************************************************************)
EXTENDS Crawler, TLC

CONSTANTS n1

OneSeed   == <<n1>>
TwoLookups == <<n1, n1>>

\* Every node that is found is unknown at that time, as in a large network.
NewsOnly ==
  /\ \A u \in User : todo'[u] \subseteq todo[u] \cup (Node \ Cache)
  /\ \A s \in Disc : snode'[s] \in {snode[s], NoNode} \cup (Node \ Cache)

\* The crawl while the time is not out; a service that starts late is one that finds
\* late. Once the time is out or the process dead, CrawlImplemented asks for no
\* delivery any more, and that the steps are steps of CrawlSpec is CrawlRefines.
LongNext ==
  /\ Next /\ UNCHANGED <<proc, ctxDone>>
  /\ \A s \in Disc : spc'[s] # "start"
  /\ NewsOnly
LongCrawl == Init /\ [][LongNext]_vars /\ Fairness

\* Goroutine slots are alike, and so are sockets. For the safety runs only.
Alike == Permutations(User) \cup Permutations(Conn)
===============================================================================
