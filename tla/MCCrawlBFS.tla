------------------------------ MODULE MCCrawlBFS -------------------------------
(* CrawlBFS with few nodes and small channels. *)
EXTENDS CrawlBFS
===============================================================================
