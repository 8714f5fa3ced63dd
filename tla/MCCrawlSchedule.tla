--------------------------- MODULE MCCrawlSchedule ---------------------------
(* CrawlSchedule on a small instance: one host with two feeds, another with *)
(* one.                                                                     *)
EXTENDS CrawlSchedule

CONSTANTS a1, a2, b1
\* Enough failures to retire a1.
OneFails == [f \in Feeds |-> IF f = a1 THEN 2 ELSE 0]
\* All but b1 are on one host.
OnHosts == [f \in Feeds |-> IF f = b1 THEN "b" ELSE "a"]
=============================================================================
