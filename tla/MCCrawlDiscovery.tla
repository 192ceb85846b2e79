------------------------- MODULE MCCrawlDiscovery --------------------------
(* Small instances of CrawlDiscovery for TLC. *)
EXTENDS CrawlDiscovery

CONSTANTS r1, r2

MCRecords == {r1, r2}
============================================================================
