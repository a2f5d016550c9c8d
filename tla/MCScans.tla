------------------------------- MODULE MCScans --------------------------------
(* Scans for TLC: two databases, a hash, a set and a sorted set, a prefix    *)
(* with a key before and one behind it.                                      *)
EXTENDS Scans

TwoTypes == <<"k", "h">>

Everything == [prefix |-> 0, matches |-> Keys]
Prefix == [prefix |-> 2, matches |-> {2}]
Glob == [prefix |-> 0, matches |-> {1}]

Scan(dtype, count, pattern) ==
  [op |-> "Scan", dtype |-> dtype, count |-> count, pattern |-> pattern]

Inside(op, place, count, pattern) ==
  [op |-> op, place |-> place, count |-> count, pattern |-> pattern]

Between(op, place, from, to) ==
  [op |-> op, place |-> place, count |-> 1, pattern |-> Everything, from |-> from, to |-> to]

SomeRequests ==
  {Scan(All, 1, Everything), Scan(All, 2, Everything), Scan(All, 1, Prefix),
   Scan("h", 1, Glob),
   Inside("HScan", 3, 1, Everything), Inside("HScan", 3, 2, Everything),
   Inside("SScan", 4, 1, Glob),
   Inside("ZScan", 5, 1, Prefix),
   Between("PKScanRange", 2, 0, 2), Between("PKRScanRange", 2, 3, 0),
   Between("HScanx", 3, 0, 0), Between("PKHScanRange", 3, 2, 3),
   Between("PKHRScanRange", 3, 0, 2)}

\* Low digit first, 4 is 0010, 5 is 1010; 2, which is 0100, lies between them,
\* and 3, which is 1100, does not.
Versioned(v) ==
  [c \in Collections |-> [present |-> 4, left |-> IF c = 3 THEN {v} ELSE {}]]

\* Full, with a dead record among and before live ones; with gaps, and empty.
SomeContents ==
  {[db |-> << <<"live", "live", "live">>, <<"dead", "live", "live">>,
              <<"live", "live", "live">>, <<"live", "none", "live">>,
              <<"live", "live", "live">> >>,
    versions |-> Versioned(3)],
   [db |-> << <<"live", "dead", "live">>, <<"none", "none", "none">>,
              <<"none", "live", "live">>, <<"none", "live", "none">>,
              <<"none", "none", "none">> >>,
    versions |-> Versioned(2)]}
=============================================================================
