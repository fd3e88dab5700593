----------------------------- MODULE MCServing -----------------------------
EXTENDS Serving

CONSTANTS t1, t2, c1, c2

\* One connection, two runs and two mishaps, or two connections and one of each.
ServingSettings ==
  [signals : BOOLEAN, conns : {{c1}}, runs : {2}, mishaps : {2}]
    \cup [signals : {FALSE}, conns : {{c1, c2}}, runs : {1}, mishaps : {1}]

=============================================================================
