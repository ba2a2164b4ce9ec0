--------------------------- MODULE MCChppTransport ---------------------------
EXTENDS ChppTransport

CONSTANTS a, b

\* How many datagrams each endpoint sends.
OneWay == [n \in Endpoints |-> IF n = a THEN 2 ELSE 0]
TwoAndOne == [n \in Endpoints |-> IF n = a THEN 2 ELSE 1]

\* How long they are.
Short == [n \in Endpoints |-> {1}]
LongAndShort == [n \in Endpoints |-> IF n = a THEN {2} ELSE {1}]
==============================================================================
