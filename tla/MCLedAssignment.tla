--------------------------- MODULE MCLedAssignment ---------------------------
\* Two enabled patterns of three bits and a disabled one, so that each rotation
\* of both occurs; sources on a line of seven places.
EXTENDS LedAssignment

ThreePatterns == <<<<0, 0, 1>>, <<>>, <<0, 1, 1>>>>

\* Far enough apart for the brightest blob.
FarApart ==
  UNION {{at \in [pair -> 0..6] : \A s, t \in pair : s # t => gap(at[s], at[t]) >= 5} :
           pair \in {{1, 3}, {3, LIGHT}}}

\* The two beacons near each other, or changed about.
Crowded == {[s \in {1, 3} |-> IF s = 1 THEN 0 ELSE 1], [s \in {1, 3} |-> IF s = 1 THEN 2 ELSE 1]}
=============================================================================
