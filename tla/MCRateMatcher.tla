--------------------------- MODULE MCRateMatcher ---------------------------
(* Small instances of RateMatcher. *)
EXTENDS RateMatcher

MCConfig(lat, w, r, threaded, look, bypass) ==
    [Latency |-> lat, Bandwidth |-> 2, wPeriod |-> w, rPeriod |-> r,
     threaded |-> threaded, lookahead |-> look, zeroLatencyBypass |-> bypass]

\* The clocks of the unit tests (2 to 1, 3 to 2 and 2 to 3) and equal ones, with
\* drifting threads; the zero latency ports with and
\* without the bypass.
MCClocks == {<<1, 2>>, <<2, 3>>, <<3, 2>>, <<2, 2>>}
MCConfigs ==
    {MCConfig(1, c[1], c[2], TRUE, look, FALSE) : c \in MCClocks, look \in {0, 1, 2}}
    \cup {MCConfig(0, c[1], c[2], threaded, 0, bypass) :
             c \in MCClocks, threaded \in BOOLEAN, bypass \in BOOLEAN}
    \cup {MCConfig(1, 2, 3, FALSE, 0, FALSE)}
=============================================================================
