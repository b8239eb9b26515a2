--------------------------- MODULE MCClockServer ---------------------------
(* Instances of ClockServer: one or two domains, one of them with two skews. *)
EXTENDS ClockServer

CONSTANTS d1, d2, r1, r2, r3, m1, m2, m3, w

\* r1 and r2 are the two skews of domain d1; the rate matcher w is read in r1.
MCregDomain == r1 :> d1 @@ r2 :> d1 @@ r3 :> d2
MCnSkew == r1 :> 0 @@ r2 :> 50 @@ r3 :> 0
MCcbReg == m1 :> r1 @@ m2 :> r2 @@ m3 :> r3 @@ w :> r1

\* d1 keeps frequency 2.  The modules change d2 between 3 and 1, or try to set
\* its third frequency, 0.29f, whose hundredfold is 28.999999.
MCFreqs == d1 :> <<200>> @@ d2 :> <<300, 100, 2899>>
=============================================================================
