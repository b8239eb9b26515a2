--------------------------- MODULE BaseFrequency ---------------------------
(***************************************************************************)
(* How InitClockServer computes the base frequency Bf: the least common    *)
(* multiple of the normalized frequencies of all clock domains, folded     *)
(* with lcm() over unsigned words, with gcd() as Euclid's loop.            *)
(***************************************************************************)
EXTENDS Integers, Sequences, SequencesExt

CONSTANTS
    WordMax,     \* largest word (UINT64_MAX in the code)
    MaxFreq,     \* bound: largest normalized frequency of ExactIfRepresentable
    MaxFreqs     \* bound: how many frequencies it folds

ASSUME FrequencyConstants ==
    WordMax \in Nat \ {0} /\ MaxFreq \in 1..WordMax /\ MaxFreqs \in Nat

Word == 0..WordMax

\* The result of an lcm() whose VERIFY has ended the program.
Overflow == 0

\* The loop of gcd.
gcd[p \in Word \X Word] == IF p[2] = 0 THEN p[1] ELSE gcd[<<p[2], p[1] % p[2]>>]

\* Arithmetic on unsigned words.
Wrap(n) == n % (WordMax + 1)

\* Mutant: the product of the operands is tested, common factors included.
LcmOverflowsEarly(a, b) == b > WordMax \div a

\* The test of lcm: a / gcd times b / gcd, without the factor gcd.
LcmOverflows(a, b) == b \div gcd[<<a, b>>] > WordMax \div (a \div gcd[<<a, b>>])

lcm(a, b) ==
    IF a = Overflow \/ LcmOverflows(a, b) THEN Overflow
    ELSE Wrap(Wrap((a \div gcd[<<a, b>>]) * (b \div gcd[<<a, b>>])) * gcd[<<a, b>>])

\* Bf for the frequencies of all domains, in the order of the domains.
BaseFrequencyOf(freqs) ==
    LET folded[n \in 0..Len(freqs)] == IF n = 0 THEN 1 ELSE lcm(folded[n - 1], freqs[n])
    IN  folded[Len(freqs)]
-----------------------------------------------------------------------------
(* Properties *)

CommonMultiples(freqs) == {m \in 1..WordMax : \A i \in DOMAIN freqs : m % freqs[i] = 0}

\* As long as the least common multiple of the frequencies fits in a word, Bf
\* is that multiple and the overflow VERIFY of lcm stays silent; so it is for
\* whatever part of the frequencies has been folded.
ExactIfRepresentable ==
    \A freqs \in UNION {[1..n -> 1..MaxFreq] : n \in 0..MaxFreqs} :
        LET common == CommonMultiples(freqs)
        IN  common # {} => /\ BaseFrequencyOf(freqs) \in common
                           /\ \A m \in common : BaseFrequencyOf(freqs) <= m
=============================================================================
