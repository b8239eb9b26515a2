SPECIFICATION Spec
CONSTANTS
    d1 = d1  d2 = d2  r1 = r1  r2 = r2  r3 = r3
    m1 = m1  m2 = m2  m3 = m3  w = w
    NoDomain = NoDomain  NoRegistry = NoRegistry
    Domain = {d1, d2}
    Registry = {r1, r2, r3}
    Callback = {m1, m2, m3, w}
    WriterRM = {w}
    regDomain <- MCregDomain
    nSkew <- MCnSkew
    cbReg <- MCcbReg
    Freqs <- MCFreqs
    uniqueDomainOptimization = TRUE
    WordMax = 255
    MaxFreq = 12
    MaxFreqs = 3
    MaxCycle = 3
    MaxRestarts = 1
INVARIANTS EventsComplete RatesMatchFrequencies BaseFrequencyExact
PROPERTIES WritersAfterModules ImplementsContract
