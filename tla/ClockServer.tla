---------------------------- MODULE ClockServer ----------------------------
(***************************************************************************)
(* The clock server of clockserver.cpp without worker threads: creation of *)
(* clock domains, registration of clocks and rate matchers, the time-event *)
(* list, and the three clocking loops that run in the caller's thread      *)
(* (Clock, UniqueDomainClock and RandomClock).                             *)
(*                                                                         *)
(* Every callback is a step of its own, because a module may change the    *)
(* frequency of a domain while a cycle is being clocked.  A frequency is   *)
(* a float in the code; here it is counted in hundredths of the normalized *)
(* unit, rounded down, so that 2899 is 0.29f (0.28999999).                 *)
(***************************************************************************)
EXTENDS BaseFrequency, FiniteSetsExt

CONSTANTS
    Domain,       \* clock domains
    Registry,     \* clock registries: a domain and a skew
    NoDomain, NoRegistry,      \* NULL
    regDomain,    \* domain of each registry
    nSkew,        \* skew of each registry, in percent of its period
    Callback,     \* callbacks of modules and writer rate matchers
    cbReg,        \* registry of each callback
    WriterRM,     \* the callbacks of the writer rate matchers
    Freqs,        \* allowed frequencies of each domain, the initial one first
    uniqueDomainOptimization,
    MaxCycle,     \* bound: Clock() is not called past this cycle of the next registry
    MaxRestarts   \* bound: how often the server is initialised again

ASSUME ClockServerConstants ==
    /\ NoDomain \notin Domain /\ NoRegistry \notin Registry
    /\ regDomain \in [Registry -> Domain]
    /\ nSkew \in [Registry -> 0..99]
    /\ cbReg \in [Callback -> Registry] /\ WriterRM \subseteq Callback
    /\ \A r \in Registry : \E c \in Callback \ WriterRM : cbReg[c] = r
    /\ \A r, s \in Registry : regDomain[r] = regDomain[s] /\ nSkew[r] = nSkew[s] => r = s
    /\ \A d \in Domain : Freqs[d] \in Seq(Nat \ (0..99)) /\ Freqs[d] # <<>>
    \* all frequencies, rounded, have a common multiple that fits in a word
    /\ \E m \in 1..WordMax :
          \A d \in Domain : \A i \in DOMAIN Freqs[d] : m % ((Freqs[d][i] + 50) \div 100) = 0
    /\ uniqueDomainOptimization \in BOOLEAN
    /\ MaxCycle \in Nat /\ MaxRestarts \in Nat

VARIABLES
    pc,                 \* "config", "idle", "modules", "writers" or "failed"
    restarts,
    RandomClocking,     \* random_seed > 0
    \* the clock domains
    lDomain,            \* domains in the order of their creation
    currentFrequency,   \* of each domain
    lClock,             \* registries of each domain
    \* the clock registries
    lModules, lWriterRM,       \* their callbacks
    nFrequency, nStep, nBaseCycle, nCycle,
    lrateWriter,        \* writer rate matchers waiting to be connected
    \* reference clocks
    referenceClockDomain, referenceClockRegitry, firstClockRegitry,
    \* the clocking loops
    uniqueClockDomain,
    lTimeEvents,        \* registries, the earliest first
    lClockedEvents,     \* registries clocked by this Clock()
    currentBaseCycle,   \* base cycle of this Clock()
    it,                 \* iterator of the loop over the registries
    toCall,             \* callbacks of the current registry still to be called
    mayChange,          \* the module just called may change a frequency
    internalBaseCycle,
    \* the callbacks
    currentCycle,       \* cycle number passed to the last call
    calls,              \* number of calls (history)
    changed             \* has a frequency been changed? (history)

domainVars    == <<RandomClocking, lDomain, currentFrequency>>
listVars      == <<lClock, lModules, lrateWriter>>
stepVars      == <<nFrequency, nStep>>
timeVars      == <<nBaseCycle, nCycle>>
referenceVars == <<referenceClockDomain, referenceClockRegitry, firstClockRegitry>>
loopVars      == <<lTimeEvents, lClockedEvents, currentBaseCycle, it, toCall>>
callVars      == <<currentCycle, calls>>
cbVars        == <<callVars, changed>>
vars == <<pc, restarts, domainVars, listVars, lWriterRM, stepVars, timeVars, referenceVars,
          uniqueClockDomain, loopVars, mayChange, internalBaseCycle, cbVars>>

-----------------------------------------------------------------------------
(* Frequencies and base cycles *)

\* NewClockDomain rounds a frequency to the closest integer ...
Normalized(f) == (f + 50) \div 100

\* ... and SetDomainFrequency truncates it.
Truncated(f) == f \div 100

normalizedFrequencies(d) == {Normalized(Freqs[d][i]) : i \in DOMAIN Freqs[d]}

\* Mutant: the fastest initial frequency is taken for the base frequency.
BfFastest == Max({currentFrequency[d] : d \in ToSet(lDomain)})

\* The base frequency of all frequencies of the created domains.
Bf == BaseFrequencyOf(FlattenSeq(
          [i \in DOMAIN lDomain |->
              [j \in DOMAIN Freqs[lDomain[i]] |-> Normalized(Freqs[lDomain[i]][j])]]))

\* The VERIFY of SetDomainFrequency.
IsAllowed(d, norm) == norm \in normalizedFrequencies(d)

\* A period, and a skew in percent of it.  Base cycles count 100 to the cycle
\* of the base frequency.
StepOf(freq) == (Bf \div freq) * 100
SkewTime(r, freq) == (nSkew[r] * Bf) \div freq

-----------------------------------------------------------------------------
(* The time-event list *)

\* AddTimeEvent: the registry goes before the first one that is due later.
AddTimeEvent(events, base, r) ==
    LET i == CHOOSE k \in 1..Len(events) + 1 :
                /\ k <= Len(events) => base[events[k]] > base[r]
                /\ \A j \in 1..k - 1 : base[events[j]] <= base[r]
    IN  InsertAt(events, i, r)

\* The registries, domain by domain.
Registered == FlattenSeq([i \in 1..Len(lDomain) |-> lClock[lDomain[i]]])

AddAll(events, base) ==
    LET added[n \in 0..Len(Registered)] ==
            IF n = 0 THEN events ELSE AddTimeEvent(added[n - 1], base, Registered[n])
    IN  added[Len(Registered)]

\* Mutant: the events of the previous initialisation stay in the list.
InitialEventsKept(base) == AddAll(lTimeEvents, base)

\* The list InitClockServer builds, registry by registry.
InitialEvents(base) == AddAll(<<>>, base)

Init ==
    /\ pc = "config" /\ restarts = 0 /\ RandomClocking = FALSE
    /\ lDomain = <<>>
    /\ currentFrequency = [d \in Domain |-> 0]
    /\ lClock = [d \in Domain |-> <<>>]
    /\ lModules = [r \in Registry |-> <<>>]
    /\ lWriterRM = [r \in Registry |-> <<>>]
    /\ nFrequency = [r \in Registry |-> 0]
    /\ nStep = [r \in Registry |-> 0]
    /\ nBaseCycle = [r \in Registry |-> 0]
    /\ nCycle = [r \in Registry |-> 0]
    /\ lrateWriter = <<>>
    /\ referenceClockDomain = NoDomain
    /\ referenceClockRegitry = NoRegistry
    /\ firstClockRegitry = NoRegistry
    /\ uniqueClockDomain = FALSE
    /\ lTimeEvents = <<>> /\ lClockedEvents = <<>>
    /\ currentBaseCycle = 0 /\ it = 0 /\ toCall = <<>> /\ mayChange = FALSE
    /\ internalBaseCycle = 0
    /\ currentCycle = [c \in Callback |-> 0]
    /\ calls = [c \in Callback |-> 0]
    /\ changed = FALSE

-----------------------------------------------------------------------------
(* Configuration *)

NewClockDomain(d) ==
    /\ pc = "config" /\ d \notin ToSet(lDomain)
    /\ lDomain' = Append(lDomain, d)
    /\ currentFrequency' = [currentFrequency EXCEPT ![d] = Normalized(Freqs[d][1])]
    /\ UNCHANGED <<pc, restarts, RandomClocking, listVars, lWriterRM, stepVars, timeVars,
                   referenceVars, uniqueClockDomain, loopVars, mayChange, internalBaseCycle, cbVars>>

\* A random seed may be set between two clocks too.
SetRandomClockingSeed(on) ==
    /\ pc \in {"config", "idle"} /\ RandomClocking # on
    /\ RandomClocking' = on
    /\ UNCHANGED <<pc, restarts, lDomain, currentFrequency, listVars, lWriterRM, stepVars, timeVars,
                   referenceVars, uniqueClockDomain, loopVars, mayChange, internalBaseCycle, cbVars>>

\* A module is registered; the first one of a domain and skew creates the
\* registry, at the current frequency of the domain.
RegisterClock(c) ==
    LET r == cbReg[c]
        d == regDomain[r]
        new == r \notin ToSet(lClock[d])
    IN  /\ pc = "config" /\ d \in ToSet(lDomain)
        /\ c \notin WriterRM /\ c \notin ToSet(lModules[r])
        /\ lModules' = [lModules EXCEPT ![r] = Append(@, c)]
        /\ \/ /\ new
              /\ lClock' = [lClock EXCEPT ![d] = Append(@, r)]
              /\ nFrequency' = [nFrequency EXCEPT ![r] = currentFrequency[d]]
              /\ nStep' = [nStep EXCEPT ![r] = 0]
              /\ nBaseCycle' = [nBaseCycle EXCEPT ![r] = 0]
              /\ nCycle' = [nCycle EXCEPT ![r] = 0]
              /\ firstClockRegitry' = IF firstClockRegitry = NoRegistry THEN r ELSE firstClockRegitry
           \/ ~new /\ UNCHANGED <<lClock, stepVars, timeVars, firstClockRegitry>>
        /\ UNCHANGED <<pc, restarts, domainVars, lWriterRM, lrateWriter, referenceClockDomain,
                       referenceClockRegitry, uniqueClockDomain, loopVars, mayChange,
                       internalBaseCycle, cbVars>>

RegisterRateMatcherWriter(w) ==
    /\ pc = "config" /\ w \in WriterRM /\ w \notin ToSet(lrateWriter)
    /\ lrateWriter' = Append(lrateWriter, w)
    /\ UNCHANGED <<pc, restarts, domainVars, lClock, lModules, lWriterRM, stepVars, timeVars,
                   referenceVars, uniqueClockDomain, loopVars, mayChange, internalBaseCycle,
                   cbVars>>

\* The VERIFYs: the domain exists and has a registry.
SetReferenceClockDomain(d) ==
    /\ pc = "config" /\ d \in ToSet(lDomain) /\ lClock[d] # <<>>
    /\ referenceClockDomain' = d
    /\ referenceClockRegitry' = Head(lClock[d])
    /\ UNCHANGED <<pc, restarts, domainVars, listVars, lWriterRM, stepVars, timeVars,
                   firstClockRegitry, uniqueClockDomain, loopVars, mayChange,
                   internalBaseCycle, cbVars>>

\* All the clocks of the created domains have been registered, and no others.
Configured ==
    /\ lDomain # <<>>
    /\ \A c \in Callback :
          regDomain[cbReg[c]] \in ToSet(lDomain) <=>
              c \in ToSet(lrateWriter) \cup ToSet(lModules[cbReg[c]])

AllRegistries == {r \in Registry : r \in ToSet(lClock[regDomain[r]])}

\* The default reference clock is set if there is no reference domain.
DefaultReference ==
    \/ /\ referenceClockDomain = NoDomain
       /\ lClock[Head(lDomain)] # <<>>
       /\ referenceClockDomain' = Head(lDomain)
       /\ referenceClockRegitry' = Head(lClock[Head(lDomain)])
    \/ /\ referenceClockDomain # NoDomain
       /\ UNCHANGED <<referenceClockDomain, referenceClockRegitry>>

\* The writer rate matchers of a registry, and those that are read in it.
Connected(r) ==
    LET upTo[n \in 0..Len(lrateWriter)] ==
            IF n = 0 THEN lWriterRM[r]
            ELSE IF cbReg[lrateWriter[n]] = r THEN Append(upTo[n - 1], lrateWriter[n])
            ELSE upTo[n - 1]
    IN  upTo[Len(lrateWriter)]

\* The writer rate matchers join the registries of their readers, every
\* registry gets its step and its first base cycle, and the event list is
\* built.  nCycle keeps its value.
InitClockServer ==
    /\ pc = "config" /\ Configured
    /\ DefaultReference
    /\ lWriterRM' = [r \in Registry |-> Connected(r)]
    /\ nStep' = [r \in Registry |-> IF r \in AllRegistries THEN StepOf(nFrequency[r]) ELSE nStep[r]]
    /\ nBaseCycle' = [r \in Registry |->
                        IF r \in AllRegistries THEN SkewTime(r, nFrequency[r]) ELSE nBaseCycle[r]]
    /\ lTimeEvents' = InitialEvents(nBaseCycle')
    /\ uniqueClockDomain' = (Len(lDomain) <= 1 /\ uniqueDomainOptimization)
    /\ internalBaseCycle' = 0
    /\ pc' = "idle"
    /\ UNCHANGED <<restarts, domainVars, listVars, nFrequency, nCycle, firstClockRegitry, lClockedEvents,
                   currentBaseCycle, it, toCall, mayChange, cbVars>>

\* The registries are deleted; the domains stay, with their frequencies.  The
\* modules are deleted too, and new ones will be registered.
UnregisterAll ==
    /\ pc = "idle" /\ restarts < MaxRestarts
    /\ restarts' = restarts + 1
    /\ pc' = "config"
    /\ referenceClockRegitry' = NoRegistry
    /\ firstClockRegitry' = NoRegistry
    /\ lClock' = [d \in Domain |-> <<>>]
    /\ lModules' = [r \in Registry |-> <<>>]
    /\ lWriterRM' = [r \in Registry |-> <<>>]
    /\ lrateWriter' = <<>>
    /\ currentCycle' = [c \in Callback |-> 0]
    /\ calls' = [c \in Callback |-> 0]
    /\ changed' = FALSE
    /\ UNCHANGED <<domainVars, stepVars, timeVars, referenceClockDomain, uniqueClockDomain,
                   loopVars, mayChange, internalBaseCycle>>

-----------------------------------------------------------------------------
(* Clock and RandomClock *)

UniqueLoop == uniqueClockDomain /\ ~RandomClocking

\* The event at the front of the list is popped, its modules are next.
PopEvent(clocked) ==
    /\ lTimeEvents' = Tail(lTimeEvents)
    /\ lClockedEvents' = Append(clocked, Head(lTimeEvents))
    /\ toCall' = lModules[Head(lTimeEvents)]

ClockBegin ==
    /\ pc = "idle" /\ ~UniqueLoop
    /\ lTimeEvents # <<>> /\ nCycle[Head(lTimeEvents)] < MaxCycle
    /\ currentBaseCycle' = nBaseCycle[Head(lTimeEvents)]
    /\ PopEvent(<<>>)
    /\ pc' = "modules"
    /\ UNCHANGED <<restarts, domainVars, listVars, lWriterRM, stepVars, timeVars, referenceVars,
                   uniqueClockDomain, it, mayChange, internalBaseCycle, cbVars>>

\* Mutants: only one event is clocked, or also those due in the next cycle.
MoreDueNever == FALSE
MoreDueEarly == lTimeEvents # <<>> /\ nBaseCycle[Head(lTimeEvents)] <= currentBaseCycle + 100

\* The event at the front of the list is due in this base cycle too.
MoreDue == lTimeEvents # <<>> /\ nBaseCycle[Head(lTimeEvents)] = currentBaseCycle

NextEvent ==
    /\ pc = "modules" /\ ~UniqueLoop /\ toCall = <<>> /\ MoreDue
    /\ PopEvent(lClockedEvents)
    /\ mayChange' = FALSE
    /\ UNCHANGED <<pc, restarts, domainVars, listVars, lWriterRM, stepVars, timeVars,
                   referenceVars, uniqueClockDomain, currentBaseCycle, it, internalBaseCycle,
                   cbVars>>

\* All the modules of this base cycle have been clocked.
BeginWriters ==
    /\ pc = "modules" /\ ~UniqueLoop /\ toCall = <<>> /\ ~MoreDue
    /\ pc' = "writers" /\ it' = 1 /\ toCall' = lWriterRM[lClockedEvents[1]]
    /\ mayChange' = FALSE
    /\ UNCHANGED <<restarts, domainVars, listVars, lWriterRM, stepVars, timeVars, referenceVars,
                   uniqueClockDomain, lTimeEvents, lClockedEvents, currentBaseCycle,
                   internalBaseCycle, cbVars>>

\* A registry completes its cycle, with the step it has by now.
Advance(r) ==
    /\ nCycle' = [nCycle EXCEPT ![r] = @ + 1]
    /\ nBaseCycle' = [nBaseCycle EXCEPT ![r] = @ + nStep[r]]

\* The writer rate matchers of a clocked registry have been called too: it
\* completes its cycle and goes back into the event list.
ReaddEvent ==
    LET r == lClockedEvents[it]
    IN  /\ pc = "writers" /\ ~UniqueLoop /\ toCall = <<>>
        /\ Advance(r)
        /\ lTimeEvents' = AddTimeEvent(lTimeEvents, nBaseCycle', r)
        /\ \/ /\ it < Len(lClockedEvents)
              /\ it' = it + 1 /\ toCall' = lWriterRM[lClockedEvents[it + 1]]
              /\ UNCHANGED <<pc, lClockedEvents, internalBaseCycle>>
           \/ /\ it = Len(lClockedEvents)
              /\ pc' = "idle" /\ lClockedEvents' = <<>>
              /\ internalBaseCycle' = currentBaseCycle \div 100
              /\ UNCHANGED <<it, toCall>>
        /\ UNCHANGED <<restarts, domainVars, listVars, lWriterRM, stepVars, referenceVars,
                       uniqueClockDomain, currentBaseCycle, mayChange, cbVars>>

-----------------------------------------------------------------------------
(* UniqueDomainClock: the events stay where they are in the list *)

UniqueBegin ==
    /\ pc = "idle" /\ UniqueLoop
    /\ lTimeEvents # <<>> /\ nCycle[Head(lTimeEvents)] < MaxCycle
    /\ pc' = "modules" /\ it' = 1 /\ toCall' = lModules[lTimeEvents[1]]
    /\ UNCHANGED <<restarts, domainVars, listVars, lWriterRM, stepVars, timeVars, referenceVars,
                   uniqueClockDomain, lTimeEvents, lClockedEvents, currentBaseCycle, mayChange,
                   internalBaseCycle, cbVars>>

UniqueWriters ==
    /\ pc = "modules" /\ UniqueLoop /\ toCall = <<>>
    /\ pc' = "writers" /\ toCall' = lWriterRM[lTimeEvents[it]]
    /\ mayChange' = FALSE
    /\ UNCHANGED <<restarts, domainVars, listVars, lWriterRM, stepVars, timeVars, referenceVars,
                   uniqueClockDomain, lTimeEvents, lClockedEvents, currentBaseCycle, it,
                   internalBaseCycle, cbVars>>

UniqueAdvance ==
    LET r == lTimeEvents[it]
    IN  /\ pc = "writers" /\ UniqueLoop /\ toCall = <<>>
        /\ Advance(r)
        /\ \/ /\ it < Len(lTimeEvents)
              /\ pc' = "modules" /\ it' = it + 1 /\ toCall' = lModules[lTimeEvents[it + 1]]
              /\ UNCHANGED internalBaseCycle
           \/ /\ it = Len(lTimeEvents)
              /\ pc' = "idle"
              /\ internalBaseCycle' = (nBaseCycle'[r] - nStep[r]) \div 100
              /\ UNCHANGED <<it, toCall>>
        /\ UNCHANGED <<restarts, domainVars, listVars, lWriterRM, stepVars, referenceVars,
                       uniqueClockDomain, lTimeEvents, lClockedEvents, currentBaseCycle,
                       mayChange, cbVars>>

-----------------------------------------------------------------------------
(* Callbacks, and SetDomainFrequency called from one *)

\* The registry whose callbacks are being called.
CurrentEvent == IF UniqueLoop THEN lTimeEvents[it]
                ELSE IF pc = "modules" THEN Last(lClockedEvents) ELSE lClockedEvents[it]

\* RandomClock picks any of the callbacks left.
RunCallback(i) ==
    LET c == toCall[i]
    IN  /\ pc \in {"modules", "writers"}
        /\ i \in 1..Len(toCall) /\ (~RandomClocking => i = 1)
        /\ currentCycle' = [currentCycle EXCEPT ![c] = nCycle[CurrentEvent]]
        /\ calls' = [calls EXCEPT ![c] = @ + 1]
        /\ toCall' = RemoveAt(toCall, i)
        /\ mayChange' = (pc = "modules")
        /\ UNCHANGED <<pc, restarts, domainVars, listVars, lWriterRM, stepVars, timeVars,
                       referenceVars, uniqueClockDomain, lTimeEvents, lClockedEvents,
                       currentBaseCycle, it, internalBaseCycle, changed>>

\* A module sets an allowed frequency.  The VERIFYs: the domain exists, and the
\* truncated value is one of its rounded ones; if one fails the program ends.
SetDomainFrequency(d, f) ==
    LET normFreq == Truncated(f)
    IN  /\ mayChange /\ f \in ToSet(Freqs[d])
        /\ normFreq # currentFrequency[d]
        /\ mayChange' = FALSE /\ changed' = TRUE
        /\ \/ /\ d \in ToSet(lDomain) /\ IsAllowed(d, normFreq)
              /\ currentFrequency' = [currentFrequency EXCEPT ![d] = normFreq]
              /\ nFrequency' = [r \in Registry |-> IF r \in ToSet(lClock[d]) THEN normFreq ELSE nFrequency[r]]
              /\ nStep' = [r \in Registry |-> IF r \in ToSet(lClock[d]) THEN StepOf(normFreq) ELSE nStep[r]]
              /\ UNCHANGED pc
           \/ /\ d \notin ToSet(lDomain) \/ ~IsAllowed(d, normFreq)
              /\ pc' = "failed"
              /\ UNCHANGED <<currentFrequency, stepVars>>
        /\ UNCHANGED <<restarts, RandomClocking, lDomain, listVars, lWriterRM, timeVars,
                       referenceVars, uniqueClockDomain, loopVars, internalBaseCycle, callVars>>

\* The simulation ends, or a VERIFY has ended it.
Finished ==
    /\ \/ pc = "failed"
       \/ pc = "idle" /\ nCycle[Head(lTimeEvents)] >= MaxCycle
    /\ UNCHANGED vars

Configure ==
    \/ \E on \in BOOLEAN : SetRandomClockingSeed(on)
    \/ \E d \in Domain : NewClockDomain(d) \/ SetReferenceClockDomain(d)
    \/ \E c \in Callback : RegisterClock(c) \/ RegisterRateMatcherWriter(c)

ClockLoop == ClockBegin \/ NextEvent \/ BeginWriters \/ ReaddEvent
UniqueDomainClock == UniqueBegin \/ UniqueWriters \/ UniqueAdvance

Next ==
    \/ Configure \/ InitClockServer \/ UnregisterAll
    \/ ClockLoop \/ UniqueDomainClock
    \/ \E i \in DOMAIN toCall : RunCallback(i)
    \/ \E d \in Domain : \E f \in ToSet(Freqs[d]) : SetDomainFrequency(d, f)
    \/ Finished

Spec == Init /\ [][Next]_vars

-----------------------------------------------------------------------------
(* Properties *)

Clocking == pc \in {"modules", "writers"}

\* Registries whose cycle this Clock() has completed already.
Advanced == IF pc = "writers" /\ ~UniqueLoop
            THEN {lClockedEvents[i] : i \in 1..it - 1} ELSE {}

\* The clocked events that are not back in the event list.
Pending == IF pc = "writers" /\ ~UniqueLoop
           THEN SubSeq(lClockedEvents, it, Len(lClockedEvents)) ELSE lClockedEvents

\* The types of the variables; a domain always has one of the frequencies it
\* was created with (SetDomainFrequency).
TypeOK ==
    /\ pc \in {"config", "idle", "modules", "writers", "failed"}
    /\ restarts \in 0..MaxRestarts /\ {RandomClocking, changed} \subseteq BOOLEAN
    /\ lDomain \in Seq(Domain)
    /\ \A d \in ToSet(lDomain) : currentFrequency[d] \in normalizedFrequencies(d)
    /\ lClock \in [Domain -> Seq(Registry)]
    /\ lModules \in [Registry -> Seq(Callback)] /\ lWriterRM \in [Registry -> Seq(WriterRM)]
    /\ {nFrequency, nStep, nBaseCycle, nCycle} \subseteq [Registry -> Nat]
    /\ lrateWriter \in Seq(WriterRM)
    /\ referenceClockDomain \in Domain \cup {NoDomain}
    /\ {referenceClockRegitry, firstClockRegitry} \subseteq Registry \cup {NoRegistry}
    /\ {lTimeEvents, lClockedEvents} \subseteq Seq(Registry) /\ toCall \in Seq(Callback)
    /\ {uniqueClockDomain, mayChange} \subseteq BOOLEAN
    /\ {currentBaseCycle, it, internalBaseCycle} \subseteq Nat
    /\ currentCycle \in [Callback -> Nat] /\ calls \in [Callback -> Nat]

\* "we can maintain always the same event clock order" (UniqueDomainClock): the
\* list AddTimeEvent keeps is ordered by time whenever Clock() looks at its
\* front, and no event is lost or doubled: every registry is in the event list
\* or among the clocked events that have not been added again, once.
EventsComplete ==
    /\ TypeOK
    /\ pc = "idle" => \A i, j \in DOMAIN lTimeEvents :
                         i < j => nBaseCycle[lTimeEvents[i]] <= nBaseCycle[lTimeEvents[j]]
    /\ pc = "idle" \/ Clocking =>
           LET events == lTimeEvents \o Pending
           IN  ToSet(events) = AllRegistries /\ Len(events) = Cardinality(AllRegistries)

\* Bf is a multiple of every frequency a created domain may be set to, and for
\* whatever frequencies it is their least common multiple as long as that fits
\* in a word (the fold of lcm in InitClockServer).
BaseFrequencyExact ==
    /\ ExactIfRepresentable
    /\ \A d \in ToSet(lDomain) : \A f \in normalizedFrequencies(d) : Bf # Overflow /\ Bf % f = 0

\* A writer rate matcher moves its data only when all the modules of the same
\* base cycle have been clocked, so that none of them sees data of its own
\* cycle (Clock calls the lWriterRM in a second loop).
WritersAfterModules ==
    [][\A w \in WriterRM : calls'[w] > calls[w] =>
         \A c \in Callback \ WriterRM :
            cbReg[c] \in AllRegistries /\ nBaseCycle[cbReg[c]] = nBaseCycle[cbReg[w]] =>
                calls[c] = nCycle[cbReg[c]] + 1]_vars

\* Domains run at the rate of their frequencies, without drift: in time
\* measured by cycles and skew over frequency, no registry is a whole period
\* ahead of another, as long as no frequency is changed.
RatesMatchFrequencies ==
    pc = "idle" /\ ~changed => \A r, s \in AllRegistries :
        (100 * (nCycle[r] - 1) + nSkew[r]) * nFrequency[s] <= (100 * nCycle[s] + nSkew[s]) * nFrequency[r]

\* Later than any cycle within the bound.
Never == 100 * Bf * (MaxCycle + 2)

\* The registries one Clock() completes count as completed when the last of them
\* is; a registry that was not created is never due.
BaseCycleSeen ==
    [r \in Registry |-> IF pc = "config" THEN 0
                        ELSE IF r \notin AllRegistries THEN Never
                        ELSE IF r \in Advanced THEN currentBaseCycle ELSE nBaseCycle[r]]
CycleSeen ==
    [r \in Registry |-> IF pc = "config" \/ r \notin AllRegistries THEN 0
                        ELSE IF r \in Advanced THEN nCycle[r] - 1 ELSE nCycle[r]]

\* The promise of every clock server, with no lookahead.
Contract == INSTANCE ClockContract WITH
    Lookahead <- 0, nBaseCycle <- BaseCycleSeen, nCycle <- CycleSeen

\* The clocking loops implement the contract.
ImplementsContract == Contract!Spec
=============================================================================
