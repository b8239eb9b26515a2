---------------------------- MODULE MCController ----------------------------
(* Instances of Controller: four scenarios. *)
EXTENDS Controller, TLC

At(what, on, n) == [what |-> what, on |-> on, periodic |-> FALSE, n |-> n]
Every(what, on, n) == [what |-> what, on |-> on, periodic |-> TRUE, n |-> n]
Clear(on) == [what |-> "CLEAR", on |-> on, periodic |-> FALSE, n |-> 0]

\* One Clock(): cycles, nanoseconds, instructions, macro instructions, packets
\* and marks.
By(c, n, i, m, p, s) ==
    ("CYCLE" :> c) @@ ("NANOSECOND" :> n) @@ ("INST" :> i) @@ ("MACROINST" :> m)
    @@ ("PACKET" :> p) @@ ("SSCMARK" :> s)

\* Cycles and instructions under a workbench.
Interactive ==
    [commands |-> {Now("START"), Now("STOP"), Now("EXIT"), At("STOP", "CYCLE", 3),
                   Every("PROGRESS", "CYCLE", 2), Every("PROGRESS", "INST", 2), Clear("CYCLE")},
     workbench |-> TRUE, marker |-> FALSE, threadEnd |-> FALSE,
     steps |-> {By(1, 0, i, 0, 0, 0) : i \in 0..2}]

\* Nanoseconds that a Clock() may step over, with a marker; commands may come
\* inside an action that is due together with a STOP.
Nanoseconds ==
    [commands |-> {Now("START"), Now("STOP"), Now("EXIT"), At("STOP", "NANOSECOND", 3),
                   At("OTHER", "NANOSECOND", 3), Every("PROGRESS", "NANOSECOND", 2),
                   At("EXIT", "CYCLE", 2)},
     workbench |-> FALSE, marker |-> TRUE, threadEnd |-> FALSE,
     steps |-> {By(0, 1, 0, 0, 0, 0), By(1, 1, 0, 0, 0, 0), By(1, 2, 0, 0, 0, 0)}]

\* Marks among macro instructions, of which a Clock() may commit two.
Marks ==
    [commands |-> {Now("START"), At("EXIT", "SSCMARK", 3), At("STOP", "MACROINST", 3),
                   Every("PROGRESS", "SSCMARK", 2), Every("OTHER", "MACROINST", 2), Clear("SSCMARK")},
     workbench |-> TRUE, marker |-> FALSE, threadEnd |-> FALSE,
     steps |-> {By(1, 0, m, m, 0, s) : m \in 1..2, s \in 0..1} \cup {By(1, 0, 0, 0, 0, 0)}]

\* Packets, and threads that end.
Packets ==
    [commands |-> {Now("STOP"), Now("EXIT"), At("STOP", "PACKET", 3), At("OTHER", "PACKET", 1),
                   Every("PROGRESS", "CYCLE", 1)},
     workbench |-> FALSE, marker |-> TRUE, threadEnd |-> TRUE,
     steps |-> {By(1, 0, 0, 0, p, 0) : p \in 0..2}]

MCScenarios == {Interactive, Nanoseconds, Marks, Packets}
=============================================================================
