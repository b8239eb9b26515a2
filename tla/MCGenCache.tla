----------------------------- MODULE MCGenCache -----------------------------
(* Small instances of GenCache. *)
EXTENDS GenCache

Policy(name, ways, top, bottom) == [name |-> name, ways |-> ways, top |-> top, bottom |-> bottom]

\* Two caches of two ways under the manager.
Peers(tags, percent, warmed, clears) ==
    [policy |-> Policy("LRU", 2, 1, 1), caches |-> {1, 2}, tags |-> tags,
     warmPercent |-> percent, warmed |-> warmed, registered |-> TRUE, clears |-> clears]

\* One cache of three ways that no manager knows of.
Alone(name, percent) ==
    [policy |-> Policy(name, 3, 1, 1), caches |-> {1}, tags |-> {"a", "b"},
     warmPercent |-> percent, warmed |-> "Exclusive", registered |-> FALSE, clears |-> FALSE]

\* A policy by itself.
Bare(name, ways, top, bottom) ==
    [policy |-> Policy(name, ways, top, bottom), caches |-> {1}, tags |-> {},
     warmPercent |-> 0, warmed |-> "Shared", registered |-> FALSE, clears |-> FALSE]

MCVariants ==
    {Peers({"a", "b"}, 50, "Shared", FALSE), Peers({"a"}, 50, "Shared", TRUE),
     Peers({"a"}, 100, "Perfect", FALSE)}
    \cup {Alone("LRU", 0), Alone("EV7", 50)}
    \cup {Bare("LRU", 1, 1, 1), Bare("LRU", 5, 1, 1), Bare("Random", 3, 1, 1),
          Bare("RandomNotMRU", 4, 1, 1), Bare("EV7", 4, 1, 1)}
    \cup {Bare("PLRU", w, 1, 1) : w \in {2, 3, 4, 6, 8}}
    \cup {Bare("PLRU", 4, 2, 1), Bare("PLRU", 4, 1, 2), Bare("PLRU", 8, 2, 2)}
=============================================================================
