----------------------------- MODULE MCCatalog -----------------------------
(* A file in which one product has two categories, one of them more often,  *)
(* a second one ties, and a row is unsound; and a file of one product only, *)
(* in another category.                                                     *)
EXTENDS CatalogCdc

Seen(item, category, second) ==
    [well_formed |-> TRUE, user |-> 1, item |-> item, category |-> category,
     behavior |-> "pv", timestamp |-> second]

Wide == << Seen(1, 21, 10), Seen(2, 31, 11), Seen(2, 30, 12), Seen(3, 40, 0),
           Seen(1, 20, 13), Seen(1, 21, 14) >>
Narrow == << Seen(1, 20, 10) >>

MCSources == {Wide, Narrow}
\* The generator shares two files with the rest, and the one load alone reads
\* them: its steps commute with all others, and are taken before them.
GeneratorFirst ==
    IF UNCHANGED generatorVars
    THEN phase = "idle"
    ELSE ~registered /\ updates = 0 /\ loads = 0

MCSeed == [p \in {1} |-> -1]
=============================================================================
