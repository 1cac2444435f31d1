--------------------------- MODULE MCReplayClient ---------------------------
(* Files: one with a repeated row, a row that does not parse, one with an   *)
(* unknown behavior and a last batch that is short; one with a time before  *)
(* 1970, which the client accepts and the API refuses, and whose last batch *)
(* is full.                                                                 *)
EXTENDS ReplayClient

SourceRow(ok, item, behavior, second) ==
    [well_formed |-> ok, user |-> 1, item |-> item, category |-> 9,
     behavior |-> behavior, timestamp |-> second]

SourceFile == << SourceRow(TRUE, 1, "pv", 10), SourceRow(TRUE, 1, "pv", 10),
                 SourceRow(FALSE, 1, "pv", 11), SourceRow(TRUE, 1, "browse", 12),
                 SourceRow(TRUE, 1, "cart", 12) >>

EarlyFile == << SourceRow(TRUE, 1, "pv", 10), SourceRow(TRUE, 1, "pv", -1),
                SourceRow(TRUE, 1, "cart", 12), SourceRow(TRUE, 2, "fav", 13) >>

TwoRuns == <<"run-1", "run-2">>
SourceFiles == {SourceFile, EarlyFile}
=============================================================================
