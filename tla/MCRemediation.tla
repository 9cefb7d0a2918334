--------------------------- MODULE MCRemediation ---------------------------
(* Small histories of one security for TLC, with computations and plans of them. *)
EXTENDS Remediation, TLC

History(kinds, halted, shut, traded, known) ==
    [bars |-> kinds, facts |-> halted, market |-> traded,
     calendar |-> [d \in Days |-> IF d \notin known THEN "none"
                                  ELSE IF d \in shut THEN "closed" ELSE "open"]]

(* A suspension that the facts know, one over a closed day, and sessions without a bar,
   the last of them not traded yet; changes lead to the others. *)
SmallHistories ==
    {History(<<"flat", "up", "halted", "up">>, {3}, {}, Days, Days),
     History(<<"flat", "absent", "absent", "up">>, {2}, {3}, {1, 4}, Days),
     History(<<"debut", "up", "absent", "absent">>, {}, {}, 1..3, 2..4)}

(* The whole history, a day alone, and days with what follows them. *)
SomeRequests ==
    {<<1, LastDay, TRUE>>, <<2, 2, FALSE>>, <<3, 3, TRUE>>, <<4, 4, TRUE>>}
SomeRanges == {<<1, LastDay>>, <<2, 2>>}
=============================================================================
