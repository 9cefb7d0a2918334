-------------------------- MODULE MCPlatformMirror --------------------------
(* Small stores for TLC. *)
EXTENDS PlatformMirror, TLC

Store(rows, summaries) ==
    [features |-> [c \in Symbols \X Days |-> IF c[2] <= rows THEN 1 ELSE 0],
     summary |-> [d \in Days |-> IF d <= summaries THEN 1 ELSE 0],
     factors |-> [s \in Symbols |-> 1]]
WithoutSummary == {Store(1, 0)}
OneDay == {1}
=============================================================================
