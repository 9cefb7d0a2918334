------------------------------ MODULE MCReplica ------------------------------
(* Small instances of Replica for TLC. *)
EXTENDS Replica, TLC

(* Snapshots, evidence and stock rows are there or not; the other rows have a third
   content, that of neither image of a package. *)
TwoOrThree == [c \in AllCells |->
                  IF c \in {"board-source-state", "securities"} THEN 0..2 ELSE 0..1]

(* The data sets whose order matters, row by row evidence, the securities, which
   also a waiting writer changes, and the stock data. *)
FullCells      == Boards \cup {"event-coverage-1", "event-coverage-2", "securities", "stock"}
FullSelections == {Boards, FullCells \ (Boards \cup {"stock"}), {"securities", "stock"}}

(* A source without any rows, and one with all of them and securities of its own. *)
FullSources ==
    {[c \in FullCells |-> 0],
     [c \in FullCells |-> IF c = "securities" THEN 2 ELSE 1]}

SecurityCells      == {"securities", "stock"}
SecuritySelections == {{"securities"}}
=============================================================================
