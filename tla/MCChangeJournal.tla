--------------------------- MODULE MCChangeJournal ---------------------------
(* Small instances of ChangeJournal for TLC.  Keys, values and names are
   interchangeable. *)
EXTENDS ChangeJournal, TLC

AnyNames == Permutations(Keys) \cup Permutations(Values) \cup Permutations(Names)
=============================================================================
