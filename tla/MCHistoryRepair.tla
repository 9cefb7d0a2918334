-------------------------- MODULE MCHistoryRepair --------------------------
EXTENDS HistoryRepair, TLC
CONSTANTS t1
WholeWindow == (t1 :> <<1, LastDay>>)
=============================================================================
