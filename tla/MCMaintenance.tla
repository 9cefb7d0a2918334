--------------------------- MODULE MCMaintenance ---------------------------
EXTENDS Maintenance, TLC
CONSTANTS t1, t2
Windows == (t1 :> <<1, LastDay>>) @@ (t2 :> <<1, 1>>)
=============================================================================
