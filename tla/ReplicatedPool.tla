--------------------------- MODULE ReplicatedPool ---------------------------
(***************************************************************************)
(* What a replica promises: a pool whose base rows change by single        *)
(* maintenance writes and by whole packages, a package only over the rows  *)
(* it was made for, and readers in between.  No intent, dataset, crash or  *)
(* recovery is visible at this level.                                      *)
(***************************************************************************)
EXTENDS Naturals

CONSTANTS
    Cells, Values,
    Maintained,  \* the cells that others than packages write
    Readers, NoView

VARIABLES
    content,    \* the value of every base cell
    package,    \* the exported file: cells with the value before and after
    view        \* what each reader last read

poolVars == <<content, package, view>>

Init ==
    /\ content \in [Cells -> Values]
    /\ package = <<>>
    /\ view = [r \in Readers |-> NoView]

(* A package is made of differences from the pool as it is. *)
Export ==
    /\ DOMAIN package' \subseteq Cells
    /\ \A c \in DOMAIN package' : /\ package'[c].before = content[c]
                                 /\ package'[c].after \in Values
    /\ UNCHANGED <<content, view>>

Apply ==
    /\ \A c \in DOMAIN package : content[c] \in {package[c].before, package[c].after}
    /\ content' = [c \in Cells |-> IF c \in DOMAIN package THEN package[c].after
                                   ELSE content[c]]
    /\ UNCHANGED <<package, view>>

(* A maintenance write of a cell that packages are not the only ones to write. *)
Write ==
    /\ \E c \in Maintained, v \in Values : content' = [content EXCEPT ![c] = v]
    /\ UNCHANGED <<package, view>>

Read(r) ==
    /\ view' = [view EXCEPT ![r] = content]
    /\ UNCHANGED <<content, package>>

Leave(r) ==
    /\ view' = [view EXCEPT ![r] = NoView]
    /\ UNCHANGED <<content, package>>

Next == Export \/ Apply \/ Write \/ \E r \in Readers : Read(r) \/ Leave(r)

Spec == Init /\ [][Next]_poolVars
=============================================================================
