---------------------------- MODULE PublishedPool ----------------------------
(***************************************************************************)
(* What the three canonical stores promise a reader: one content that      *)
(* changes by whole publications, and snapshots of it that later           *)
(* publications leave alone.  No file, intent, crash or recovery is        *)
(* visible at this level.                                                  *)
(***************************************************************************)
EXTENDS Naturals

CONSTANTS Readers, Cells, RawCells, FactorCells, NoSnapshot

VARIABLES
    content,    \* the value of every cell of the pool
    snapshot    \* the content each reader holds, or NoSnapshot

poolVars == <<content, snapshot>>

Contents == [Cells -> Nat]

(* The revisions the features were derived from are the current ones. *)
Coherent(c) ==
    /\ c["feature_raw"] = c["stock_raw"]
    /\ c["feature_factor"] = c["stock_factors"]

(* Revisions never go back, and move whenever the rows they identify do. *)
Follows(old, new) ==
    /\ new["stock_raw"] >= old["stock_raw"]
    /\ new["stock_factors"] >= old["stock_factors"]
    /\ (\E c \in RawCells : new[c] # old[c]) => new["stock_raw"] > old["stock_raw"]
    /\ (\E c \in FactorCells : new[c] # old[c]) =>
           new["stock_factors"] > old["stock_factors"]

Init ==
    /\ content \in Contents
    /\ Coherent(content)
    /\ snapshot = [r \in Readers |-> NoSnapshot]

Publish ==
    /\ content' \in Contents
    /\ Coherent(content')
    /\ Follows(content, content')
    /\ UNCHANGED snapshot

Open(r) ==
    /\ snapshot[r] = NoSnapshot
    /\ snapshot' = [snapshot EXCEPT ![r] = content]
    /\ UNCHANGED content

Close(r) ==
    /\ snapshot' = [snapshot EXCEPT ![r] = NoSnapshot]
    /\ UNCHANGED content

Next == Publish \/ \E r \in Readers : Open(r) \/ Close(r)

Spec == Init /\ [][Next]_poolVars
=============================================================================
