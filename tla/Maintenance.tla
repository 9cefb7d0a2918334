---------------------------- MODULE Maintenance ----------------------------
(***************************************************************************)
(* The two kinds of maintenance of a stock pool, which share its marker    *)
(* and its lock: the history repair of module HistoryRepair, and the       *)
(* storage migration of src/aspool/storage_migration.py, which moves the   *)
(* tables of a layout-2 pool to their layout-3 owners, file by file, and   *)
(* whose only way back is to restore every file from the recovery point.   *)
(***************************************************************************)
EXTENDS HistoryRepair

CONSTANTS MaxDrifts   \* bound: commits of ordinary writers to the layout-2 pool

ASSUME DriftsAssumption == MaxDrifts \in Nat

VARIABLES
    files,   \* the layout that the content of each file is of
    saved,   \* the files whose layout-2 content is that of the recovery point
    mover,   \* what the process of the migration or of its restoration is doing
    drifts

moveVars == <<files, saved, mover, drifts>>
allVars == <<vars, moveVars>>

(* The files that consolidate_storage() writes, in the order of its commits; a commit
   over several attached files may stop between any two of them. *)
CoreFiles == {"features", "adjustments", "stocks", "etfs", "catalog"}
Before(f) == CASE f = "features" -> {}
               [] f = "adjustments" -> {"features"}
               [] f \in {"stocks", "etfs"} -> {"features", "adjustments"}
               [] f = "catalog" -> CoreFiles \ {"catalog"}

MaintenanceTypeOK ==
    /\ TypeOK
    /\ files \in [CoreFiles -> {2, 3}]
    /\ saved \subseteq CoreFiles
    /\ mover \in {"off", "moving", "restoring"}
    /\ drifts \in 0..MaxDrifts
    /\ mover # "off" <=> lock = "migration"
    /\ layout = files["catalog"]

MaintenanceInit ==
    /\ Init
    /\ files = [f \in CoreFiles |-> layout]
    /\ saved = IF layout = 2 THEN CoreFiles ELSE {}
    /\ mover = "off"
    /\ drifts = 0

repairVars == <<wrong, stale, due, baseline, rebuild, intent, pc, mem, seen, forgotten>>

-----------------------------------------------------------------------------
(* A layout-2 writer commits to a file after the recovery point was taken. *)
Drift(f) ==
    /\ layout = 2
    /\ Published /\ Free
    /\ drifts < MaxDrifts
    /\ drifts' = drifts + 1
    /\ saved' = saved \ {f}
    /\ UNCHANGED <<repairVars, marker, lock, layout, crashes, files, mover>>

(* A new recovery point. *)
PrepareRecovery ==
    /\ layout = 2
    /\ Published /\ Free
    /\ saved # CoreFiles
    /\ saved' = CoreFiles
    /\ UNCHANGED <<repairVars, marker, lock, layout, crashes, files, mover, drifts>>

(* Fault: the pool is not compared with the recovery point. *)
BeginUnverified ==
    /\ Free /\ Published /\ layout = 2
    /\ marker' = "migration" /\ lock' = "migration" /\ mover' = "moving"
    /\ UNCHANGED <<repairVars, layout, crashes, files, saved, drifts>>

(* consolidate_storage(), up to the marker. *)
Begin ==
    /\ Free /\ Published
    /\ layout = 2
    /\ saved = CoreFiles
    /\ marker' = "migration" /\ lock' = "migration" /\ mover' = "moving"
    /\ UNCHANGED <<repairVars, layout, crashes, files, saved, drifts>>

(* Fault: the files are moved in any order, and the layout number with its file. *)
MoveAny(f) ==
    /\ mover = "moving"
    /\ files[f] = 2
    /\ files' = [files EXCEPT ![f] = 3]
    /\ layout' = IF f = "catalog" THEN 3 ELSE layout
    /\ UNCHANGED <<repairVars, marker, lock, crashes, saved, mover, drifts>>

(* A file has its layout-3 tables, verified, and has lost its layout-2 ones; the layout
   of the pool changes last. *)
Move(f) ==
    /\ mover = "moving"
    /\ files[f] = 2
    /\ \A g \in Before(f) : files[g] = 3
    /\ files' = [files EXCEPT ![f] = 3]
    /\ layout' = IF f = "catalog" THEN 3 ELSE layout
    /\ UNCHANGED <<repairVars, marker, lock, crashes, saved, mover, drifts>>

(* Fault: the marker goes with the new layout number. *)
EndMoveEarly ==
    /\ mover = "moving"
    /\ files["features"] = 3
    /\ marker' = "none" /\ lock' = "nobody" /\ mover' = "off"
    /\ UNCHANGED <<repairVars, layout, crashes, files, saved, drifts>>

(* verify_canonical() finds every owner in place. *)
EndMove ==
    /\ mover = "moving"
    /\ \A f \in CoreFiles : files[f] = 3
    /\ marker' = "none" /\ lock' = "nobody" /\ mover' = "off"
    /\ saved' = {}
    /\ UNCHANGED <<repairVars, layout, crashes, files, drifts>>

(* restore_migration() accepts the marker of a migration only. *)
BeginRestore ==
    /\ Free
    /\ marker = "migration"
    /\ lock' = "migration" /\ mover' = "restoring"
    /\ UNCHANGED <<repairVars, marker, layout, crashes, files, saved, drifts>>

(* A file of the recovery point takes the place of the pool's; the catalog, which has
   the layout number, is the first in CORE_FILES. *)
Restore(f) ==
    /\ mover = "restoring"
    /\ files[f] = 3
    /\ f # "catalog" => files["catalog"] = 2
    /\ files' = [files EXCEPT ![f] = 2]
    /\ layout' = IF f = "catalog" THEN 2 ELSE layout
    /\ UNCHANGED <<repairVars, marker, lock, crashes, saved, mover, drifts>>

(* Every file is that of the recovery point. *)
EndRestore ==
    /\ mover = "restoring"
    /\ \A f \in CoreFiles : files[f] = 2
    /\ marker' = "none" /\ lock' = "nobody" /\ mover' = "off"
    /\ UNCHANGED <<repairVars, layout, crashes, files, saved, drifts>>

(* The process dies, or fails in a verification. *)
MoverCrash ==
    /\ mover # "off"
    /\ crashes < MaxCrashes
    /\ crashes' = crashes + 1
    /\ lock' = "nobody" /\ mover' = "off"
    /\ UNCHANGED <<repairVars, marker, layout, files, saved, drifts>>

-----------------------------------------------------------------------------
MoverProgress ==
    \/ \E f \in CoreFiles : Move(f) \/ Restore(f)
    \/ EndMove \/ EndRestore

MigrationNext ==
    \/ \E f \in CoreFiles : Drift(f)
    \/ PrepareRecovery
    \/ Begin \/ BeginRestore
    \/ MoverProgress
    \/ MoverCrash

MaintenanceNext ==
    \/ Next /\ UNCHANGED moveVars
    \/ MigrationNext

MaintenanceSpec == MaintenanceInit /\ [][MaintenanceNext]_allVars

-----------------------------------------------------------------------------
(* The gate opens over a pool of one layout: a migration or a restoration that died    *)
(* half way keeps its readers and writers out, and so does a repair whose marker took  *)
(* the place of the migration's.                                                       *)
OpenPoolIsWhole ==
    marker = "none" => \A f \in CoreFiles : files[f] = layout

(* What a restoration puts back is what the migration found: nothing was committed to  *)
(* the pool between its recovery point and its marker, or behind the marker.           *)
RestoreLosesNothing == mover = "restoring" => saved = CoreFiles

(* Once files of both layouts are about, the marker is not given up by anybody but the *)
(* migration or its restoration, and the repair publishes nothing into them.           *)
HalfMovedIsUntouched ==
    [][(\E f, g \in CoreFiles : files[f] # files[g]) =>
          marker' # "none" /\ <<wrong, stale, due>>' = <<wrong, stale, due>>]_allVars
=============================================================================
