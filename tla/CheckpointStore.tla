--------------------------- MODULE CheckpointStore ---------------------------
(***************************************************************************)
(* The checkpoints of a trainer on the local disk: the parts of a          *)
(* checkpoint, written one after the other by the worker groups            *)
(* (save_checkpoint of the FSDP checkpoint manager), the state of the      *)
(* dataloader, and the tracker file latest_checkpointed_iteration.txt      *)
(* that names the checkpoint to resume from; old parts are removed by the  *)
(* manager of their worker group, which forgets its list when it restarts. *)
(***************************************************************************)
EXTENDS Integers, Sequences, FiniteSets

CONSTANTS MaxStep,      \* the last step a checkpoint may be of
          MaxKeep,      \* max_actor_ckpt_to_keep, max_critic_ckpt_to_keep; 0: all
          Absent, Torn  \* a file that is not there / that is empty

ASSUME CheckpointAssumption ==
    /\ MaxStep \in Nat \ {0} /\ MaxKeep \in Nat
    /\ Absent # Torn
    /\ {Absent, Torn} \cap Nat = {}

VARIABLES
    saved,    \* global_step_N/actor and global_step_N/critic: how much of it is
              \* written, and the weights in it
    data,     \* global_step_N/data.pt: the position of the dataloader
    tracker,  \* the step in the tracker file, Torn while it is empty
    kept      \* previous_saved_paths of the two checkpoint managers

storeVars == <<saved, data, tracker, kept>>

Steps == 1 .. MaxStep
Parts == {"actor", "critic"}

Folder(state, weights) == [state |-> state, weights |-> weights]
NoFolder == Folder("absent", {})

CheckpointTypeOK ==
    /\ DOMAIN saved = Parts
    /\ \A p \in Parts : DOMAIN saved[p] = Steps
    /\ \A p \in Parts, s \in Steps :
           saved[p][s] \in [state : {"absent", "torn", "whole"}, weights : SUBSET Nat]
    /\ DOMAIN data = Steps /\ \A s \in Steps : data[s] \in {Absent} \cup Nat
    /\ tracker \in {Absent, Torn} \cup Steps
    /\ kept \in [Parts -> Seq(Steps)]

CheckpointInit ==
    /\ saved = [p \in Parts |-> [s \in Steps |-> NoFolder]]
    /\ data = [s \in Steps |-> Absent]
    /\ tracker = Absent
    /\ kept = [p \in Parts |-> <<>>]

-----------------------------------------------------------------------------
\* Part p of the checkpoints: the first n of these paths are removed, then the
\* part of step s is this folder.
Files(p, paths, n, s, folder) ==
    [t \in Steps |-> IF t = s THEN folder
                     ELSE IF \E i \in 1 .. n : paths[i] = t THEN NoFolder ELSE saved[p][t]]

DropFirst(seq, n) == SubSeq(seq, n + 1, Len(seq))

\* Mutant: room for the checkpoints there are, not for the new one.
CapacityWithoutNew(p) == IF MaxKeep > 1 /\ Len(kept[p]) >= MaxKeep THEN Len(kept[p]) - MaxKeep ELSE 0

\* ensure_checkpoint_capacity: with one checkpoint to keep nothing is removed
\* before the new one is saved.
CapacityExcess(p) ==
    IF MaxKeep > 1 /\ Len(kept[p]) >= MaxKeep THEN Len(kept[p]) - MaxKeep + 1 ELSE 0

\* register_checkpoint
RegisterExcess(p) ==
    IF MaxKeep > 0 /\ Len(kept[p]) + 1 > MaxKeep THEN Len(kept[p]) + 1 - MaxKeep ELSE 0

\* save_checkpoint of part p for step s: room is made, the shards are written ...
BeginPart(p, s) ==
    LET n == CapacityExcess(p)
    IN /\ saved' = [saved EXCEPT ![p] = Files(p, kept[p], n, s, Folder("torn", {}))]
       /\ kept' = [kept EXCEPT ![p] = DropFirst(@, n)]
       /\ UNCHANGED <<data, tracker>>

\* ... and when every rank has written its own, the checkpoint is registered.
EndPart(p, s, weights) ==
    LET n == RegisterExcess(p)
        paths == Append(kept[p], s)
    IN /\ saved' = [saved EXCEPT ![p] = Files(p, paths, n, s, Folder("whole", weights))]
       /\ kept' = [kept EXCEPT ![p] = DropFirst(paths, n)]
       /\ UNCHANGED <<data, tracker>>

SaveData(s, cursor) ==
    /\ data' = [data EXCEPT ![s] = cursor]
    /\ UNCHANGED <<saved, tracker, kept>>

\* open(..., "w") empties the tracker, write fills it.
OpenTracker == tracker' = Torn /\ UNCHANGED <<saved, data, kept>>
WriteTracker(s) == tracker' = s /\ UNCHANGED <<saved, data, kept>>

\* A new process knows nothing of the checkpoints of the old one.
ForgetPaths == kept' = [p \in Parts |-> <<>>] /\ UNCHANGED <<saved, data, tracker>>

Whole(s, p) == saved[p][s].state = "whole"
=============================================================================
