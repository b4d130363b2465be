-------------------------- MODULE V1Trainer_proofs --------------------------
(***************************************************************************)
(* Proofs about the V1 training loop and its checkpoints, for every batch  *)
(* size, number of sessions, threshold, number of warm-up batches, save    *)
(* frequency, number of steps and of crashes, and number of checkpoints to *)
(* keep. What is said of the checkpoint that a resumed job loads needs     *)
(* that it is not exactly one that is kept.                                *)
(***************************************************************************)
EXTENDS V1Trainer, BatchBalance_proofs

USE DEF bufferVars, storeVars, balanceVars, trainerVars

LEMMA Sizes == /\ BatchSize \in Nat \ {0} /\ Sessions \in Nat \ {0}
               /\ MaxStep \in Nat \ {0} /\ MaxKeep \in Nat
               /\ TotalSteps \in Steps
               /\ Warmup \in Nat
               /\ Absent # Torn /\ Absent \notin Nat /\ Torn \notin Nat
BY BufferAssumption, CheckpointAssumption, V1Assumption DEF Steps

-----------------------------------------------------------------------------
(* The weak type of the state that the proofs need.                        *)

Statuses == {"pending", "running", "finished", "failure", "sampled"}
Entry == [step : Int, status : Statuses, going : Int, stored : Int, raised : BOOLEAN, empty : Int]
Entries(ps) == \A p \in DOMAIN ps : ps[p] \in Entry
FolderSet == [state : {"absent", "torn", "whole"}, weights : SUBSET (Nat \ {0})]

PCs == SavePCs \cup {"load", "add", "sample", "select", "fill", "balance", "train", "clear",
                     "done", "raised", "stuck"}

StoreType == /\ saved \in [Parts -> [Steps -> FolderSet]]
             /\ data \in [Steps -> Nat \cup {Absent}]
             /\ tracker \in {Absent, Torn} \cup Steps
             /\ kept \in [Parts -> Seq(Steps)]

BufferType == /\ Entries(prompts) /\ Entries(listed)
              /\ \A p \in DOMAIN batch : batch[p] \in Int

LoopType == /\ pc \in PCs
            /\ gs \in Nat /\ cursor \in Nat
            /\ pc \notin {"load", "done", "stuck"} => gs \in Steps

-----------------------------------------------------------------------------
(* The prompts.                                                            *)

\* Every prompt comes from the dataloader.
Drawn == /\ DOMAIN prompts \subseteq 1 .. cursor
         /\ DOMAIN listed \subseteq 1 .. cursor
         /\ DOMAIN batch \subseteq 1 .. cursor
         /\ trained \subseteq 1 .. cursor

Unseen == /\ \A p \in DOMAIN prompts : prompts[p].status # "sampled" => p \notin trained
          /\ \A p \in DOMAIN prompts \cap DOMAIN batch : prompts[p].status = "sampled"
          /\ \A p \in DOMAIN listed : p \notin trained
          /\ pc # "select" => DOMAIN listed = {}
          /\ pc \in {"fill", "balance", "train"} => DOMAIN batch \cap trained = {}
          /\ pc \in {"load", "add", "sample", "select"} => DOMAIN batch = {}
          /\ pc = "load" => DOMAIN prompts = {} /\ trained = {}

-----------------------------------------------------------------------------
(* The checkpoints.                                                        *)

\* The stages behind the save of a part.
After(p) == IF p = "actor" THEN {"critic", "criticEnd", "data", "tracker", "trackerEnd"}
                           ELSE {"data", "tracker", "trackerEnd"}

EndOf(p) == IF p = "actor" THEN "actorEnd" ELSE "criticEnd"

\* The paths of a manager are in the order they were saved, and the tracker
\* names none but the last of them.
PathsInOrder ==
    \A p \in Parts :
        /\ \A i, j \in DOMAIN kept[p] : i < j => kept[p][i] < kept[p][j]
        /\ pc \notin After(p) =>
               \A i \in DOMAIN kept[p] : tracker \in Steps /\ kept[p][i] <= tracker
        /\ pc \in After(p) => \A i \in DOMAIN kept[p] : kept[p][i] <= gs
        /\ pc = EndOf(p) /\ MaxKeep > 1 => Len(kept[p]) < MaxKeep

TrackerBehind ==
    tracker \in Steps /\ pc \notin {"load", "stuck"} =>
        tracker <= gs /\ (pc # "clear" => tracker < gs)

\* What is saved before the tracker names it.
SavedSoFar ==
    /\ \A p \in Parts : pc \in After(p) => saved[p][gs] = Folder("whole", trained)
    /\ pc \in {"tracker", "trackerEnd"} => data[gs] = cursor

\* What of it holds however few checkpoints are kept.
SavedWeights ==
    /\ pc \in After("actor") => saved["actor"][gs].weights = trained
    /\ pc \in {"tracker", "trackerEnd"} => data[gs] = cursor

WeightsBehind ==
    tracker \in Steps =>
        data[tracker] \in Nat /\ \A q \in saved["actor"][tracker].weights : q <= data[tracker]

PromptInv == BufferType /\ LoopType /\ Drawn /\ Unseen

NamesComplete == tracker \in Steps => Complete(tracker)

\* What the save of a checkpoint needs to know of the prompts.
Placed == /\ gs \in Nat /\ cursor \in Nat /\ trained \subseteq Nat \ {0}
          /\ pc \notin {"load", "done", "stuck"} => gs \in Steps

StoreInv == StoreType /\ PathsInOrder /\ TrackerBehind /\ SavedSoFar /\ NamesComplete

WeightsInv == StoreType /\ TrackerBehind /\ SavedWeights /\ WeightsBehind

-----------------------------------------------------------------------------
(* What the operations of the queue do to the prompts.                     *)

\* The prompts of ps2 are some of ps1, sampled or not as they were.
Keeps(ps1, ps2) ==
    /\ DOMAIN ps2 \subseteq DOMAIN ps1
    /\ \A p \in DOMAIN ps2 : (ps2[p].status = "sampled") <=> (ps1[p].status = "sampled")

LEMMA LiveEntries ==
    ASSUME NEW ps, Entries(ps)
    PROVE  /\ Entries(Live(ps))
           /\ DOMAIN Live(ps) \subseteq DOMAIN ps
           /\ \A p \in DOMAIN Live(ps) : Live(ps)[p] = ps[p]
BY DEF Live, Restricted, Entries

LEMMA EntryUpdate ==
    ASSUME NEW e \in Entry, NEW g \in Int, NEW n \in Int, NEW st \in Statuses
    PROVE  /\ [e EXCEPT !.going = g, !.stored = n] \in Entry
           /\ [e EXCEPT !.going = g, !.empty = n] \in Entry
           /\ [e EXCEPT !.status = st, !.stored = n] \in Entry
           /\ [e EXCEPT !.stored = n] \in Entry
BY DEF Entry

LEMMA EntryRaised ==
    ASSUME NEW e \in Entry, NEW g \in Int
    PROVE  /\ [e EXCEPT !.going = g, !.raised = TRUE] \in Entry
           /\ [e EXCEPT !.going = g, !.raised = TRUE].status = e.status
BY DEF Entry

(* A task or a session of a prompt changes neither whether it was sampled   *)
(* nor anything of the other prompts (_run_prompt, _agent_loop_postprocess).*)
LEMMA SetKeeps ==
    ASSUME Entries(prompts), NEW p \in DOMAIN prompts, NEW r \in Entry,
           r.status # "sampled" \/ prompts[p].status = "sampled",
           r.status = "sampled" \/ prompts[p].status # "sampled",
           Set(p, r)
    PROVE  Entries(prompts') /\ Keeps(prompts, prompts') /\ listed' = listed /\ batch' = batch
<1> DEFINE ps == [prompts EXCEPT ![p] = r]
<1>1. Entries(ps) /\ DOMAIN ps = DOMAIN prompts BY DEF Entries
<1>2. prompts' = Live(ps) BY DEF Set
<1>3. \A q \in DOMAIN ps : (ps[q].status = "sampled") <=> (prompts[q].status = "sampled")
  BY DEF Entries
<1> HIDE DEF ps
<1>4. /\ Entries(Live(ps)) /\ DOMAIN Live(ps) \subseteq DOMAIN ps
      /\ \A q \in DOMAIN Live(ps) : Live(ps)[q] = ps[q]
  BY <1>1, LiveEntries
<1>5. Entries(prompts') BY <1>2, <1>4
<1>6. Keeps(prompts, prompts') BY <1>1, <1>2, <1>3, <1>4 DEF Keeps
<1>7. QED BY <1>5, <1>6 DEF Set

LEMMA LoopKeeps ==
    ASSUME Entries(prompts), NEW p \in DOMAIN prompts, AgentLoop(p) \/ SessionMishap(p)
    PROVE  Entries(prompts') /\ Keeps(prompts, prompts') /\ listed' = listed /\ batch' = batch
<1> DEFINE e == prompts[p]
<1>0. /\ e \in Entry /\ Sessions \in Int
      /\ e.going \in Int /\ e.stored \in Int /\ e.empty \in Int
  BY Sizes DEF Entries, Entry
<1> HIDE DEF e
<1> USE <1>0 DEF Entry, Statuses
<1>1. CASE RunPrompt(p)
  <2> DEFINE r == [e EXCEPT !.status = "running", !.going = Sessions]
  <2>1. r \in Entry /\ r.status = "running" OBVIOUS
  <2>2. e.status = "pending" /\ Set(p, r) BY <1>1 DEF RunPrompt, e
  <2> HIDE DEF r
  <2>3. QED BY <2>1, <2>2, SetKeeps DEF e
<1>2. CASE SessionPuts(p)
  <2> DEFINE r == [e EXCEPT !.going = @ - 1, !.stored = @ + 1]
  <2>0. e.going - 1 \in Int /\ e.stored + 1 \in Int OBVIOUS
  <2>1. r \in Entry /\ r.status = e.status
    <3>1. r \in Entry BY <2>0, EntryUpdate
    <3>2. r.status = e.status BY <1>0 DEF Entry
    <3>3. QED BY <3>1, <3>2
  <2>2. Set(p, r) BY <1>2 DEF SessionPuts, e
  <2> HIDE DEF r
  <2>3. QED BY <2>1, <2>2, SetKeeps DEF e
<1>3. CASE PromptFinished(p)
  <2> DEFINE r == [e EXCEPT !.status = "finished"]
  <2>1. r \in Entry /\ r.status = "finished" OBVIOUS
  <2>2. e.status = "running" /\ Set(p, r) BY <1>3 DEF PromptFinished, e
  <2> HIDE DEF r
  <2>3. QED BY <2>1, <2>2, SetKeeps DEF e
<1>4. CASE PromptFails(p)
  <2> DEFINE r == [e EXCEPT !.status = "failure"]
  <2>1. r \in Entry /\ r.status = "failure" OBVIOUS
  <2>2. e.status = "running" /\ Set(p, r) BY <1>4 DEF PromptFails, e
  <2> HIDE DEF r
  <2>3. QED BY <2>1, <2>2, SetKeeps DEF e
<1>5. CASE SessionMishap(p)
  <2> DEFINE r == [e EXCEPT !.going = @ - 1, !.empty = @ + 1]
             q == [e EXCEPT !.going = @ - 1, !.raised = TRUE]
  <2>0. e.going - 1 \in Int /\ e.empty + 1 \in Int OBVIOUS
  <2>1. /\ r \in Entry /\ r.status = e.status
        /\ q \in Entry /\ q.status = e.status
    <3>1. e.status \in Statuses BY <1>0 DEF Entry
    <3>2. r \in Entry BY <2>0, <3>1, EntryUpdate
    <3>3. r.status = e.status BY <1>0 DEF Entry
    <3>4. q \in Entry /\ q.status = e.status BY <1>0, <2>0, EntryRaised, Zenon
    <3>5. QED BY <3>2, <3>3, <3>4
  <2>2. Set(p, r) \/ Set(p, q) BY <1>5 DEF SessionMishap, e
  <2> HIDE DEF r, q
  <2>3. QED BY <2>1, <2>2, SetKeeps DEF e
<1>6. QED BY <1>1, <1>2, <1>3, <1>4, <1>5 DEF AgentLoop

-----------------------------------------------------------------------------
(* Every step keeps PromptInv.                                             *)

LEMMA InitPrompts == Init => PromptInv
BY DEF Init, BufferInit, PromptInv, BufferType, LoopType, Drawn, Unseen, Entries, PCs, Statuses

(* A resumed job has the weights of prompts before its dataloader's.        *)
LEMMA LoadPrompts ==
    ASSUME PromptInv, WeightsInv, Load PROVE PromptInv'
<1> USE DEF PromptInv, BufferType, LoopType, Drawn, Unseen, Entries
<1>1. /\ UNCHANGED <<prompts, listed, batch>> /\ pc = "load"
      /\ DOMAIN prompts = {} /\ DOMAIN listed = {} /\ DOMAIN batch = {} /\ trained = {}
  BY DEF Load
<1>2. CASE tracker = Absent
  <2>1. gs' = 1 /\ cursor' = 0 /\ trained' = {} /\ pc' \in {"done", "add"}
    BY <1>2 DEF Load, Begin
  <2>2. pc' = "add" => gs' \in Steps BY <2>1, Sizes DEF Steps
  <2>3. QED BY <1>1, <2>1, <2>2 DEF PCs
<1>3. CASE /\ tracker # Absent
           /\ tracker = Torn \/ ~(Whole(tracker, "actor") /\ Whole(tracker, "critic"))
  <2>1. pc' = "stuck" /\ UNCHANGED <<gs, cursor, trained>> BY <1>3 DEF Load, Goto
  <2>2. QED BY <1>1, <2>1 DEF PCs
<1>4. CASE /\ tracker # Absent /\ tracker # Torn
           /\ Whole(tracker, "actor") /\ Whole(tracker, "critic")
  <2>1. tracker \in Steps BY <1>4 DEF WeightsInv, StoreType
  <2>2. /\ data[tracker] \in Nat
        /\ saved["actor"][tracker].weights \subseteq 1 .. data[tracker]
    <3>1. /\ data[tracker] \in Nat
          /\ \A q \in saved["actor"][tracker].weights : q <= data[tracker]
      BY <2>1 DEF WeightsInv, WeightsBehind
    <3>2. saved["actor"][tracker].weights \subseteq Nat \ {0}
      BY <2>1 DEF WeightsInv, StoreType, FolderSet, Parts
    <3>3. QED BY <3>1, <3>2
  <2>3. /\ gs' = tracker + 1 /\ cursor' = data[tracker]
        /\ trained' = saved["actor"][tracker].weights
        /\ pc' = IF tracker + 1 > TotalSteps THEN "done" ELSE "add"
    BY <1>4, <2>2, Sizes DEF Load, Begin
  <2>4. gs' \in Nat /\ (pc' = "add" => gs' \in Steps) BY <2>1, <2>3, Sizes DEF Steps
  <2>5. QED BY <1>1, <2>2, <2>3, <2>4 DEF PCs
<1>5. QED BY <1>2, <1>3, <1>4

LEMMA AddPrompts ==
    ASSUME PromptInv, AddBatch PROVE PromptInv'
<1> USE DEF PromptInv, BufferType, LoopType, Drawn, Unseen
<1> DEFINE new == cursor + 1 .. cursor + BatchSize
           fresh == [step |-> gs, status |-> "pending", going |-> 0, stored |-> 0,
                     raised |-> FALSE, empty |-> 0]
<1>1. /\ pc = "add" /\ pc' \in {"add", "sample"}
      /\ cursor' = cursor + BatchSize
      /\ UNCHANGED <<listed, batch, gs, trained>>
      /\ prompts' = [p \in DOMAIN prompts \cup new |-> IF p \in new THEN fresh ELSE prompts[p]]
  BY DEF AddBatch, PutPrompts
<1>2. /\ cursor \in Nat /\ BatchSize \in Nat
      /\ \A p \in 1 .. cursor : p \in 1 .. cursor' /\ p \notin new
      /\ new \subseteq 1 .. cursor'
  BY <1>1, Sizes
<1>3. fresh \in Entry BY DEF Entry, Statuses
<1> HIDE DEF new, fresh
<1>4. Entries(prompts') BY <1>1, <1>3 DEF Entries
<1>5. Drawn' BY <1>1, <1>2
<1>6. Unseen'
  <2>1. \A p \in DOMAIN prompts' : p \in new \/ (p \in DOMAIN prompts /\ prompts'[p] = prompts[p])
    BY <1>1
  <2>2. \A p \in new : p \notin trained /\ p \notin DOMAIN batch BY <1>2
  <2>3. QED BY <1>1, <2>1, <2>2
<1>7. BufferType' BY <1>1, <1>4 DEF Entries
<1>8. LoopType' BY <1>1, <1>2 DEF PCs
<1>9. QED BY <1>5, <1>6, <1>7, <1>8

LEMMA PollPrompts ==
    ASSUME PromptInv, Poll PROVE PromptInv'
<1> USE DEF PromptInv, BufferType, LoopType, Drawn, Unseen
<1>1. /\ pc = "sample" /\ pc' = "select"
      /\ UNCHANGED <<prompts, batch, gs, cursor, trained>>
      /\ listed' = [p \in DOMAIN prompts \cap Sampleable(prompts) |-> prompts[p]]
  BY DEF Poll, List, Goto, Restricted
<1>2. \A p \in DOMAIN listed' : /\ p \in DOMAIN prompts /\ listed'[p] = prompts[p]
                                /\ prompts[p].status # "sampled"
  BY <1>1 DEF Sampleable
<1>3. QED BY <1>1, <1>2 DEF PCs, Entries

LEMMA SamplePrompts ==
    ASSUME PromptInv, SampleBatch PROVE PromptInv'
<1> USE DEF PromptInv, BufferType, LoopType, Drawn, Unseen
<1>1. /\ pc = "select" /\ pc' = "fill"
      /\ UNCHANGED <<gs, cursor, trained>> /\ Sample(gs)
  BY DEF SampleBatch, Goto
<1>2. PICK chosen \in OldestOf(Sampleable(listed)) :
        LET tooOld == {p \in chosen : strategy = "drop" /\ Exceeds(gs, listed[p].step)}
        IN /\ prompts' = Live([p \in DOMAIN prompts |->
                                 IF p \notin chosen THEN prompts[p]
                                 ELSE [prompts[p] EXCEPT
                                         !.status = "sampled",
                                         !.stored = IF p \in tooOld THEN @ - listed[p].stored
                                                    ELSE @]])
           /\ batch' = [p \in {q \in chosen \ tooOld : listed[q].stored > 0}
                          |-> listed[p].stored]
           /\ listed' = <<>>
  BY <1>1 DEF Sample
<1> DEFINE tooOld == {p \in chosen : strategy = "drop" /\ Exceeds(gs, listed[p].step)}
           left(p) == IF p \in tooOld THEN prompts[p].stored - listed[p].stored
                      ELSE prompts[p].stored
           taken(p) == [prompts[p] EXCEPT !.status = "sampled", !.stored = left(p)]
           ps == [p \in DOMAIN prompts |-> IF p \notin chosen THEN prompts[p] ELSE taken(p)]
<1>3. chosen \subseteq DOMAIN listed BY DEF OldestOf, Sampleable
<1>4. prompts' = Live(ps) BY <1>2
<1>5. /\ DOMAIN batch' \subseteq chosen
      /\ \A p \in DOMAIN batch' : batch'[p] \in Int
      /\ DOMAIN listed' = {}
  <2>1. batch' = [p \in {q \in chosen \ tooOld : listed[q].stored > 0} |-> listed[p].stored]
    BY <1>2
  <2>2. DOMAIN listed' = {}
    <3>1. listed' = <<>> BY <1>2
    <3>2. QED BY <3>1
  <2>3. \A p \in chosen : listed[p].stored \in Int BY <1>3 DEF Entries, Entry
  <2> HIDE DEF tooOld
  <2>4. DOMAIN batch' \subseteq chosen /\ \A p \in DOMAIN batch' : batch'[p] = listed[p].stored
    BY <2>1
  <2>5. QED BY <2>2, <2>3, <2>4
<1>6. \A p \in chosen \cap DOMAIN prompts : taken(p) \in Entry /\ taken(p).status = "sampled"
  <2> SUFFICES ASSUME NEW p \in chosen, p \in DOMAIN prompts
               PROVE  taken(p) \in Entry /\ taken(p).status = "sampled"
    OBVIOUS
  <2>1. prompts[p] \in Entry /\ listed[p] \in Entry BY <1>3 DEF Entries
  <2>2. prompts[p].stored \in Int /\ listed[p].stored \in Int BY <2>1 DEF Entry
  <2>3. left(p) \in Int BY <2>2
  <2> HIDE DEF left
  <2>4. taken(p) \in Entry BY <2>1, <2>3 DEF Entry, Statuses
  <2>5. taken(p).status = "sampled" BY <2>1 DEF Entry
  <2>6. QED BY <2>4, <2>5
<1> HIDE DEF taken, left
<1>7. /\ Entries(ps) /\ DOMAIN ps = DOMAIN prompts
      /\ \A p \in DOMAIN ps : /\ ps[p].status # "sampled" => p \notin trained
                              /\ p \in chosen => ps[p].status = "sampled"
  BY <1>6 DEF Entries
<1> HIDE DEF ps
<1>8. /\ Entries(Live(ps)) /\ DOMAIN Live(ps) \subseteq DOMAIN ps
      /\ \A p \in DOMAIN Live(ps) : Live(ps)[p] = ps[p]
  BY <1>7, LiveEntries
<1>9. Drawn' BY <1>1, <1>3, <1>4, <1>5, <1>7, <1>8
<1>10. Unseen' BY <1>1, <1>3, <1>4, <1>5, <1>7, <1>8
<1>11. QED BY <1>1, <1>4, <1>5, <1>8, <1>9, <1>10 DEF PCs, Entries

LEMMA TrainPrompts ==
    ASSUME PromptInv, FillBatch \/ BalanceBatch \/ Train PROVE PromptInv'
<1> USE DEF PromptInv, BufferType, LoopType, Drawn, Unseen
<1>1. UNCHANGED <<prompts, listed, batch, gs, cursor>>
  BY DEF FillBatch, BalanceBatch, Train
<1>2. CASE FillBatch \/ BalanceBatch
  <2>1. /\ pc \in {"fill", "balance"} /\ pc' \in {"balance", "raised", "train"}
        /\ UNCHANGED trained
    BY <1>2 DEF FillBatch, BalanceBatch, Goto
  <2>2. QED BY <1>1, <2>1 DEF PCs
<1>3. CASE Train
  <2>1. /\ pc = "train" /\ pc' \in {"actor", "clear"}
        /\ trained' \subseteq trained \cup DOMAIN batch
    BY <1>3 DEF Train, Goto
  <2>2. QED BY <1>1, <2>1 DEF PCs, SavePCs
<1>4. QED BY <1>2, <1>3

LEMMA SavePrompts ==
    ASSUME PromptInv, Save PROVE PromptInv'
<1>1. /\ UNCHANGED <<prompts, listed, batch, gs, cursor, trained>>
      /\ pc \in SavePCs /\ pc' \in SavePCs \cup {"clear"}
  BY DEF Save, SaveStage, Goto, SavePCs
<1>2. QED
  BY <1>1 DEF PromptInv, BufferType, LoopType, Drawn, Unseen, Entries, PCs, SavePCs

LEMMA EndStepPrompts ==
    ASSUME PromptInv, EndStep PROVE PromptInv'
<1> USE DEF PromptInv, BufferType, LoopType, Drawn, Unseen
<1> DEFINE less(p) == [prompts[p] EXCEPT !.stored = @ - batch[p]]
           ps == [p \in DOMAIN prompts |-> IF p \in DOMAIN batch THEN less(p) ELSE prompts[p]]
<1>1. /\ pc = "clear" /\ UNCHANGED <<listed, cursor, trained>>
      /\ prompts' = Live(ps) /\ batch' = <<>>
      /\ gs' = gs + 1 /\ pc' = IF gs + 1 > TotalSteps THEN "done" ELSE "add"
  BY DEF EndStep, ClearBatch, Begin
<1>2. gs' \in Nat /\ (pc' = "add" => gs' \in Steps)
  BY <1>1, Sizes DEF Steps
<1>3. \A p \in DOMAIN prompts \cap DOMAIN batch :
        less(p) \in Entry /\ less(p).status = prompts[p].status
  <2> SUFFICES ASSUME NEW p \in DOMAIN prompts, p \in DOMAIN batch
               PROVE  less(p) \in Entry /\ less(p).status = prompts[p].status
    OBVIOUS
  <2>1. prompts[p] \in Entry /\ batch[p] \in Int BY DEF Entries
  <2>2. prompts[p].stored - batch[p] \in Int /\ prompts[p].status \in Statuses
    BY <2>1 DEF Entry
  <2>3. less(p) \in Entry BY <2>1, <2>2, EntryUpdate DEF Entry
  <2>4. less(p).status = prompts[p].status BY <2>1 DEF Entry
  <2>5. QED BY <2>3, <2>4
<1> HIDE DEF less
<1>4. /\ Entries(ps) /\ DOMAIN ps = DOMAIN prompts
      /\ \A p \in DOMAIN ps : ps[p].status = prompts[p].status
  BY <1>3 DEF Entries
<1> HIDE DEF ps
<1>5. /\ Entries(Live(ps)) /\ DOMAIN Live(ps) \subseteq DOMAIN ps
      /\ \A p \in DOMAIN Live(ps) : Live(ps)[p] = ps[p]
  BY <1>4, LiveEntries
<1>6. DOMAIN batch' = {} BY <1>1
<1>7. Drawn' BY <1>1, <1>4, <1>5, <1>6
<1>8. Unseen' BY <1>1, <1>4, <1>5, <1>6
<1>9. QED BY <1>1, <1>2, <1>5, <1>6, <1>7, <1>8 DEF PCs, Entries

LEMMA LoopPrompts ==
    ASSUME PromptInv, NEW p \in DOMAIN prompts, Loops(p) \/ Mishap(p) PROVE PromptInv'
<1>1. /\ Entries(prompts') /\ Keeps(prompts, prompts')
      /\ listed' = listed /\ batch' = batch
  BY LoopKeeps DEF PromptInv, BufferType, Loops, Mishap
<1>2. UNCHANGED <<pc, gs, cursor, trained>> /\ pc # "load"
  BY DEF Loops, Mishap, Running
<1>3. QED BY <1>1, <1>2 DEF Keeps, PromptInv, BufferType, LoopType, Drawn, Unseen, Entries

LEMMA CrashPrompts ==
    ASSUME PromptInv, Crash PROVE PromptInv'
BY DEF Crash, LoseQueue, Goto, PromptInv, BufferType, LoopType, Drawn, Unseen, Entries, PCs

-----------------------------------------------------------------------------
(* Every step keeps StoreInv.                                              *)

LEMMA InitStore == Init => StoreInv
BY Sizes
   DEF Init, CheckpointInit, StoreInv, StoreType, PathsInOrder, TrackerBehind, SavedSoFar,
       NamesComplete, NoFolder, Folder, FolderSet, Parts, Steps, After, EndOf

(* Outside of a save the checkpoints are left alone.                        *)
LEMMA StoreUntouched ==
    ASSUME StoreInv, UNCHANGED storeVars,
           pc \notin SavePCs \ {"actor"}, pc' \notin SavePCs \ {"actor"},
           TrackerBehind'
    PROVE  StoreInv'
<1> USE DEF StoreInv
<1>1. \A p \in Parts : /\ pc \notin After(p) /\ pc' \notin After(p)
                       /\ pc # EndOf(p) /\ pc' # EndOf(p)
  BY DEF Parts, After, EndOf, SavePCs
<1>2. StoreType' BY DEF StoreType
<1>3. PathsInOrder' BY <1>1 DEF PathsInOrder
<1>4. SavedSoFar' BY <1>1 DEF SavedSoFar, SavePCs
<1>5. NamesComplete' BY DEF NamesComplete, Complete, Whole
<1>6. QED BY <1>2, <1>3, <1>4, <1>5

(* Making room for a checkpoint removes paths, but never the newest one.    *)
LEMMA RoomMade ==
    ASSUME NEW p \in Parts, kept[p] \in Seq(Steps), MaxKeep # 1
    PROVE  /\ CapacityExcess(p) \in 0 .. Len(kept[p])
           /\ CapacityExcess(p) > 0 => CapacityExcess(p) < Len(kept[p])
           /\ MaxKeep > 1 => Len(kept[p]) - CapacityExcess(p) < MaxKeep
<1> DEFINE l == Len(kept[p])
<1>1. l \in Nat OBVIOUS
<1>2. CapacityExcess(p) = IF MaxKeep > 1 /\ l >= MaxKeep THEN l - MaxKeep + 1 ELSE 0
  BY DEF CapacityExcess
<1> HIDE DEF l
<1>3. /\ CapacityExcess(p) \in 0 .. l
      /\ CapacityExcess(p) > 0 => CapacityExcess(p) < l
      /\ MaxKeep > 1 => l - CapacityExcess(p) < MaxKeep
  <2>1. MaxKeep \in Nat BY Sizes
  <2>2. CASE MaxKeep > 1 /\ l >= MaxKeep BY <1>1, <1>2, <2>1, <2>2
  <2>3. CASE ~(MaxKeep > 1 /\ l >= MaxKeep) BY <1>1, <1>2, <2>1, <2>3
  <2>4. QED BY <2>2, <2>3
<1>4. QED BY <1>3 DEF l

LEMMA Dropped ==
    ASSUME NEW S, NEW s \in Seq(S), NEW n \in 0 .. Len(s)
    PROVE  /\ DropFirst(s, n) \in Seq(S)
           /\ Len(DropFirst(s, n)) = Len(s) - n
           /\ \A i \in DOMAIN DropFirst(s, n) :
                  i + n \in DOMAIN s /\ DropFirst(s, n)[i] = s[i + n]
BY DEF DropFirst

LEMMA BeginKeeps ==
    ASSUME MaxKeep # 1, Placed, StoreInv, NEW p \in Parts,
           pc = p, pc' = EndOf(p), BeginPart(p, gs), UNCHANGED <<gs, cursor, trained>>
    PROVE  StoreInv'
<1> DEFINE n == CapacityExcess(p)
           paths == DropFirst(kept[p], n)
           folders == Files(p, kept[p], n, gs, Folder("torn", {}))
<1> USE DEF StoreInv
<1>1. /\ saved' = [saved EXCEPT ![p] = folders] /\ kept' = [kept EXCEPT ![p] = paths]
      /\ UNCHANGED <<data, tracker>>
  BY DEF BeginPart
<1>2. /\ gs \in Steps /\ gs \in Nat
      /\ tracker \in Steps => tracker < gs
  BY DEF Placed, TrackerBehind, Parts, SavePCs
<1>3. /\ n \in 0 .. Len(kept[p]) /\ (n > 0 => n < Len(kept[p]))
      /\ MaxKeep > 1 => Len(kept[p]) - n < MaxKeep
      /\ kept[p] \in Seq(Steps)
  BY RoomMade DEF StoreType
<1>4. /\ paths \in Seq(Steps) /\ Len(paths) = Len(kept[p]) - n
      /\ \A i \in DOMAIN paths : i + n \in DOMAIN kept[p] /\ paths[i] = kept[p][i + n]
  BY <1>3, Dropped
<1>5. \A i, j \in DOMAIN kept[p] : i < j => kept[p][i] < kept[p][j]
  BY DEF PathsInOrder
<1>6. \A i \in DOMAIN kept[p] : tracker \in Steps /\ kept[p][i] <= tracker
  BY DEF PathsInOrder, After, Parts
<1>7. folders \in [Steps -> FolderSet]
  BY DEF Files, StoreType, Folder, NoFolder, FolderSet
<1>8. tracker \in Steps => folders[tracker] = saved[p][tracker]
  <2> SUFFICES ASSUME tracker \in Steps PROVE folders[tracker] = saved[p][tracker]
    OBVIOUS
  <2>1. tracker # gs BY <1>2 DEF Steps
  <2>2. ASSUME NEW i \in 1 .. n, kept[p][i] = tracker PROVE FALSE
    <3>1. i \in DOMAIN kept[p] /\ n \in DOMAIN kept[p] /\ n + 1 \in DOMAIN kept[p] /\ i < n + 1
      BY <1>3, <2>2
    <3>2. kept[p][i] < kept[p][n + 1] /\ kept[p][n + 1] <= tracker BY <1>5, <1>6, <3>1
    <3>3. kept[p][i] \in Steps /\ kept[p][n + 1] \in Steps BY <1>3, <3>1
    <3>4. QED BY <2>2, <3>2, <3>3 DEF Steps
  <2>3. QED BY <2>1, <2>2 DEF Files
<1> HIDE DEF n, paths, folders
<1>9. StoreType' BY <1>1, <1>4, <1>7 DEF StoreType
<1>10. ASSUME NEW q \in Parts, q # p
       PROVE  saved'[q] = saved[q] /\ kept'[q] = kept[q]
  BY <1>1, <1>10 DEF StoreType
<1>11. saved'[p] = folders /\ kept'[p] = paths BY <1>1 DEF StoreType
<1>12. \A q \in Parts : /\ pc' \in After(q) <=> pc \in After(q)
                        /\ q # p => pc' # EndOf(q)
                        /\ pc' \in After(q) => q # p
  BY DEF Parts, After, EndOf
<1>13. PathsInOrder'
  <2>1. ASSUME NEW q \in Parts, q # p
        PROVE  /\ \A i, j \in DOMAIN kept'[q] : i < j => kept'[q][i] < kept'[q][j]
               /\ pc' \notin After(q) =>
                      \A i \in DOMAIN kept'[q] : tracker' \in Steps /\ kept'[q][i] <= tracker'
               /\ pc' \in After(q) => \A i \in DOMAIN kept'[q] : kept'[q][i] <= gs'
               /\ pc' = EndOf(q) /\ MaxKeep > 1 => Len(kept'[q]) < MaxKeep
    BY <1>1, <1>10, <1>12, <2>1 DEF PathsInOrder
  <2>2. \A i, j \in DOMAIN paths : i < j => paths[i] < paths[j]
    <3> SUFFICES ASSUME NEW i \in DOMAIN paths, NEW j \in DOMAIN paths, i < j
                 PROVE  paths[i] < paths[j]
      OBVIOUS
    <3>1. i \in Int /\ j \in Int /\ n \in Int BY <1>3, <1>4
    <3>2. i + n < j + n BY <3>1
    <3>3. QED BY <1>4, <1>5, <3>2
  <2>3. /\ \A i \in DOMAIN paths : tracker \in Steps /\ paths[i] <= tracker
        /\ MaxKeep > 1 => Len(paths) < MaxKeep
    BY <1>3, <1>4, <1>6
  <2>4. QED BY <1>1, <1>11, <1>12, <2>1, <2>2, <2>3 DEF PathsInOrder
<1>14. TrackerBehind'
  BY <1>1, <1>2 DEF TrackerBehind, EndOf, Steps
<1>15. SavedSoFar'
  <2>1. pc' \notin {"tracker", "trackerEnd"} BY DEF EndOf
  <2>2. QED BY <1>10, <1>12, <2>1 DEF SavedSoFar
<1>16. NamesComplete'
  <2> SUFFICES ASSUME tracker \in Steps PROVE NamesComplete'
    BY <1>1 DEF NamesComplete
  <2>1. \A q \in Parts : saved'[q][tracker] = saved[q][tracker] BY <1>8, <1>10, <1>11
  <2>2. QED BY <1>1, <2>1 DEF NamesComplete, Complete, Whole, Parts
<1>17. QED BY <1>9, <1>13, <1>14, <1>15, <1>16

(* Registering a checkpoint removes none: room was made for it before, or   *)
(* all of them are kept.                                                    *)
LEMMA EndKeeps ==
    ASSUME MaxKeep # 1, Placed, StoreInv, NEW p \in Parts,
           pc = EndOf(p), pc' = (IF p = "actor" THEN "critic" ELSE "data"),
           EndPart(p, gs, trained), UNCHANGED <<gs, cursor, trained>>
    PROVE  StoreInv'
<1> DEFINE paths == Append(kept[p], gs)
           folders == Files(p, paths, 0, gs, Folder("whole", trained))
<1> USE DEF StoreInv
<1>1. /\ gs \in Steps /\ gs \in Nat
      /\ tracker \in Steps => tracker < gs
      /\ trained \in SUBSET (Nat \ {0})
  BY DEF Placed, TrackerBehind, EndOf
<1>2. kept[p] \in Seq(Steps) /\ (MaxKeep > 1 => Len(kept[p]) < MaxKeep)
  BY DEF StoreType, PathsInOrder
<1>3. RegisterExcess(p) = 0
  <2>1. Len(kept[p]) \in Nat BY <1>2
  <2>2. MaxKeep \in Nat BY Sizes
  <2>3. MaxKeep > 1 \/ MaxKeep = 0 BY <2>2
  <2>4. CASE MaxKeep = 0 BY <2>4 DEF RegisterExcess
  <2>5. CASE MaxKeep > 1
    <3>1. ~(Len(kept[p]) + 1 > MaxKeep) BY <1>2, <2>1, <2>2, <2>5
    <3>2. QED BY <3>1 DEF RegisterExcess
  <2>6. QED BY <2>3, <2>4, <2>5
<1>4. /\ paths \in Seq(Steps) /\ Len(paths) = Len(kept[p]) + 1
      /\ \A i \in DOMAIN paths :
             paths[i] = IF i = Len(kept[p]) + 1 THEN gs ELSE kept[p][i]
      /\ \A i \in DOMAIN paths : i # Len(kept[p]) + 1 => i \in DOMAIN kept[p]
  BY <1>1, <1>2
<1>5. /\ saved' = [saved EXCEPT ![p] = folders] /\ kept' = [kept EXCEPT ![p] = paths]
      /\ UNCHANGED <<data, tracker>>
  <2>1. DropFirst(paths, 0) = paths
    <3>1. paths \in Seq(Steps) /\ 0 \in 0 .. Len(paths) BY <1>4
    <3>2. QED BY <3>1 DEF DropFirst
  <2>2. QED BY <1>3, <2>1 DEF EndPart
<1>6. /\ \A i, j \in DOMAIN kept[p] : i < j => kept[p][i] < kept[p][j]
      /\ \A i \in DOMAIN kept[p] : kept[p][i] < gs
  <2>1. pc \notin After(p) BY DEF EndOf, After, Parts
  <2>2. /\ \A i, j \in DOMAIN kept[p] : i < j => kept[p][i] < kept[p][j]
        /\ \A i \in DOMAIN kept[p] : tracker \in Steps /\ kept[p][i] <= tracker
    BY <2>1 DEF PathsInOrder
  <2>3. ASSUME NEW i \in DOMAIN kept[p] PROVE kept[p][i] < gs
    <3>1. kept[p][i] \in Steps BY <1>2
    <3>2. tracker \in Nat /\ tracker < gs /\ kept[p][i] <= tracker BY <1>1, <2>2 DEF Steps
    <3>3. QED BY <1>1, <3>1, <3>2 DEF Steps
  <2>4. QED BY <2>2, <2>3
<1>7. folders = [t \in Steps |-> IF t = gs THEN Folder("whole", trained) ELSE saved[p][t]]
  BY DEF Files
<1> HIDE DEF paths, folders
<1>8. folders \in [Steps -> FolderSet]
  BY <1>1, <1>7 DEF StoreType, Folder, FolderSet
<1>9. tracker \in Steps => folders[tracker] = saved[p][tracker]
  BY <1>1, <1>7 DEF Steps
<1>10. ASSUME NEW q \in Parts, q # p
       PROVE  saved'[q] = saved[q] /\ kept'[q] = kept[q]
  BY <1>5, <1>10 DEF StoreType
<1>11. saved'[p] = folders /\ kept'[p] = paths BY <1>5 DEF StoreType
<1>12. /\ pc' \in After(p)
       /\ \A q \in Parts : /\ q # p => (pc' \in After(q) <=> pc \in After(q))
                           /\ pc' # EndOf(q)
  BY DEF Parts, After, EndOf
<1>13. PathsInOrder'
  <2>1. ASSUME NEW q \in Parts, q # p
        PROVE  /\ \A i, j \in DOMAIN kept'[q] : i < j => kept'[q][i] < kept'[q][j]
               /\ pc' \notin After(q) =>
                      \A i \in DOMAIN kept'[q] : tracker' \in Steps /\ kept'[q][i] <= tracker'
               /\ pc' \in After(q) => \A i \in DOMAIN kept'[q] : kept'[q][i] <= gs'
               /\ pc' = EndOf(q) /\ MaxKeep > 1 => Len(kept'[q]) < MaxKeep
    BY <1>5, <1>10, <1>12, <2>1 DEF PathsInOrder
  <2>2. \A i, j \in DOMAIN paths : i < j => paths[i] < paths[j]
    <3> SUFFICES ASSUME NEW i \in DOMAIN paths, NEW j \in DOMAIN paths, i < j
                 PROVE  paths[i] < paths[j]
      OBVIOUS
    <3>1. i \in 1 .. Len(kept[p]) + 1 /\ j \in 1 .. Len(kept[p]) + 1 /\ Len(kept[p]) \in Nat
      BY <1>2, <1>4
    <3>2. i # Len(kept[p]) + 1 BY <3>1
    <3>3. i \in DOMAIN kept[p] /\ paths[i] = kept[p][i] BY <1>4, <3>2
    <3>4. CASE j = Len(kept[p]) + 1 BY <1>4, <1>6, <3>3, <3>4
    <3>5. CASE j # Len(kept[p]) + 1 BY <1>4, <1>6, <3>3, <3>5
    <3>6. QED BY <3>4, <3>5
  <2>3. \A i \in DOMAIN paths : paths[i] <= gs
    <3> SUFFICES ASSUME NEW i \in DOMAIN paths PROVE paths[i] <= gs
      OBVIOUS
    <3>1. CASE i = Len(kept[p]) + 1 BY <1>1, <1>4, <3>1
    <3>2. CASE i # Len(kept[p]) + 1
      <4>1. i \in DOMAIN kept[p] /\ paths[i] = kept[p][i] BY <1>4, <3>2
      <4>2. paths[i] \in Steps /\ paths[i] < gs BY <1>2, <1>6, <4>1
      <4>3. QED BY <1>1, <4>2 DEF Steps
    <3>3. QED BY <3>1, <3>2
  <2>4. QED BY <1>11, <1>12, <2>1, <2>2, <2>3 DEF PathsInOrder
<1>14. TrackerBehind'
  BY <1>1, <1>5 DEF TrackerBehind, Steps
<1>15. SavedSoFar'
  <2>1. pc' \notin {"tracker", "trackerEnd"} OBVIOUS
  <2>2. saved'[p][gs] = Folder("whole", trained) BY <1>1, <1>7, <1>11
  <2>3. QED BY <1>10, <1>12, <2>1, <2>2 DEF SavedSoFar
<1>16. NamesComplete'
  <2> SUFFICES ASSUME tracker \in Steps PROVE NamesComplete'
    BY <1>5 DEF NamesComplete
  <2>1. \A q \in Parts : saved'[q][tracker] = saved[q][tracker] BY <1>9, <1>10, <1>11
  <2>2. QED BY <1>5, <2>1 DEF NamesComplete, Complete, Whole, Parts
<1>17. StoreType' BY <1>1, <1>4, <1>5, <1>8 DEF StoreType
<1>18. QED BY <1>13, <1>14, <1>15, <1>16, <1>17

(* The dataloader's state and the tracker come after both parts.            *)
LEMMA LastStages ==
    ASSUME Placed, StoreInv, UNCHANGED <<gs, cursor, trained>>,
           \/ pc = "data" /\ pc' = "tracker" /\ SaveData(gs, cursor)
           \/ pc = "tracker" /\ pc' = "trackerEnd" /\ OpenTracker
           \/ pc = "trackerEnd" /\ pc' = "clear" /\ WriteTracker(gs)
    PROVE  StoreInv'
<1> USE DEF StoreInv
<1>1. /\ gs \in Steps /\ cursor \in Nat
      /\ tracker \in Steps => tracker < gs
      /\ \A p \in Parts : pc \in After(p) /\ pc # EndOf(p) /\ pc' # EndOf(p)
      /\ UNCHANGED <<saved, kept>>
  BY DEF Placed, TrackerBehind, After, EndOf, Parts, SaveData, OpenTracker,
         WriteTracker
<1>2. \A p \in Parts : saved[p][gs] = Folder("whole", trained)
  BY <1>1 DEF SavedSoFar
<1>3. \A p \in Parts : /\ \A i, j \in DOMAIN kept[p] : i < j => kept[p][i] < kept[p][j]
                       /\ \A i \in DOMAIN kept[p] : kept[p][i] <= gs
  BY <1>1 DEF PathsInOrder
<1>4. CASE pc = "data" /\ pc' = "tracker" /\ SaveData(gs, cursor)
  <2>1. tracker' = tracker /\ data' = [data EXCEPT ![gs] = cursor] BY <1>4 DEF SaveData
  <2>2. StoreType' BY <1>1, <2>1 DEF StoreType
  <2>3. \A p \in Parts : pc' \in After(p) BY <1>4 DEF After
  <2>4. PathsInOrder' BY <1>1, <1>3, <2>3 DEF PathsInOrder
  <2>5. TrackerBehind' BY <1>1, <2>1 DEF TrackerBehind, Steps
  <2>6. SavedSoFar' BY <1>1, <1>2, <2>1 DEF SavedSoFar, StoreType
  <2>7. NamesComplete'
    <3>1. tracker \in Steps => data'[tracker] = data[tracker]
      BY <1>1, <2>1 DEF StoreType, Steps
    <3>2. QED BY <1>1, <2>1, <3>1 DEF NamesComplete, Complete, Whole
  <2>8. QED BY <2>2, <2>4, <2>5, <2>6, <2>7
<1>5. CASE pc = "tracker" /\ pc' = "trackerEnd" /\ OpenTracker
  <2>1. tracker' = Torn /\ data' = data /\ Torn \notin Steps
    BY <1>5, Sizes DEF OpenTracker, Steps
  <2>2. StoreType' BY <1>1, <2>1 DEF StoreType
  <2>3. \A p \in Parts : pc' \in After(p) BY <1>5 DEF After
  <2>4. PathsInOrder' BY <1>1, <1>3, <2>3 DEF PathsInOrder
  <2>5. TrackerBehind' /\ NamesComplete' BY <2>1 DEF TrackerBehind, NamesComplete
  <2>6. SavedSoFar' BY <1>1, <1>2, <1>5, <2>1 DEF SavedSoFar
  <2>7. QED BY <2>2, <2>4, <2>5, <2>6
<1>6. CASE pc = "trackerEnd" /\ pc' = "clear" /\ WriteTracker(gs)
  <2>1. tracker' = gs /\ data' = data BY <1>6 DEF WriteTracker
  <2>2. StoreType' BY <1>1, <2>1 DEF StoreType
  <2>3. \A p \in Parts : pc' \notin After(p) BY <1>6 DEF After
  <2>4. PathsInOrder' BY <1>1, <1>3, <2>1, <2>3 DEF PathsInOrder
  <2>5. TrackerBehind' BY <1>1, <1>6, <2>1 DEF TrackerBehind, Steps
  <2>6. SavedSoFar' BY <1>6, <2>3 DEF SavedSoFar
  <2>7. NamesComplete'
    <3>1. data[gs] = cursor BY <1>6 DEF SavedSoFar
    <3>2. \A p \in Parts : Folder("whole", trained) = saved'[p][tracker']
      BY <1>1, <1>2, <2>1
    <3>3. "actor" \in Parts /\ "critic" \in Parts BY DEF Parts
    <3>4. QED BY <1>1, <2>1, <3>1, <3>2, <3>3 DEF NamesComplete, Complete, Whole, Folder
  <2>8. QED BY <2>2, <2>4, <2>5, <2>6, <2>7
<1>7. QED BY <1>4, <1>5, <1>6

LEMMA SaveStore ==
    ASSUME MaxKeep # 1, Placed, StoreInv, Save PROVE StoreInv'
<1>1. UNCHANGED <<gs, cursor, trained>> BY DEF Save, SaveStage
<1>2. "actor" \in Parts /\ "critic" \in Parts /\ "actor" # "critic" BY DEF Parts
<1>3. CASE \/ SaveStage("actor", "actorEnd") /\ BeginPart("actor", gs)
           \/ SaveStage("critic", "criticEnd") /\ BeginPart("critic", gs)
  BY <1>1, <1>2, <1>3, BeginKeeps DEF SaveStage, Goto, EndOf
<1>4. CASE \/ SaveStage("actorEnd", "critic") /\ EndPart("actor", gs, trained)
           \/ SaveStage("criticEnd", "data") /\ EndPart("critic", gs, trained)
  BY <1>1, <1>2, <1>4, EndKeeps DEF SaveStage, Goto, EndOf
<1>5. CASE \/ SaveStage("data", "tracker") /\ SaveData(gs, cursor)
           \/ SaveStage("tracker", "trackerEnd") /\ OpenTracker
           \/ SaveStage("trackerEnd", "clear") /\ WriteTracker(gs)
  BY <1>1, <1>5, LastStages DEF SaveStage, Goto
<1>6. QED BY <1>3, <1>4, <1>5 DEF Save

LEMMA CrashStore ==
    ASSUME StoreInv, Crash PROVE StoreInv'
<1> USE DEF StoreInv
<1>1. /\ pc' = "load" /\ kept' = [p \in Parts |-> <<>>]
      /\ UNCHANGED <<saved, data, tracker>>
  BY DEF Crash, ForgetPaths, Goto
<1>2. StoreType' BY <1>1 DEF StoreType
<1>3. \A p \in Parts : pc' \notin After(p) /\ pc' # EndOf(p)
  BY <1>1 DEF After, EndOf
<1>4. \A p \in Parts : DOMAIN kept'[p] = {} BY <1>1
<1>5. PathsInOrder' BY <1>3, <1>4 DEF PathsInOrder
<1>6. SavedSoFar' BY <1>1, <1>3 DEF SavedSoFar
<1>7. TrackerBehind' BY <1>1 DEF TrackerBehind
<1>8. NamesComplete' BY <1>1 DEF NamesComplete, Complete, Whole
<1>9. QED BY <1>2, <1>5, <1>6, <1>7, <1>8

(* The steps that leave the checkpoints alone.                              *)
LEMMA OtherStore ==
    ASSUME Placed, StoreInv,
           \/ Load \/ AddBatch \/ Poll \/ SampleBatch \/ FillBatch \/ BalanceBatch \/ Train
           \/ EndStep
           \/ \E p \in DOMAIN prompts : Loops(p) \/ Mishap(p)
    PROVE  StoreInv'
<1> USE DEF StoreInv
<1>1. CASE Load
  <2>1. /\ UNCHANGED storeVars /\ pc = "load" /\ pc' \in {"stuck", "done", "add"}
        /\ tracker \in Steps => pc' = "stuck" \/ gs' = tracker + 1
    BY <1>1, Sizes DEF Load, Begin, Goto, Steps
  <2>2. TrackerBehind' BY <2>1 DEF TrackerBehind, Steps
  <2>3. QED BY <2>1, <2>2, StoreUntouched DEF SavePCs
<1>2. CASE AddBatch \/ Poll \/ SampleBatch \/ FillBatch \/ BalanceBatch
  <2>1. /\ UNCHANGED storeVars /\ gs' = gs
        /\ pc \in {"add", "sample", "select", "fill", "balance"}
        /\ pc' \in {"add", "sample", "select", "fill", "balance", "raised", "train"}
    BY <1>2 DEF AddBatch, Poll, SampleBatch, FillBatch, BalanceBatch, Goto
  <2>2. TrackerBehind' BY <2>1 DEF TrackerBehind
  <2>3. QED BY <2>1, <2>2, StoreUntouched DEF SavePCs
<1>3. CASE Train
  <2>1. /\ UNCHANGED storeVars /\ gs' = gs /\ pc = "train" /\ pc' \in {"actor", "clear"}
    BY <1>3 DEF Train, Goto
  <2>2. TrackerBehind' BY <2>1 DEF TrackerBehind
  <2>3. QED BY <2>1, <2>2, StoreUntouched DEF SavePCs
<1>4. CASE EndStep
  <2>1. /\ UNCHANGED storeVars /\ gs' = gs + 1 /\ pc = "clear" /\ pc' \in {"done", "add"}
    BY <1>4 DEF EndStep, Begin
  <2>2. gs \in Nat BY DEF Placed
  <2>3. TrackerBehind' BY <2>1, <2>2 DEF TrackerBehind, Steps
  <2>4. QED BY <2>1, <2>3, StoreUntouched DEF SavePCs
<1>5. CASE \E p \in DOMAIN prompts : Loops(p) \/ Mishap(p)
  <2>1. UNCHANGED <<storeVars, pc, gs, cursor, trained>> BY <1>5 DEF Loops, Mishap
  <2>2. QED
    BY <2>1 DEF StoreType, PathsInOrder, TrackerBehind, SavedSoFar, NamesComplete, Complete, Whole
<1>6. QED BY <1>1, <1>2, <1>3, <1>4, <1>5

-----------------------------------------------------------------------------
(* Every step keeps WeightsInv, for every number of checkpoints to keep.    *)

LEMMA InitWeights == Init => WeightsInv
BY Sizes
   DEF Init, CheckpointInit, WeightsInv, StoreType, TrackerBehind, SavedWeights, WeightsBehind,
       NoFolder, Folder, FolderSet, Parts, Steps, After

\* Outside of a save the checkpoints are left alone.
LEMMA WeightsUntouched ==
    ASSUME WeightsInv, UNCHANGED storeVars,
           pc \notin SavePCs \ {"actor"}, pc' \notin SavePCs \ {"actor"},
           TrackerBehind'
    PROVE  WeightsInv'
BY DEF WeightsInv, StoreType, SavedWeights, WeightsBehind, After, SavePCs

LEMMA PathsTyped ==
    ASSUME StoreType, NEW p \in Parts, NEW s \in Steps
    PROVE  /\ DropFirst(kept[p], CapacityExcess(p)) \in Seq(Steps)
           /\ DropFirst(Append(kept[p], s), RegisterExcess(p)) \in Seq(Steps)
<1>1. kept[p] \in Seq(Steps) /\ Len(kept[p]) \in Nat BY DEF StoreType
<1>2. MaxKeep \in Nat BY Sizes
<1>3. CapacityExcess(p) \in 0 .. Len(kept[p])
  <2>1. CASE MaxKeep > 1 /\ Len(kept[p]) >= MaxKeep BY <1>1, <1>2, <2>1 DEF CapacityExcess
  <2>2. CASE ~(MaxKeep > 1 /\ Len(kept[p]) >= MaxKeep) BY <1>1, <2>2 DEF CapacityExcess
  <2>3. QED BY <2>1, <2>2
<1>4. RegisterExcess(p) \in 0 .. Len(kept[p]) + 1
  <2>1. CASE MaxKeep > 0 /\ Len(kept[p]) + 1 > MaxKeep BY <1>1, <1>2, <2>1 DEF RegisterExcess
  <2>2. CASE ~(MaxKeep > 0 /\ Len(kept[p]) + 1 > MaxKeep) BY <1>1, <2>2 DEF RegisterExcess
  <2>3. QED BY <2>1, <2>2
<1>5. Append(kept[p], s) \in Seq(Steps) /\ Len(Append(kept[p], s)) = Len(kept[p]) + 1 BY <1>1
<1>6. QED BY <1>1, <1>3, <1>4, <1>5, Dropped

\* A part is written for the present step, which the tracker does not name yet.
LEMMA PartWeights ==
    ASSUME PromptInv, WeightsInv, NEW p \in Parts, NEW folder \in FolderSet, NEW paths, NEW n,
           NEW seq \in Seq(Steps),
           saved' = [saved EXCEPT ![p] = Files(p, paths, n, gs, folder)],
           kept' = [kept EXCEPT ![p] = seq],
           UNCHANGED <<data, tracker, gs, cursor, trained>>,
           pc \in SavePCs, pc' \in SavePCs, pc' \notin {"tracker", "trackerEnd"},
           p = "actor" /\ pc' \in After("actor") => folder.weights = trained,
           p # "actor" => (pc' \in After("actor") => pc \in After("actor"))
    PROVE  WeightsInv'
<1> USE DEF WeightsInv
<1>1. gs \in Steps /\ (tracker \in Steps => tracker # gs)
  <2>1. gs \in Steps BY DEF PromptInv, LoopType, SavePCs
  <2>2. pc \notin {"load", "stuck", "clear"} BY DEF SavePCs
  <2>3. tracker \in Steps => tracker < gs BY <2>2 DEF TrackerBehind
  <2>4. QED BY <2>1, <2>3 DEF Steps
<1> DEFINE folders == Files(p, paths, n, gs, folder)
<1>2. /\ folders \in [Steps -> FolderSet] /\ folders[gs] = folder
      /\ \A t \in Steps : t # gs => folders[t].weights \subseteq saved[p][t].weights
  BY <1>1 DEF Files, StoreType, NoFolder, Folder, FolderSet
<1> HIDE DEF folders
<1>3. saved \in [Parts -> [Steps -> FolderSet]] /\ kept \in [Parts -> Seq(Steps)]
  BY DEF StoreType
<1>4. /\ saved' = [saved EXCEPT ![p] = folders] BY DEF folders
<1>5. saved'[p] = folders /\ \A q \in Parts : q # p => saved'[q] = saved[q] BY <1>3, <1>4
<1>6. StoreType'
  <2>1. saved' \in [Parts -> [Steps -> FolderSet]] BY <1>2, <1>3, <1>4
  <2>2. kept' \in [Parts -> Seq(Steps)] BY <1>3
  <2>3. QED BY <2>1, <2>2 DEF StoreType
<1>7. TrackerBehind'
  <2>1. pc \notin {"load", "stuck", "clear"} BY DEF SavePCs
  <2>2. QED BY <2>1 DEF TrackerBehind
<1>8. SavedWeights'
  <2>1. ASSUME pc' \in After("actor") PROVE saved'["actor"][gs].weights = trained
    <3>1. CASE p = "actor" BY <1>2, <1>5, <2>1, <3>1
    <3>2. CASE p # "actor"
      <4>1. saved'["actor"] = saved["actor"] BY <1>5, <3>2 DEF Parts
      <4>2. QED BY <2>1, <3>2, <4>1 DEF SavedWeights
    <3>3. QED BY <3>1, <3>2
  <2>2. QED BY <2>1 DEF SavedWeights
<1>9. WeightsBehind'
  <2> SUFFICES ASSUME tracker \in Steps, NEW q \in saved'["actor"][tracker].weights
               PROVE  q \in saved["actor"][tracker].weights
    BY DEF WeightsBehind
  <2>1. CASE p = "actor" BY <1>1, <1>2, <1>5, <2>1
  <2>2. CASE p # "actor" BY <1>5, <2>2 DEF Parts
  <2>3. QED BY <2>1, <2>2
<1>10. QED BY <1>6, <1>7, <1>8, <1>9

LEMMA SaveWeights ==
    ASSUME PromptInv, WeightsInv, Save PROVE WeightsInv'
<1>0. /\ "actor" \in Parts /\ "critic" \in Parts /\ "actor" # "critic" /\ StoreType
      /\ Folder("torn", {}) \in FolderSet /\ Folder("whole", trained) \in FolderSet
      /\ Folder("whole", trained).weights = trained
  <2>1. trained \subseteq Nat \ {0} BY DEF PromptInv, LoopType, Drawn
  <2>2. QED BY <2>1 DEF Parts, WeightsInv, Folder, FolderSet
<1>1. UNCHANGED <<gs, cursor, trained>> /\ pc \in SavePCs BY DEF Save, SaveStage, SavePCs
<1>2. gs \in Steps BY <1>1 DEF PromptInv, LoopType, SavePCs
<1>3. ASSUME NEW p \in Parts
      PROVE  /\ DropFirst(kept[p], CapacityExcess(p)) \in Seq(Steps)
             /\ DropFirst(Append(kept[p], gs), RegisterExcess(p)) \in Seq(Steps)
             /\ kept[p] = kept[p]
  BY <1>0, <1>2, PathsTyped
<1>4. CASE SaveStage("actor", "actorEnd") /\ BeginPart("actor", gs)
  <2>1. /\ pc = "actor" /\ pc' = "actorEnd" /\ UNCHANGED <<data, tracker>>
        /\ saved' = [saved EXCEPT !["actor"] =
                       Files("actor", kept["actor"], CapacityExcess("actor"), gs, Folder("torn", {}))]
        /\ kept' = [kept EXCEPT !["actor"] = DropFirst(kept["actor"], CapacityExcess("actor"))]
    BY <1>4 DEF SaveStage, Goto, BeginPart
  <2>2. pc' \notin After("actor") /\ pc' \in SavePCs BY <2>1 DEF After, SavePCs
  <2>3. QED BY <1>0, <1>1, <1>3, <2>1, <2>2, PartWeights
<1>5. CASE SaveStage("actorEnd", "critic") /\ EndPart("actor", gs, trained)
  <2>1. /\ pc = "actorEnd" /\ pc' = "critic" /\ UNCHANGED <<data, tracker>>
        /\ saved' = [saved EXCEPT !["actor"] =
                       Files("actor", Append(kept["actor"], gs), RegisterExcess("actor"), gs,
                             Folder("whole", trained))]
        /\ kept' = [kept EXCEPT !["actor"] =
                      DropFirst(Append(kept["actor"], gs), RegisterExcess("actor"))]
    BY <1>5 DEF SaveStage, Goto, EndPart
  <2>2. pc' \in SavePCs BY <2>1 DEF SavePCs
  <2>3. QED BY <1>0, <1>1, <1>3, <2>1, <2>2, PartWeights
<1>6. CASE SaveStage("critic", "criticEnd") /\ BeginPart("critic", gs)
  <2>1. /\ pc = "critic" /\ pc' = "criticEnd" /\ UNCHANGED <<data, tracker>>
        /\ saved' = [saved EXCEPT !["critic"] =
                       Files("critic", kept["critic"], CapacityExcess("critic"), gs,
                             Folder("torn", {}))]
        /\ kept' = [kept EXCEPT !["critic"] = DropFirst(kept["critic"], CapacityExcess("critic"))]
    BY <1>6 DEF SaveStage, Goto, BeginPart
  <2>2. pc \in After("actor") /\ pc' \in SavePCs BY <2>1 DEF After, SavePCs
  <2>3. QED BY <1>0, <1>1, <1>3, <2>1, <2>2, PartWeights
<1>7. CASE SaveStage("criticEnd", "data") /\ EndPart("critic", gs, trained)
  <2>1. /\ pc = "criticEnd" /\ pc' = "data" /\ UNCHANGED <<data, tracker>>
        /\ saved' = [saved EXCEPT !["critic"] =
                       Files("critic", Append(kept["critic"], gs), RegisterExcess("critic"), gs,
                             Folder("whole", trained))]
        /\ kept' = [kept EXCEPT !["critic"] =
                      DropFirst(Append(kept["critic"], gs), RegisterExcess("critic"))]
    BY <1>7 DEF SaveStage, Goto, EndPart
  <2>2. pc \in After("actor") /\ pc' \in SavePCs BY <2>1 DEF After, SavePCs
  <2>3. QED BY <1>0, <1>1, <1>3, <2>1, <2>2, PartWeights
<1>8. CASE \/ SaveStage("data", "tracker") /\ SaveData(gs, cursor)
           \/ SaveStage("tracker", "trackerEnd") /\ OpenTracker
           \/ SaveStage("trackerEnd", "clear") /\ WriteTracker(gs)
  <2>1. /\ saved' = saved /\ kept' = kept
        /\ \/ /\ pc = "data" /\ pc' = "tracker" /\ data' = [data EXCEPT ![gs] = cursor]
              /\ tracker' = tracker
           \/ pc = "tracker" /\ pc' = "trackerEnd" /\ data' = data /\ tracker' = Torn
           \/ pc = "trackerEnd" /\ pc' = "clear" /\ data' = data /\ tracker' = gs
    BY <1>8 DEF SaveStage, Goto, SaveData, OpenTracker, WriteTracker
  <2>2. /\ cursor \in Nat /\ trained \subseteq 1 .. cursor /\ Torn \notin Steps
        /\ saved["actor"][gs].weights = trained
        /\ data \in [Steps -> Nat \cup {Absent}] /\ gs \in Nat
        /\ tracker \in Steps => tracker < gs
    <3>1. saved["actor"][gs].weights = trained BY <2>1 DEF WeightsInv, SavedWeights, After
    <3>2. tracker \in Steps => tracker < gs BY <2>1 DEF WeightsInv, TrackerBehind
    <3>3. QED BY <1>0, <3>1, <3>2, Sizes DEF PromptInv, LoopType, Drawn, Steps, StoreType
  <2>3. StoreType' BY <1>0, <1>2, <2>1, <2>2 DEF StoreType
  <2>4. TrackerBehind'
    <3>1. pc # "clear" => tracker' \notin Steps \/ tracker' = tracker \/ pc' = "clear"
      BY <2>1, <2>2
    <3>2. tracker' \in Steps => tracker' = gs \/ tracker' < gs BY <2>1, <2>2
    <3>3. tracker' \in Steps /\ pc' # "clear" => tracker' < gs BY <2>1, <2>2
    <3>4. tracker' \in Steps => tracker' <= gs BY <2>2, <3>2, Sizes DEF Steps
    <3>5. QED BY <1>1, <3>3, <3>4 DEF TrackerBehind
  <2>5. SavedWeights'
    <3>1. pc = "data" => data'[gs] = cursor BY <1>2, <2>1, <2>2
    <3>2. pc = "tracker" => data[gs] = cursor BY DEF WeightsInv, SavedWeights
    <3>3. QED BY <1>1, <2>1, <2>2, <3>1, <3>2 DEF SavedWeights, After
  <2>6. WeightsBehind'
    <3>1. CASE pc = "data" BY <1>1, <1>2, <2>1, <2>2, <3>1 DEF WeightsInv, WeightsBehind, Steps
    <3>2. CASE pc = "tracker" BY <2>1, <2>2, <3>2 DEF WeightsBehind
    <3>3. CASE pc = "trackerEnd"
      <4>1. data[gs] = cursor BY <3>3 DEF WeightsInv, SavedWeights
      <4>2. tracker' = gs /\ data' = data /\ saved' = saved BY <2>1, <3>3
      <4>3. data[gs] \in Nat /\ \A q \in saved["actor"][gs].weights : q <= data[gs]
        <5>1. \A q \in trained : q <= cursor BY <2>2
        <5>2. saved["actor"][gs].weights = trained BY <2>2
        <5>3. QED BY <2>2, <4>1, <5>1, <5>2
      <4>4. QED BY <4>2, <4>3 DEF WeightsBehind
    <3>4. QED BY <2>1, <3>1, <3>2, <3>3
  <2>7. QED BY <2>3, <2>4, <2>5, <2>6 DEF WeightsInv
<1>9. QED BY <1>4, <1>5, <1>6, <1>7, <1>8 DEF Save

LEMMA CrashWeights ==
    ASSUME WeightsInv, Crash PROVE WeightsInv'
<1>1. /\ pc' = "load" /\ kept' = [p \in Parts |-> <<>>]
      /\ UNCHANGED <<saved, data, tracker>>
  BY DEF Crash, ForgetPaths, Goto
<1>2. QED
  BY <1>1 DEF WeightsInv, StoreType, TrackerBehind, SavedWeights, WeightsBehind, After

\* The steps that leave the checkpoints alone.
LEMMA OtherWeights ==
    ASSUME PromptInv, WeightsInv,
           \/ Load \/ AddBatch \/ Poll \/ SampleBatch \/ FillBatch \/ BalanceBatch \/ Train
           \/ EndStep
           \/ \E p \in DOMAIN prompts : Loops(p) \/ Mishap(p)
    PROVE  WeightsInv'
<1> USE DEF WeightsInv
<1>1. CASE Load
  <2>1. /\ UNCHANGED storeVars /\ pc = "load" /\ pc' \in {"stuck", "done", "add"}
        /\ tracker \in Steps => pc' = "stuck" \/ gs' = tracker + 1
    BY <1>1, Sizes DEF Load, Begin, Goto, Steps
  <2>2. TrackerBehind' BY <2>1 DEF TrackerBehind, Steps
  <2>3. QED BY <2>1, <2>2, WeightsUntouched DEF SavePCs
<1>2. CASE AddBatch \/ Poll \/ SampleBatch \/ FillBatch \/ BalanceBatch \/ Train
  <2>1. /\ UNCHANGED storeVars /\ gs' = gs
        /\ pc \in {"add", "sample", "select", "fill", "balance", "train"}
        /\ pc' \in {"add", "sample", "select", "fill", "balance", "raised", "train", "actor", "clear"}
    BY <1>2 DEF AddBatch, Poll, SampleBatch, FillBatch, BalanceBatch, Train, Goto
  <2>2. TrackerBehind' BY <2>1 DEF TrackerBehind
  <2>3. QED BY <2>1, <2>2, WeightsUntouched DEF SavePCs
<1>3. CASE EndStep
  <2>1. /\ UNCHANGED storeVars /\ gs' = gs + 1 /\ pc = "clear" /\ pc' \in {"done", "add"}
    BY <1>3 DEF EndStep, Begin
  <2>2. gs \in Nat BY DEF PromptInv, LoopType
  <2>3. TrackerBehind' BY <2>1, <2>2 DEF TrackerBehind, Steps
  <2>4. QED BY <2>1, <2>3, WeightsUntouched DEF SavePCs
<1>4. CASE \E p \in DOMAIN prompts : Loops(p) \/ Mishap(p)
  <2>1. UNCHANGED <<storeVars, pc, gs, cursor, trained>> BY <1>4 DEF Loops, Mishap
  <2>2. QED BY <2>1 DEF StoreType, TrackerBehind, SavedWeights, WeightsBehind
<1>5. QED BY <1>1, <1>2, <1>3, <1>4

(* Every step keeps the prompts and the weights in order, whatever number   *)
(* of checkpoints is kept.                                                  *)
LEMMA StepWeights ==
    ASSUME PromptInv, WeightsInv, [Next]_vars PROVE PromptInv' /\ WeightsInv'
<1>1. CASE UNCHANGED vars
  BY <1>1
  DEF vars, PromptInv, BufferType, LoopType, Drawn, Unseen, Entries, WeightsInv, StoreType,
      TrackerBehind, SavedWeights, WeightsBehind
<1>2. CASE Next
  <2>1. PromptInv'
    BY <1>2, LoadPrompts, AddPrompts, PollPrompts, SamplePrompts, TrainPrompts, SavePrompts,
       EndStepPrompts, LoopPrompts, CrashPrompts DEF Next, Trainer
  <2>2. WeightsInv' BY <1>2, OtherWeights, SaveWeights, CrashWeights DEF Next, Trainer
  <2>3. QED BY <2>1, <2>2
<1>3. QED BY <1>1, <1>2

-----------------------------------------------------------------------------
(* The theorems.                                                           *)

LEMMA PromptsPlaced == PromptInv => Placed
BY DEF PromptInv, LoopType, Drawn, Placed

\* What every step keeps, when not just one checkpoint is kept.
LEMMA StepKeeps ==
    ASSUME MaxKeep # 1, PromptInv, StoreInv, [Next]_vars PROVE StoreInv'
<1>1. CASE UNCHANGED vars
  BY <1>1
  DEF vars, StoreInv, StoreType, PathsInOrder, TrackerBehind, SavedSoFar, NamesComplete,
      Complete, Whole
<1>2. CASE Next
  BY <1>2, PromptsPlaced, OtherStore, SaveStore, CrashStore DEF Next, Trainer
<1>3. QED BY <1>1, <1>2

(* Whenever the job dies, the checkpoint the tracker names is whole, of one *)
(* step, and its dataloader goes on behind the prompts its weights have     *)
(* seen (_save_checkpoint, ensure_checkpoint_capacity, register_checkpoint).*)
THEOREM NamesWhole ==
    ASSUME MaxKeep # 1 PROVE Spec => []TrackerNamesWhole
<1> DEFINE Inv == PromptInv /\ WeightsInv /\ StoreInv
<1>1. Init => Inv BY InitPrompts, InitWeights, InitStore
<1>2. Inv /\ [Next]_vars => Inv' BY StepWeights, StepKeeps
<1>3. Inv => TrackerNamesWhole
  BY DEF WeightsInv, WeightsBehind, StoreInv, NamesComplete, TrackerNamesWhole, BehindDataloader
<1>4. QED BY <1>1, <1>2, <1>3, PTL DEF Spec

(* The weights of a V1 trainer see no prompt twice, however often it        *)
(* crashed and was resumed (_load_checkpoint, the dataloader's state).      *)
THEOREM PromptsOnce == Spec => []NoPromptTwice
<1>1. Init => PromptInv /\ WeightsInv BY InitPrompts, InitWeights
<1>2. PromptInv /\ WeightsInv /\ [Next]_vars => (PromptInv /\ WeightsInv)' BY StepWeights
<1>3. PromptInv /\ WeightsInv => NoPromptTwice
  BY DEF PromptInv, Unseen, NoPromptTwice
<1>4. QED BY <1>1, <1>2, <1>3, PTL DEF Spec

-----------------------------------------------------------------------------
(* The prompts a resumed job skips, for every number of checkpoints.       *)

\* How far the dataloader may have come in step s of life c of the job.
Reach(s, c) == BatchSize * (s + Warmup * (c + 1))

SkipType == /\ gs \in Nat /\ toAdd \in Nat /\ cursor \in Nat /\ crashes \in Nat
            /\ data \in [Steps -> Nat \cup {Absent}]
            /\ tracker \in {Absent, Torn} \cup Steps
            /\ pc \notin {"load", "done", "stuck"} => gs \in Steps
            /\ pc = "add" => toAdd > 0
            /\ pc \in {"load", "stuck"} => gs = 0 /\ cursor = 0
            /\ pc = "load" /\ crashes = 0 => tracker = Absent

\* The life of the job that the checkpoints on the disk are of, at most.
Life == IF pc = "load" THEN crashes - 1 ELSE crashes

SkipInv ==
    /\ SkipType
    /\ \A s \in Steps : data[s] \in Nat => data[s] <= Reach(s, Life)
    /\ pc = "add" => cursor + BatchSize * toAdd <= Reach(gs, crashes)
    /\ pc # "load" => cursor <= Reach(gs, crashes)

LEMMA ReachGrows ==
    ASSUME NEW s \in Nat, NEW c \in Nat
    PROVE  /\ Reach(s, c) \in Nat
           /\ Reach(s + 1, c) = Reach(s, c) + BatchSize
           /\ Reach(s, c) = Reach(s, c - 1) + BatchSize * Warmup
           /\ Reach(s, c - 1) \in Nat
           /\ BatchSize * (Warmup + 1) = BatchSize * Warmup + BatchSize
           /\ BatchSize * Warmup \in Nat
<1>1. BatchSize \in Nat /\ Warmup \in Nat BY Sizes
<1> DEFINE w == Warmup * c
<1>2. w \in Nat /\ Warmup * (c + 1) = w + Warmup /\ c - 1 + 1 = c BY <1>1
<1>3. /\ Reach(s, c) = BatchSize * (s + w + Warmup) /\ Reach(s, c - 1) = BatchSize * (s + w)
      /\ Reach(s + 1, c) = BatchSize * (s + w + Warmup + 1)
  BY <1>1, <1>2 DEF Reach
<1> HIDE DEF w
<1>4. QED BY <1>1, <1>2, <1>3

LEMMA InitSkips == Init => SkipInv
<1> SUFFICES ASSUME Init PROVE SkipInv OBVIOUS
<1>1. SkipType BY DEF Init, CheckpointInit, SkipType
<1>2. \A s \in Steps : data[s] \notin Nat BY Sizes DEF Init, CheckpointInit
<1>3. pc = "load" BY DEF Init
<1>4. QED BY <1>1, <1>2, <1>3 DEF SkipInv

(* A resumed job draws its warm-up batches once more.                       *)
LEMMA LoadSkips == ASSUME SkipInv, Load PROVE SkipInv'
<1> USE DEF SkipInv, SkipType
<1>1. /\ pc = "load" /\ gs = 0 /\ cursor = 0
      /\ data' = data /\ tracker' = tracker /\ crashes' = crashes
      /\ pc' \in {"add", "done", "stuck"}
  BY DEF Load, Begin, Goto
<1>2. /\ BatchSize \in Nat /\ Warmup \in Nat /\ 1 \in Steps /\ 1 <= TotalSteps
      /\ TotalSteps \in Steps /\ Absent \notin Nat
  BY Sizes DEF Steps
<1>3. \A s \in Steps : data'[s] \in Nat => data'[s] <= Reach(s, Life')
  <2> SUFFICES ASSUME NEW s \in Steps, data[s] \in Nat PROVE data[s] <= Reach(s, Life')
    BY <1>1
  <2>1. data[s] <= Reach(s, crashes - 1) /\ Life' = crashes BY <1>1 DEF Life
  <2>2. s \in Nat BY DEF Steps
  <2>3. /\ BatchSize * Warmup \in Nat /\ Reach(s, crashes - 1) \in Nat
        /\ Reach(s, crashes) = Reach(s, crashes - 1) + BatchSize * Warmup
    BY <2>2, ReachGrows
  <2>4. QED BY <2>1, <2>3
<1>4. ASSUME NEW t \in Nat, NEW from \in Nat, from <= Reach(t, crashes - 1) \/ from = 0,
             t + 1 \in Nat, t <= MaxStep, Begin(t + 1, Warmup + 1, from)
      PROVE  SkipInv'
  <2>1. /\ gs' = t + 1 /\ toAdd' = Warmup + 1 /\ cursor' = from
        /\ pc' = IF t + 1 > TotalSteps THEN "done" ELSE "add"
    BY <1>4 DEF Begin
  <2>2. pc' = "add" => gs' \in Steps BY <2>1, Sizes DEF Steps
  <2>3. SkipType' BY <1>1, <1>2, <2>1, <2>2
  <2>4. /\ BatchSize * (Warmup + 1) = BatchSize * Warmup + BatchSize
        /\ BatchSize * Warmup \in Nat
        /\ Reach(t, crashes) = Reach(t, crashes - 1) + BatchSize * Warmup
        /\ Reach(t + 1, crashes) = Reach(t, crashes) + BatchSize
        /\ Reach(t, crashes - 1) \in Nat
    BY <1>4, ReachGrows
  <2>5. from + BatchSize * (Warmup + 1) <= Reach(t + 1, crashes) BY <1>2, <1>4, <2>4
  <2>6. from <= Reach(t + 1, crashes) BY <1>2, <1>4, <2>4
  <2>7. QED BY <1>1, <1>3, <2>1, <2>3, <2>5, <2>6
<1>5. CASE tracker = Absent
  <2>1. Begin(0 + 1, Warmup + 1, 0) BY <1>5 DEF Load
  <2>2. QED BY <1>4, <2>1, Sizes
<1>6. CASE pc' = "stuck"
  <2>1. UNCHANGED <<gs, toAdd, cursor>> BY <1>1, <1>6 DEF Load, Begin
  <2>2. 0 <= Reach(0, crashes)
    <3>1. Reach(0, crashes) \in Nat BY ReachGrows
    <3>2. QED BY <3>1
  <2>3. QED BY <1>1, <1>3, <1>6, <2>1, <2>2
<1>7. CASE tracker # Absent /\ pc' # "stuck"
  <2>1. /\ tracker \in Steps
        /\ Begin(tracker + 1, Warmup + 1, IF data[tracker] = Absent THEN 0 ELSE data[tracker])
    BY <1>7 DEF Load, Goto
  <2>2. tracker \in Nat /\ tracker <= MaxStep BY <2>1 DEF Steps
  <2>3. data[tracker] \in Nat => data[tracker] <= Reach(tracker, crashes - 1)
    BY <1>1, <2>1 DEF Life
  <2>4. QED BY <1>2, <1>4, <2>1, <2>2, <2>3
<1>8. QED BY <1>5, <1>6, <1>7

LEMMA StepSkips ==
    ASSUME SkipInv, [Next]_vars, ~Load PROVE SkipInv'
<1> USE DEF SkipInv, SkipType
<1>0. /\ BatchSize \in Nat /\ Warmup \in Nat /\ TotalSteps \in Steps
      /\ Absent \notin Nat /\ Torn \notin Nat
      /\ Reach(gs, crashes) \in Nat /\ Reach(gs + 1, crashes) = Reach(gs, crashes) + BatchSize
  BY Sizes, ReachGrows
<1>1. CASE AddBatch
  <2>1. /\ pc = "add" /\ cursor' = cursor + BatchSize /\ toAdd' = toAdd - 1
        /\ pc' = IF toAdd = 1 THEN "sample" ELSE "add"
        /\ UNCHANGED <<gs, data, tracker, crashes>>
    BY <1>1 DEF AddBatch
  <2>2. /\ BatchSize * toAdd = BatchSize * (toAdd - 1) + BatchSize
        /\ BatchSize * (toAdd - 1) \in Nat
    BY <1>0, <2>1
  <2>3. SkipType' BY <1>0, <2>1
  <2>4. cursor' + BatchSize * toAdd' <= Reach(gs', crashes') BY <1>0, <2>1, <2>2
  <2>5. cursor' <= Reach(gs', crashes') BY <1>0, <2>1, <2>2
  <2>6. Life' = Life BY <2>1 DEF Life
  <2>7. QED BY <2>1, <2>3, <2>4, <2>5, <2>6
<1>2. CASE EndStep
  <2>1. /\ pc = "clear" /\ gs' = gs + 1 /\ toAdd' = 1 /\ cursor' = cursor
        /\ pc' = IF gs + 1 > TotalSteps THEN "done" ELSE "add"
        /\ UNCHANGED <<data, tracker, crashes>>
    BY <1>2 DEF EndStep, Begin
  <2>2. pc' = "add" => gs' \in Steps BY <2>1, Sizes DEF Steps
  <2>3. SkipType' BY <2>1, <2>2
  <2>4. cursor' + BatchSize * toAdd' <= Reach(gs', crashes') BY <1>0, <2>1
  <2>5. cursor' <= Reach(gs', crashes') BY <1>0, <2>1
  <2>6. Life' = Life BY <2>1 DEF Life
  <2>7. QED BY <2>1, <2>3, <2>4, <2>5, <2>6
<1>3. CASE Save
  <2>1. /\ pc \in SavePCs /\ pc' \in SavePCs \cup {"clear"}
        /\ UNCHANGED <<gs, toAdd, cursor, crashes>>
        /\ tracker' \in {tracker, Torn, gs}
        /\ data' \in {data, [data EXCEPT ![gs] = cursor]}
    BY <1>3
    DEF Save, SaveStage, Goto, BeginPart, EndPart, SaveData, OpenTracker, WriteTracker, SavePCs
  <2>2. SkipType' BY <2>1 DEF SavePCs
  <2>3. Life = crashes /\ Life' = crashes BY <2>1 DEF Life, SavePCs
  <2>4. cursor <= Reach(gs, crashes) BY <2>1 DEF SavePCs
  <2>5. \A s \in Steps : data'[s] \in Nat => data'[s] <= Reach(s, Life')
    BY <2>1, <2>3, <2>4
  <2>6. QED BY <2>1, <2>2, <2>4, <2>5 DEF SavePCs
<1>4. CASE Crash
  <2>1. /\ pc # "load" /\ pc' = "load" /\ crashes' = crashes + 1
        /\ gs' = 0 /\ toAdd' = 0 /\ cursor' = 0
        /\ UNCHANGED <<data, tracker>>
    BY <1>4 DEF Crash, Goto, ForgetPaths
  <2>2. SkipType' BY <2>1
  <2>3. Life' = Life BY <2>1 DEF Life
  <2>4. QED BY <2>1, <2>2, <2>3
<1>5. CASE \/ Poll \/ SampleBatch \/ FillBatch \/ BalanceBatch \/ Train
           \/ \E p \in DOMAIN prompts : Loops(p) \/ Mishap(p)
           \/ UNCHANGED vars
  <2>1. /\ UNCHANGED <<gs, toAdd, cursor, crashes, data, tracker>>
        /\ \/ pc' = pc
           \/ /\ pc \in {"sample", "select", "fill", "balance", "train"}
              /\ pc' \in {"select", "fill", "raised", "balance", "train", "actor", "clear"}
    BY <1>5 DEF Poll, SampleBatch, FillBatch, BalanceBatch, Train, Loops, Mishap, vars, Goto
  <2>2. SkipType' BY <2>1
  <2>3. Life' = Life BY <2>1 DEF Life
  <2>4. QED BY <2>1, <2>2, <2>3
<1>6. QED BY <1>1, <1>2, <1>3, <1>4, <1>5 DEF Next, Trainer

(* A resumed job skips the Warmup batches that were in flight when its      *)
(* checkpoint was saved, and no other prompts (_load_checkpoint,            *)
(* _add_batch_to_generate).                                                 *)
THEOREM FewSkipped == Spec => []SkipsBounded
<1>1. Init => SkipInv BY InitSkips
<1>2. SkipInv /\ [Next]_vars => SkipInv' BY LoadSkips, StepSkips
<1>3. SkipInv => SkipsBounded BY DEF SkipInv, SkipsBounded, Reach
<1>4. QED BY <1>1, <1>2, <1>3, PTL DEF Spec

-----------------------------------------------------------------------------
(* The sessions of a prompt: what is going on, what is stored and what has  *)
(* left nothing are all of them, as long as none has raised.                *)

Counted(e) ==
    /\ e.status = "pending" => e.going = 0 /\ e.stored = 0 /\ e.empty = 0 /\ ~e.raised
    /\ e.status # "pending" /\ ~e.raised => e.going + e.stored + e.empty = Sessions
    /\ e.status \in {"finished", "sampled"} /\ ~e.raised => e.going = 0
    /\ e.status = "failure" => e.raised

\* What the list showed is still so, unless a session has raised.
ListedInv ==
    \A p \in DOMAIN listed :
        /\ p \in DOMAIN prompts /\ listed[p].status \in {"finished", "failure"}
        /\ prompts[p].status = listed[p].status
        /\ listed[p] = prompts[p] \/ prompts[p].raised

BatchInv ==
    /\ \A p \in DOMAIN batch : batch[p] \in Int
    /\ \A p \in DOMAIN prompts \cap DOMAIN batch :
           /\ prompts[p].status = "sampled"
           /\ batch[p] = prompts[p].stored \/ prompts[p].raised
    /\ \A p \in DOMAIN prompts \ DOMAIN batch :
           prompts[p].status = "sampled" => prompts[p].raised

GroupInv ==
    /\ Entries(prompts) /\ Entries(listed)
    /\ \A p \in DOMAIN prompts : Counted(prompts[p])
    /\ ListedInv /\ BatchInv
    /\ pc # "select" => DOMAIN listed = {}
    /\ pc \in {"load", "add", "sample", "select"} => DOMAIN batch = {}

LEMMA LiveKept ==
    ASSUME NEW ps, Entries(ps), NEW p \in DOMAIN ps
    PROVE  p \in DOMAIN Live(ps) <=> ps[p].status # "sampled" \/ ps[p].going + ps[p].stored > 0
BY DEF Live, Restricted

(* A prompt moves on to another record: one that was listed or sampled has  *)
(* a session that raised.                                                   *)
LEMMA SetGroups ==
    ASSUME GroupInv, NEW p \in DOMAIN prompts, NEW r \in Entry, Counted(r), Set(p, r), pc' = pc,
           prompts[p].raised => r.raised,
           prompts[p].status \in {"finished", "failure", "sampled"} =>
               r.status = prompts[p].status /\ r.raised,
           r.status = "sampled" => prompts[p].status = "sampled"
    PROVE  GroupInv'
<1> USE DEF GroupInv
<1> DEFINE ps == [prompts EXCEPT ![p] = r]
<1>1. /\ Entries(ps) /\ DOMAIN ps = DOMAIN prompts /\ ps[p] = r
      /\ \A q \in DOMAIN ps : q # p => ps[q] = prompts[q]
  BY DEF Entries
<1>2. prompts' = Live(ps) /\ listed' = listed /\ batch' = batch BY DEF Set
<1> HIDE DEF ps
<1>3. /\ Entries(prompts') /\ DOMAIN prompts' \subseteq DOMAIN prompts
      /\ \A q \in DOMAIN prompts' : prompts'[q] = ps[q]
  BY <1>1, <1>2, LiveEntries
<1>4. \A q \in DOMAIN prompts' : Counted(prompts'[q]) BY <1>1, <1>3
<1>5. ListedInv'
  <2> SUFFICES ASSUME NEW q \in DOMAIN listed
               PROVE  /\ q \in DOMAIN prompts' /\ listed[q].status \in {"finished", "failure"}
                      /\ prompts'[q].status = listed[q].status
                      /\ listed[q] = prompts'[q] \/ prompts'[q].raised
    BY <1>2 DEF ListedInv
  <2>1. /\ q \in DOMAIN prompts /\ listed[q].status \in {"finished", "failure"}
        /\ prompts[q].status = listed[q].status
        /\ listed[q] = prompts[q] \/ prompts[q].raised
    BY DEF ListedInv
  <2>2. ps[q].status = prompts[q].status BY <1>1, <2>1
  <2>3. q \in DOMAIN prompts' BY <1>1, <1>2, <2>1, <2>2, LiveKept
  <2>4. ps[q] = prompts[q] \/ ps[q].raised BY <1>1, <2>1
  <2>5. QED BY <1>3, <2>1, <2>2, <2>3, <2>4
<1>6. BatchInv'
  <2>1. ASSUME NEW q \in DOMAIN prompts'
        PROVE  /\ q \in DOMAIN batch => prompts'[q].status = "sampled"
                                        /\ (batch[q] = prompts'[q].stored \/ prompts'[q].raised)
               /\ q \notin DOMAIN batch /\ prompts'[q].status = "sampled" => prompts'[q].raised
    <3>1. CASE q # p BY <1>1, <1>3, <2>1, <3>1 DEF BatchInv
    <3>2. CASE q = p BY <1>1, <1>3, <2>1, <3>2 DEF BatchInv
    <3>3. QED BY <3>1, <3>2
  <2>2. QED BY <1>2, <2>1 DEF BatchInv
<1>7. QED BY <1>2, <1>3, <1>4, <1>5, <1>6

LEMMA LoopGroups ==
    ASSUME GroupInv, NEW p \in DOMAIN prompts, AgentLoop(p) \/ SessionMishap(p), pc' = pc
    PROVE  GroupInv'
<1> DEFINE e == prompts[p]
<1>0. /\ e \in Entry /\ Sessions \in Int /\ Counted(e)
      /\ e.going \in Int /\ e.stored \in Int /\ e.empty \in Int
      /\ e.status \in Statuses /\ e.raised \in BOOLEAN
  BY Sizes DEF GroupInv, Entries, Entry
<1> HIDE DEF e
<1> USE <1>0 DEF Statuses
\* A session that goes on is of a running prompt, or of one that raised.
<1>a. e.going > 0 => e.status # "pending"
                     /\ (e.status \in {"finished", "failure", "sampled"} => e.raised)
  BY DEF Counted
<1>1. CASE RunPrompt(p)
  <2> DEFINE r == [e EXCEPT !.status = "running", !.going = Sessions]
  <2>1. e.status = "pending" /\ Set(p, r) BY <1>1 DEF RunPrompt, e
  <2>2. /\ r \in Entry /\ r.status = "running" /\ r.going = Sessions
        /\ r.stored = e.stored /\ r.empty = e.empty /\ r.raised = e.raised
    BY DEF Entry
  <2> HIDE DEF r
  <2>3. Counted(r) BY <2>1, <2>2 DEF Counted
  <2>4. QED BY <2>1, <2>2, <2>3, SetGroups DEF e
<1>2. CASE SessionPuts(p)
  <2> DEFINE r == [e EXCEPT !.going = @ - 1, !.stored = @ + 1]
  <2>1. e.going > 0 /\ Set(p, r) BY <1>2 DEF SessionPuts, e
  <2>0. e.going - 1 \in Int /\ e.stored + 1 \in Int OBVIOUS
  <2>2. r \in Entry BY <1>0, <2>0, EntryUpdate
  <2>3. /\ r.status = e.status /\ r.going = e.going - 1
        /\ r.stored = e.stored + 1 /\ r.empty = e.empty /\ r.raised = e.raised
    BY DEF Entry
  <2> HIDE DEF r
  <2>4. Counted(r) BY <1>a, <2>1, <2>3 DEF Counted
  <2>5. QED BY <1>a, <2>1, <2>2, <2>3, <2>4, SetGroups DEF e
<1>3. CASE PromptFinished(p)
  <2> DEFINE r == [e EXCEPT !.status = "finished"]
  <2>1. e.status = "running" /\ ~e.raised /\ e.going = 0 /\ Set(p, r)
    BY <1>3 DEF PromptFinished, e
  <2>2. /\ r \in Entry /\ r.status = "finished" /\ r.going = e.going
        /\ r.stored = e.stored /\ r.empty = e.empty /\ r.raised = e.raised
    BY DEF Entry
  <2> HIDE DEF r
  <2>3. Counted(r) BY <2>1, <2>2 DEF Counted
  <2>4. QED BY <2>1, <2>2, <2>3, SetGroups DEF e
<1>4. CASE PromptFails(p)
  <2> DEFINE r == [e EXCEPT !.status = "failure"]
  <2>1. e.status = "running" /\ e.raised /\ Set(p, r) BY <1>4 DEF PromptFails, e
  <2>2. r \in Entry /\ r.status = "failure" /\ r.raised = e.raised BY DEF Entry
  <2> HIDE DEF r
  <2>3. Counted(r) BY <2>1, <2>2 DEF Counted
  <2>4. QED BY <2>1, <2>2, <2>3, SetGroups DEF e
<1>5. CASE SessionMishap(p)
  <2> DEFINE r == [e EXCEPT !.going = @ - 1, !.empty = @ + 1]
             q == [e EXCEPT !.going = @ - 1, !.raised = TRUE]
  <2>1. e.going > 0 /\ (Set(p, r) \/ Set(p, q)) BY <1>5 DEF SessionMishap, e
  <2>0. e.going - 1 \in Int /\ e.empty + 1 \in Int OBVIOUS
  <2>2. r \in Entry BY <1>0, <2>0, EntryUpdate
  <2>3. /\ r.status = e.status /\ r.going = e.going - 1
        /\ r.empty = e.empty + 1 /\ r.stored = e.stored /\ r.raised = e.raised
    BY DEF Entry
  <2>4. q \in Entry /\ q.status = e.status
    <3>1. e.going - 1 \in Int OBVIOUS
    <3>2. QED BY <1>0, <3>1, EntryRaised, Zenon
  <2>5. q.raised = TRUE BY DEF Entry
  <2> HIDE DEF r, q
  <2>6. Counted(r) BY <1>a, <2>1, <2>3 DEF Counted
  <2>7. Counted(q) BY <1>a, <2>1, <2>4, <2>5 DEF Counted
  <2>8. QED BY <1>a, <2>1, <2>2, <2>3, <2>4, <2>5, <2>6, <2>7, SetGroups DEF e
<1>6. QED BY <1>1, <1>2, <1>3, <1>4, <1>5 DEF AgentLoop
LEMMA InitGroups == Init => GroupInv
BY DEF Init, BufferInit, GroupInv, ListedInv, BatchInv, Entries

LEMMA AddGroups ==
    ASSUME GroupInv, gs \in Nat, AddBatch PROVE GroupInv'
<1> USE DEF GroupInv
<1> DEFINE new == cursor + 1 .. cursor + BatchSize
           fresh == [step |-> gs, status |-> "pending", going |-> 0, stored |-> 0,
                     raised |-> FALSE, empty |-> 0]
<1>1. /\ pc = "add" /\ pc' \in {"add", "sample"}
      /\ UNCHANGED <<listed, batch>>
      /\ prompts' = [p \in DOMAIN prompts \cup new |-> IF p \in new THEN fresh ELSE prompts[p]]

  BY DEF AddBatch, PutPrompts
<1>2. fresh \in Entry BY <1>1 DEF Entry, Statuses
<1>3. Counted(fresh) /\ fresh.status = "pending" BY DEF Counted
<1> HIDE DEF new, fresh
<1>4. \A p \in DOMAIN prompts' : prompts'[p] = fresh \/ (p \in DOMAIN prompts /\ prompts'[p] = prompts[p])
  BY <1>1
<1>5. Entries(prompts') /\ Entries(listed') BY <1>1, <1>2, <1>4 DEF Entries
<1>6. \A p \in DOMAIN prompts' : Counted(prompts'[p]) BY <1>3, <1>4
<1>7. ListedInv' BY <1>1 DEF ListedInv
<1>8. BatchInv' BY <1>1, <1>3, <1>4 DEF BatchInv
<1>9. QED BY <1>1, <1>5, <1>6, <1>7, <1>8

LEMMA PollGroups ==
    ASSUME GroupInv, Poll PROVE GroupInv'
<1> USE DEF GroupInv
<1>1. /\ pc = "sample" /\ pc' = "select"
      /\ UNCHANGED <<prompts, batch>>
      /\ listed' = [p \in DOMAIN prompts \cap Sampleable(prompts) |-> prompts[p]]
  BY DEF Poll, List, Goto, Restricted
<1>2. \A p \in DOMAIN listed' : /\ p \in DOMAIN prompts /\ listed'[p] = prompts[p]
                                /\ prompts[p].status \in {"finished", "failure"}
  BY <1>1 DEF Sampleable
<1>3. Entries(listed') BY <1>2 DEF Entries
<1>4. ListedInv' BY <1>1, <1>2 DEF ListedInv
<1>5. BatchInv' BY <1>1 DEF BatchInv
<1>6. QED BY <1>1, <1>3, <1>4, <1>5

(* A prompt of the batch has in it what was stored when it was listed: all  *)
(* of it, unless a session raised.  One that is too old keeps nothing, and  *)
(* neither does one with nothing stored, unless a session is still going on.*)
LEMMA SampleGroups ==
    ASSUME GroupInv, SampleBatch PROVE GroupInv'
<1> USE DEF GroupInv
<1>1. pc = "select" /\ pc' = "fill" /\ Sample(gs) BY DEF SampleBatch, Goto
<1>2. PICK chosen \in OldestOf(Sampleable(listed)) :
        LET tooOld == {p \in chosen : strategy = "drop" /\ Exceeds(gs, listed[p].step)}
        IN /\ prompts' = Live([p \in DOMAIN prompts |->
                                 IF p \notin chosen THEN prompts[p]
                                 ELSE [prompts[p] EXCEPT
                                         !.status = "sampled",
                                         !.stored = IF p \in tooOld THEN @ - listed[p].stored
                                                    ELSE @]])
           /\ batch' = [p \in {q \in chosen \ tooOld : listed[q].stored > 0}
                          |-> listed[p].stored]
           /\ listed' = <<>>
  BY <1>1 DEF Sample
<1> DEFINE tooOld == {p \in chosen : strategy = "drop" /\ Exceeds(gs, listed[p].step)}
           left(p) == IF p \in tooOld THEN prompts[p].stored - listed[p].stored
                      ELSE prompts[p].stored
           taken(p) == [prompts[p] EXCEPT !.status = "sampled", !.stored = left(p)]
           ps == [p \in DOMAIN prompts |-> IF p \notin chosen THEN prompts[p] ELSE taken(p)]
<1>3. chosen \subseteq DOMAIN listed BY DEF OldestOf, Sampleable
<1>4. prompts' = Live(ps) BY <1>2
<1>5. /\ batch' = [p \in {q \in chosen \ tooOld : listed[q].stored > 0} |-> listed[p].stored]
      /\ DOMAIN listed' = {}
  <2>1. batch' = [p \in {q \in chosen \ tooOld : listed[q].stored > 0} |-> listed[p].stored]
    BY <1>2
  <2>2. listed' = <<>> BY <1>2
  <2>3. QED BY <2>1, <2>2
<1>6. ASSUME NEW p \in chosen
      PROVE  /\ p \in DOMAIN prompts /\ prompts[p] \in Entry /\ listed[p] \in Entry
             /\ Counted(prompts[p])
             /\ prompts[p].status \in {"finished", "failure"}
             /\ listed[p] = prompts[p] \/ prompts[p].raised
  BY <1>3, <1>6 DEF Entries, ListedInv
<1>7. ASSUME NEW p \in chosen
      PROVE  /\ taken(p) \in Entry
             /\ Counted(taken(p)) \/ (left(p) = 0 /\ prompts[p].going = 0)
             /\ taken(p).status = "sampled" /\ taken(p).raised = prompts[p].raised
             /\ taken(p).stored = left(p) /\ taken(p).going = prompts[p].going
             /\ p \notin tooOld \/ prompts[p].raised \/ (left(p) = 0 /\ prompts[p].going = 0)
  <2>1. /\ prompts[p].stored \in Int /\ listed[p].stored \in Int /\ prompts[p].going \in Int
        /\ prompts[p].empty \in Int
    BY <1>6 DEF Entry
  <2>2. left(p) \in Int BY <2>1
  <2>3. p \notin tooOld \/ prompts[p].raised \/ (left(p) = 0 /\ prompts[p].going = 0)
    BY <1>6, <2>1 DEF Counted
  <2>4. p \notin tooOld => left(p) = prompts[p].stored OBVIOUS
  <2> HIDE DEF left, tooOld
  <2>5. taken(p) \in Entry BY <1>6, <2>2 DEF Entry, Statuses
  <2>6. /\ taken(p).status = "sampled" /\ taken(p).raised = prompts[p].raised
        /\ taken(p).stored = left(p) /\ taken(p).going = prompts[p].going
        /\ taken(p).empty = prompts[p].empty
    BY <1>6 DEF Entry
  <2>7. p \notin tooOld => Counted(taken(p)) BY <1>6, <2>1, <2>4, <2>6 DEF Counted
  <2>8. prompts[p].raised => Counted(taken(p)) BY <2>6 DEF Counted
  <2>9. QED BY <2>3, <2>5, <2>6, <2>7, <2>8
<1> HIDE DEF taken
<1>8. /\ Entries(ps) /\ DOMAIN ps = DOMAIN prompts
      /\ \A p \in chosen : ps[p] = taken(p)
      /\ \A p \in DOMAIN ps \ chosen : ps[p] = prompts[p]
  BY <1>6, <1>7 DEF Entries
<1> HIDE DEF ps
<1>9. /\ Entries(prompts') /\ DOMAIN prompts' \subseteq DOMAIN ps
      /\ \A p \in DOMAIN prompts' : prompts'[p] = ps[p]
      /\ \A p \in DOMAIN prompts' : ps[p].status # "sampled" \/ ps[p].going + ps[p].stored > 0
  BY <1>4, <1>8, LiveEntries, LiveKept
<1>10. ASSUME NEW p \in DOMAIN prompts' PROVE Counted(prompts'[p])
  <2>1. CASE p \notin chosen BY <1>8, <1>9, <1>10, <2>1
  <2>2. CASE p \in chosen
    <3>1. prompts'[p] = taken(p) BY <1>8, <1>9, <1>10, <2>2
    <3>2. taken(p).status # "sampled" \/ taken(p).going + taken(p).stored > 0
      BY <1>8, <1>9, <1>10, <2>2
    <3>3. QED BY <1>7, <2>2, <3>1, <3>2
  <2>3. QED BY <2>1, <2>2
<1>11. ListedInv' BY <1>5 DEF ListedInv
<1>12. BatchInv'
  <2>1. ASSUME NEW p \in DOMAIN batch'
        PROVE  p \in chosen /\ p \notin tooOld /\ batch'[p] = listed[p].stored /\ batch'[p] \in Int
    <3>1. p \in chosen /\ p \notin tooOld /\ batch'[p] = listed[p].stored BY <1>5, <2>1
    <3>2. QED BY <1>6, <3>1 DEF Entry
  <2>2. ASSUME NEW p \in DOMAIN prompts', p \in DOMAIN batch'
        PROVE  /\ prompts'[p].status = "sampled"
               /\ batch'[p] = prompts'[p].stored \/ prompts'[p].raised
    <3>1. p \in chosen /\ p \notin tooOld /\ batch'[p] = listed[p].stored BY <2>1, <2>2
    <3>2. prompts'[p] = taken(p) BY <1>8, <1>9, <2>2, <3>1
    <3>3. QED BY <1>6, <1>7, <3>1, <3>2
  <2>3. ASSUME NEW p \in DOMAIN prompts', p \notin DOMAIN batch', prompts'[p].status = "sampled"
        PROVE  prompts'[p].raised
    <3>1. CASE p \notin chosen
      <4>1. prompts'[p] = prompts[p] /\ p \in DOMAIN prompts BY <1>8, <1>9, <3>1, <2>3
      <4>2. p \notin DOMAIN batch BY <1>1
      <4>3. QED BY <2>3, <4>1, <4>2 DEF BatchInv
    <3>2. CASE p \in chosen
      <4>1. prompts'[p] = taken(p) BY <1>8, <1>9, <3>2, <2>3
      <4>2. taken(p).going + taken(p).stored > 0 BY <1>7, <1>8, <1>9, <3>2, <2>3, <4>1
      <4>3. SUFFICES ASSUME ~prompts[p].raised PROVE FALSE BY <1>7, <3>2, <4>1
      <4>4. prompts[p].status = "finished" /\ prompts[p].going = 0
        BY <1>6, <3>2, <4>3 DEF Counted
      <4>5. listed[p] = prompts[p] BY <1>6, <3>2, <4>3
      <4>6. prompts[p].stored \in Int BY <1>6, <3>2 DEF Entry
      <4>7. p \notin tooOld
        <5>1. SUFFICES ASSUME p \in tooOld PROVE FALSE OBVIOUS
        <5>2. left(p) = 0 /\ prompts[p].going = 0 BY <1>7, <3>2, <4>3, <5>1
        <5>3. QED BY <1>7, <3>2, <4>2, <5>2
      <4>8. ~(listed[p].stored > 0) BY <1>5, <2>3, <3>2, <4>7
      <4>9. left(p) = prompts[p].stored BY <4>7
      <4>10. QED BY <1>7, <3>2, <4>2, <4>4, <4>5, <4>6, <4>8, <4>9
    <3>3. QED BY <3>1, <3>2
  <2>4. QED BY <2>1, <2>2, <2>3 DEF BatchInv
<1>13. Entries(listed') BY <1>5 DEF Entries
<1>14. QED BY <1>1, <1>5, <1>9, <1>10, <1>11, <1>12, <1>13

(* The batch is forgotten with what it had in the queue.                    *)
LEMMA EndStepGroups ==
    ASSUME GroupInv, EndStep PROVE GroupInv'
<1> USE DEF GroupInv
<1> DEFINE less(p) == [prompts[p] EXCEPT !.stored = @ - batch[p]]
           ps == [p \in DOMAIN prompts |-> IF p \in DOMAIN batch THEN less(p) ELSE prompts[p]]
<1>1. /\ pc = "clear" /\ listed' = listed /\ prompts' = Live(ps) /\ DOMAIN batch' = {}
      /\ pc' \in {"add", "done"}
  <2>1. batch' = <<>> BY DEF EndStep, ClearBatch
  <2>2. DOMAIN batch' = {} BY <2>1
  <2>3. QED BY <2>2 DEF EndStep, ClearBatch, Begin
<1>2. ASSUME NEW p \in DOMAIN prompts, p \in DOMAIN batch
      PROVE  /\ less(p) \in Entry /\ less(p).status = "sampled"
             /\ less(p).raised \/ (less(p).stored = 0 /\ less(p).going = 0)
             /\ Counted(less(p)) \/ (~less(p).raised /\ less(p).stored = 0 /\ less(p).going = 0)
  <2>1. /\ prompts[p] \in Entry /\ batch[p] \in Int /\ Counted(prompts[p])
        /\ prompts[p].status = "sampled"
        /\ batch[p] = prompts[p].stored \/ prompts[p].raised
    BY <1>2 DEF Entries, BatchInv
  <2>2. /\ prompts[p].stored - batch[p] \in Int /\ prompts[p].stored \in Int
        /\ prompts[p].going \in Int /\ prompts[p].status \in Statuses
    BY <2>1 DEF Entry
  <2>3. less(p) \in Entry BY <2>1, <2>2, EntryUpdate DEF Entry
  <2>4. /\ less(p).status = prompts[p].status /\ less(p).going = prompts[p].going
        /\ less(p).raised = prompts[p].raised /\ less(p).stored = prompts[p].stored - batch[p]
    BY <2>1 DEF Entry
  <2> HIDE DEF less
  <2>5. less(p).raised \/ (less(p).stored = 0 /\ less(p).going = 0)
    BY <2>1, <2>2, <2>4 DEF Counted
  <2>6. less(p).raised => Counted(less(p)) BY <2>1, <2>4 DEF Counted
  <2>7. QED BY <2>1, <2>3, <2>4, <2>5, <2>6
<1> HIDE DEF less
<1>3. /\ Entries(ps) /\ DOMAIN ps = DOMAIN prompts
      /\ \A p \in DOMAIN prompts : ps[p] = IF p \in DOMAIN batch THEN less(p) ELSE prompts[p]
  BY <1>2 DEF Entries
<1> HIDE DEF ps
<1>4. /\ Entries(prompts') /\ DOMAIN prompts' \subseteq DOMAIN prompts
      /\ \A p \in DOMAIN prompts' : /\ prompts'[p] = ps[p]
                                    /\ ps[p].status # "sampled" \/ ps[p].going + ps[p].stored > 0
  BY <1>1, <1>3, LiveEntries, LiveKept
<1>5. ASSUME NEW p \in DOMAIN prompts'
      PROVE  /\ Counted(prompts'[p])
             /\ prompts'[p].status = "sampled" => prompts'[p].raised
  <2>1. CASE p \notin DOMAIN batch BY <1>3, <1>4, <1>5, <2>1 DEF BatchInv
  <2>2. CASE p \in DOMAIN batch
    <3>1. prompts'[p] = less(p) /\ p \in DOMAIN prompts BY <1>3, <1>4, <1>5, <2>2
    <3>2. less(p).going + less(p).stored > 0 BY <1>2, <1>3, <1>4, <1>5, <2>2, <3>1
    <3>3. less(p).raised BY <1>2, <2>2, <3>1, <3>2
    <3>4. QED BY <1>2, <2>2, <3>1, <3>3
  <2>3. QED BY <2>1, <2>2
<1>6. BatchInv' BY <1>1, <1>5 DEF BatchInv
<1>7. DOMAIN listed = {} BY <1>1
<1>8. Entries(listed') /\ ListedInv' BY <1>1, <1>7 DEF Entries, ListedInv
<1>9. QED BY <1>1, <1>4, <1>5, <1>6, <1>7, <1>8

(* The steps that leave the queue alone, and the loss of it.                *)
LEMMA OtherGroups ==
    ASSUME GroupInv,
           Load \/ FillBatch \/ BalanceBatch \/ Train \/ Save \/ Crash \/ UNCHANGED vars
    PROVE  GroupInv'
<1> USE DEF GroupInv, ListedInv, BatchInv, Entries
<1>1. CASE Crash
  <2>1. prompts' = <<>> /\ listed' = <<>> /\ batch' = <<>>
    BY <1>1 DEF Crash, LoseQueue
  <2>2. DOMAIN prompts' = {} /\ DOMAIN listed' = {} /\ DOMAIN batch' = {} BY <2>1
  <2>3. QED BY <2>2
<1>2. CASE Load \/ FillBatch \/ BalanceBatch \/ Train \/ Save \/ UNCHANGED vars
  <2>1. /\ UNCHANGED <<prompts, listed, batch>>
        /\ \/ pc' = pc
           \/ pc = "load" /\ pc' \in {"add", "stuck", "done"}
           \/ /\ pc \in {"fill", "balance", "train"} \cup SavePCs
              /\ pc' \in {"balance", "raised", "train", "clear"} \cup SavePCs
    BY <1>2 DEF Load, Begin, FillBatch, BalanceBatch, Train, Save, SaveStage, Goto, SavePCs, vars
  <2>2. QED BY <2>1 DEF SavePCs, Counted
<1>3. QED BY <1>1, <1>2

LEMMA Grouped == ASSUME GroupInv PROVE WholeGroups
<1> SUFFICES ASSUME NEW p \in DOMAIN prompts
             PROVE  /\ p \in DOMAIN batch =>
                         batch[p] + prompts[p].empty = Sessions \/ prompts[p].raised
                    /\ prompts[p].status = "sampled" /\ p \notin DOMAIN batch
                         => prompts[p].raised
  BY DEF WholeGroups
<1>1. prompts[p].stored \in Int /\ prompts[p].empty \in Int /\ prompts[p].going \in Int
  BY DEF GroupInv, Entries, Entry
<1>2. QED BY <1>1 DEF GroupInv, BatchInv, Counted

(* A prompt in the batch has the trajectories of all its sessions, and none *)
(* is left in the queue behind it, unless one of them raised (kv_list and   *)
(* the sample of ReplayBuffer, kv_clear at the end of the step).            *)
THEOREM GroupsWhole == Spec => []WholeGroups
<1>1. Init => GroupInv /\ SkipInv BY InitGroups, InitSkips
<1>2. GroupInv /\ SkipInv /\ [Next]_vars => GroupInv' /\ SkipInv'
  <2>1. ASSUME GroupInv, NEW p \in DOMAIN prompts, Loops(p) \/ Mishap(p) PROVE GroupInv'
    BY <2>1, LoopGroups DEF Loops, Mishap
  <2>2. SkipInv => gs \in Nat BY DEF SkipInv, SkipType
  <2>3. QED
    BY <2>1, <2>2, AddGroups, PollGroups, SampleGroups, EndStepGroups, OtherGroups, LoadSkips,
       StepSkips
    DEF Next, Trainer
<1>3. GroupInv => WholeGroups BY Grouped
<1>4. QED BY <1>1, <1>2, <1>3, PTL DEF Spec

-----------------------------------------------------------------------------
(* The checkpoints on the disk, when more than one is kept.                *)

Present(p) == {s \in Steps : saved[p][s].state # "absent"}

\* Those the manager of the part knows of, with the one that is being saved.
Known(p) == {kept[p][i] : i \in DOMAIN kept[p]} \cup (IF pc = EndOf(p) THEN {gs} ELSE {})

\* Each earlier life of the job has left no more than MaxKeep behind, and room was
\* made for what is being saved.
DiskInv ==
    /\ DOMAIN saved = Parts /\ kept \in [Parts -> Seq(Steps)]
    /\ \A p \in Parts : /\ Cardinality(Present(p) \ Known(p)) <= MaxKeep * crashes
                        /\ Len(kept[p]) <= MaxKeep
                        /\ pc = EndOf(p) => Len(kept[p]) < MaxKeep

\* What these proofs need of the trainer.
Saving == crashes \in Nat /\ (pc \in SavePCs => gs \in Steps)

LEMMA PathsCounted ==
    ASSUME NEW S, NEW s \in Seq(S)
    PROVE  /\ IsFiniteSet({s[i] : i \in DOMAIN s})
           /\ Cardinality({s[i] : i \in DOMAIN s}) <= Len(s)
<1> DEFINE T == {s[i] : i \in DOMAIN s}
<1>1. DOMAIN s = 1 .. Len(s) /\ Len(s) \in Nat OBVIOUS
<1>2. IsFiniteSet(1 .. Len(s)) /\ Cardinality(1 .. Len(s)) = Len(s)
  <2>1. /\ IsFiniteSet(1 .. Len(s))
        /\ Cardinality(1 .. Len(s)) = IF 1 > Len(s) THEN 0 ELSE Len(s) - 1 + 1
    BY <1>1, FS_Interval
  <2>2. QED BY <1>1, <2>1
<1>3. s \in Surjection(1 .. Len(s), T) BY <1>1 DEF Surjection
<1>4. IsFiniteSet(T) /\ Cardinality(T) <= Cardinality(1 .. Len(s)) BY <1>2, <1>3, FS_Surjection
<1>5. QED BY <1>2, <1>4

LEMMA DiskFinite == \A S : S \subseteq Steps => IsFiniteSet(S) /\ Cardinality(S) \in Nat
<1>1. IsFiniteSet(Steps) BY Sizes, FS_Interval DEF Steps
<1>2. QED BY <1>1, FS_Subset, FS_CardinalityType

(* The checkpoints known of are at most MaxKeep, the one being saved        *)
(* included: room was made for it before (ensure_checkpoint_capacity).      *)
LEMMA KnownBounded ==
    ASSUME MaxKeep > 1, Saving, DiskInv, NEW p \in Parts
    PROVE  Known(p) \subseteq Steps /\ Cardinality(Known(p)) <= MaxKeep
<1> DEFINE K == {kept[p][i] : i \in DOMAIN kept[p]}
<1>1. /\ kept[p] \in Seq(Steps) /\ Len(kept[p]) <= MaxKeep /\ Len(kept[p]) \in Nat
      /\ MaxKeep \in Nat
      /\ pc = EndOf(p) => Len(kept[p]) < MaxKeep /\ gs \in Steps
  <2>1. kept[p] \in Seq(Steps) BY DEF DiskInv
  <2>2. Len(kept[p]) \in Nat BY <2>1
  <2>3. Len(kept[p]) <= MaxKeep BY DEF DiskInv
  <2>4. pc = EndOf(p) => Len(kept[p]) < MaxKeep BY DEF DiskInv
  <2>5. pc = EndOf(p) => gs \in Steps BY DEF Saving, EndOf, SavePCs
  <2>6. QED BY <2>1, <2>2, <2>3, <2>4, <2>5, Sizes
<1>2. /\ IsFiniteSet(K) /\ Cardinality(K) <= Len(kept[p]) /\ K \subseteq Steps
  BY <1>1, PathsCounted
<1> HIDE DEF K
<1>3. Cardinality(K) \in Nat BY <1>2, DiskFinite
<1>4. CASE pc = EndOf(p)
  <2>1. Known(p) = K \cup {gs} BY <1>4 DEF Known, K
  <2>2. Cardinality(K \cup {gs}) = IF gs \in K THEN Cardinality(K) ELSE Cardinality(K) + 1
    BY <1>2, FS_AddElement
  <2>3. QED BY <1>1, <1>2, <1>3, <1>4, <2>1, <2>2
<1>5. CASE pc # EndOf(p)
  <2>1. Known(p) = K BY <1>5 DEF Known, K
  <2>2. QED BY <1>1, <1>2, <1>3, <2>1
<1>6. QED BY <1>4, <1>5

(* All that is on the disk: what is known of, and what earlier lives left.  *)
LEMMA PresentBounded ==
    ASSUME MaxKeep > 1, Saving, DiskInv, NEW p \in Parts
    PROVE  Cardinality(Present(p)) <= MaxKeep * (crashes + 1)
<1>1. /\ Present(p) \subseteq Steps /\ Known(p) \subseteq Steps
      /\ Cardinality(Known(p)) <= MaxKeep
      /\ Cardinality(Present(p) \ Known(p)) <= MaxKeep * crashes
      /\ MaxKeep \in Nat /\ crashes \in Nat
  BY KnownBounded, Sizes DEF Present, DiskInv, Saving
<1> DEFINE A == Present(p) \ Known(p)
           B == Present(p) \cap Known(p)
<1>2. /\ IsFiniteSet(Present(p)) /\ Cardinality(Present(p)) \in Nat
      /\ IsFiniteSet(Known(p)) /\ Cardinality(Known(p)) \in Nat
      /\ Cardinality(A) \in Nat /\ Cardinality(B) \in Nat
  BY <1>1, DiskFinite
<1>3. Cardinality(A) = Cardinality(Present(p)) - Cardinality(B)
  BY <1>2, FS_Difference
<1>4. Cardinality(B) <= Cardinality(Known(p))
  BY <1>2, FS_Subset
<1>5. MaxKeep * (crashes + 1) = MaxKeep * crashes + MaxKeep /\ MaxKeep * crashes \in Nat
  BY <1>1
<1> HIDE DEF B
<1>6. Cardinality(A) <= MaxKeep * crashes BY <1>1
<1> HIDE DEF A
<1>7. QED BY <1>1, <1>2, <1>3, <1>4, <1>5, <1>6

LEMMA FewerUnknown ==
    ASSUME NEW p \in Parts, Present(p)' \ Known(p)' \subseteq Present(p) \ Known(p),
           crashes' = crashes, crashes \in Nat, MaxKeep \in Nat,
           Cardinality(Present(p) \ Known(p)) <= MaxKeep * crashes
    PROVE  Cardinality(Present(p)' \ Known(p)') <= MaxKeep * crashes'
<1> DEFINE A == Present(p) \ Known(p)
           B == Present(p)' \ Known(p)'
<1>1. A \subseteq Steps BY DEF Present
<1> HIDE DEF A, B
<1>2. IsFiniteSet(A) /\ Cardinality(A) \in Nat BY <1>1, DiskFinite
<1>3. B \subseteq A BY DEF A, B
<1>4. IsFiniteSet(B) /\ Cardinality(B) <= Cardinality(A) BY <1>2, <1>3, FS_Subset
<1>5. Cardinality(B) \in Nat BY <1>4, FS_CardinalityType
<1>6. MaxKeep * crashes \in Nat BY DEF A
<1>7. Cardinality(A) <= MaxKeep * crashes BY DEF A
<1>8. Cardinality(B) <= MaxKeep * crashes BY <1>2, <1>4, <1>5, <1>6, <1>7
<1>9. QED BY <1>8 DEF B
LEMMA BeginDisk ==
    ASSUME MaxKeep > 1, Saving, DiskInv, NEW p \in Parts,
           pc = p, pc' = EndOf(p), BeginPart(p, gs), UNCHANGED <<gs, crashes>>
    PROVE  DiskInv'
<1> DEFINE n == CapacityExcess(p)
           paths == DropFirst(kept[p], n)
           folders == Files(p, kept[p], n, gs, Folder("torn", {}))
<1>0. /\ kept[p] \in Seq(Steps) /\ MaxKeep # 1 /\ MaxKeep \in Nat /\ crashes \in Nat
      /\ kept \in [Parts -> Seq(Steps)] /\ DOMAIN saved = Parts
  BY Sizes DEF DiskInv, Saving
<1>1. /\ saved' = [saved EXCEPT ![p] = folders] /\ kept' = [kept EXCEPT ![p] = paths]
  BY DEF BeginPart
<1>2. /\ n \in 0 .. Len(kept[p]) /\ Len(kept[p]) - n < MaxKeep /\ Len(kept[p]) \in Nat
  BY <1>0, RoomMade
<1>3. /\ paths \in Seq(Steps) /\ Len(paths) = Len(kept[p]) - n
      /\ \A i \in DOMAIN paths : i + n \in DOMAIN kept[p] /\ paths[i] = kept[p][i + n]
  BY <1>0, <1>2, Dropped
<1>4. \A t \in Steps : folders[t].state # "absent" /\ t # gs =>
          saved[p][t].state # "absent" /\ ~ \E i \in 1 .. n : kept[p][i] = t
  BY DEF Files, NoFolder, Folder
<1>5. ASSUME NEW i \in DOMAIN kept[p], i \notin 1 .. n PROVE \E j \in DOMAIN paths : paths[j] = kept[p][i]
  <2>1. i \in 1 .. Len(kept[p]) /\ n \in Nat BY <1>0, <1>2
  <2>2. i - n \in 1 .. Len(paths) BY <1>2, <1>3, <1>5, <2>1
  <2>3. i - n \in DOMAIN paths /\ i - n + n = i BY <1>3, <2>1, <2>2
  <2>4. QED BY <1>3, <2>3
<1> HIDE DEF n, paths, folders
<1>6. saved'[p] = folders /\ kept'[p] = paths BY <1>0, <1>1
<1>7. ASSUME NEW q \in Parts, q # p
      PROVE  /\ saved'[q] = saved[q] /\ kept'[q] = kept[q]
             /\ pc # EndOf(q) /\ pc' # EndOf(q)
  BY <1>0, <1>1, <1>7 DEF EndOf, Parts
<1>8. pc # EndOf(p) BY DEF EndOf, Parts
<1>9. ASSUME NEW q \in Parts PROVE Present(q)' \ Known(q)' \subseteq Present(q) \ Known(q)
  <2>1. CASE q # p
    <3>1. Present(q)' = Present(q) /\ Known(q)' = Known(q) BY <1>7, <2>1 DEF Present, Known
    <3>2. QED BY <3>1
  <2>2. CASE q = p
    <3> SUFFICES ASSUME NEW t \in Present(p)', t \notin Known(p)'
                 PROVE  t \in Present(p) /\ t \notin Known(p)
      BY <2>2
    <3>1. t \in Steps /\ folders[t].state # "absent" BY <1>6 DEF Present
    <3>2. Known(p)' = {paths[i] : i \in DOMAIN paths} \cup {gs} BY <1>6 DEF Known
    <3>3. t # gs /\ ~ \E j \in DOMAIN paths : paths[j] = t BY <3>2
    <3>4. saved[p][t].state # "absent" /\ ~ \E i \in 1 .. n : kept[p][i] = t
      BY <1>4, <3>1, <3>3
    <3>5. ~ \E i \in DOMAIN kept[p] : kept[p][i] = t BY <1>5, <3>3, <3>4
    <3>6. QED BY <1>8, <3>1, <3>4, <3>5 DEF Present, Known
  <2>3. QED BY <2>1, <2>2
<1>10. ASSUME NEW q \in Parts
       PROVE  Cardinality(Present(q)' \ Known(q)') <= MaxKeep * crashes'
  BY <1>0, <1>9, <1>10, FewerUnknown DEF DiskInv
<1>11. ASSUME NEW q \in Parts
       PROVE  Len(kept'[q]) <= MaxKeep /\ (pc' = EndOf(q) => Len(kept'[q]) < MaxKeep)
  <2>1. CASE q # p BY <1>7, <2>1 DEF DiskInv
  <2>2. CASE q = p
    <3>1. Len(paths) < MaxKeep /\ Len(paths) \in Nat BY <1>0, <1>2, <1>3
    <3>2. QED BY <1>0, <1>6, <2>2, <3>1
  <2>3. QED BY <2>1, <2>2
<1>12. DOMAIN saved' = Parts /\ kept' \in [Parts -> Seq(Steps)] BY <1>0, <1>1, <1>3
<1>13. QED BY <1>10, <1>11, <1>12 DEF DiskInv

LEMMA EndDisk ==
    ASSUME MaxKeep > 1, Saving, DiskInv, NEW p \in Parts,
           pc = EndOf(p), pc' = (IF p = "actor" THEN "critic" ELSE "data"),
           EndPart(p, gs, trained), UNCHANGED <<gs, crashes>>
    PROVE  DiskInv'
<1> DEFINE paths == Append(kept[p], gs)
           folders == Files(p, paths, 0, gs, Folder("whole", trained))
<1>0. /\ kept[p] \in Seq(Steps) /\ MaxKeep \in Nat /\ crashes \in Nat /\ gs \in Steps
      /\ kept \in [Parts -> Seq(Steps)] /\ DOMAIN saved = Parts
  BY Sizes DEF DiskInv, Saving, EndOf, SavePCs
<1>1. Len(kept[p]) < MaxKeep /\ Len(kept[p]) \in Nat
  <2>1. Len(kept[p]) < MaxKeep BY DEF DiskInv
  <2>2. Len(kept[p]) \in Nat BY <1>0
  <2>3. QED BY <2>1, <2>2
<1>2. RegisterExcess(p) = 0 BY <1>0, <1>1 DEF RegisterExcess
<1>3. /\ paths \in Seq(Steps) /\ Len(paths) = Len(kept[p]) + 1
      /\ paths[Len(kept[p]) + 1] = gs /\ Len(kept[p]) + 1 \in DOMAIN paths
      /\ \A i \in DOMAIN kept[p] : i \in DOMAIN paths /\ paths[i] = kept[p][i]
  BY <1>0
<1>4. saved' = [saved EXCEPT ![p] = folders] /\ kept' = [kept EXCEPT ![p] = paths]
  <2>1. DropFirst(paths, 0) = paths
    <3>1. paths \in Seq(Steps) /\ 0 \in 0 .. Len(paths) BY <1>1, <1>3
    <3>2. QED BY <3>1 DEF DropFirst
  <2>2. QED BY <1>2, <2>1 DEF EndPart
<1>5. \A t \in Steps : t # gs => folders[t] = saved[p][t] BY DEF Files
<1> HIDE DEF paths, folders
<1>6. saved'[p] = folders /\ kept'[p] = paths BY <1>0, <1>4
<1>7. ASSUME NEW q \in Parts, q # p
      PROVE  /\ saved'[q] = saved[q] /\ kept'[q] = kept[q]
             /\ pc # EndOf(q) /\ pc' # EndOf(q)
  BY <1>0, <1>4, <1>7 DEF EndOf, Parts
<1>8. ASSUME NEW q \in Parts PROVE Present(q)' \ Known(q)' \subseteq Present(q) \ Known(q)
  <2>1. CASE q # p
    <3>1. Present(q)' = Present(q) /\ Known(q)' = Known(q) BY <1>7, <2>1 DEF Present, Known
    <3>2. QED BY <3>1
  <2>2. CASE q = p
    <3> SUFFICES ASSUME NEW t \in Present(p)', t \notin Known(p)'
                 PROVE  t \in Present(p) /\ t \notin Known(p)
      BY <2>2
    <3>1. t \in Steps /\ folders[t].state # "absent" BY <1>6 DEF Present
    <3>2. \A i \in DOMAIN paths : paths[i] # t BY <1>6 DEF Known
    <3>3. t # gs /\ ~ \E i \in DOMAIN kept[p] : kept[p][i] = t BY <1>3, <3>2
    <3>4. QED BY <1>5, <3>1, <3>3 DEF Present, Known
  <2>3. QED BY <2>1, <2>2
<1>9. ASSUME NEW q \in Parts
      PROVE  Cardinality(Present(q)' \ Known(q)') <= MaxKeep * crashes'
  BY <1>0, <1>8, <1>9, FewerUnknown DEF DiskInv
<1>10. ASSUME NEW q \in Parts PROVE Len(kept'[q]) <= MaxKeep /\ pc' # EndOf(q)
  <2>1. CASE q # p BY <1>7, <2>1 DEF DiskInv
  <2>2. CASE q = p
    <3>1. Len(paths) <= MaxKeep BY <1>0, <1>1, <1>3
    <3>2. pc' # EndOf(q) BY <2>2 DEF EndOf
    <3>3. QED BY <1>6, <2>2, <3>1, <3>2
  <2>3. QED BY <2>1, <2>2
<1>11. DOMAIN saved' = Parts /\ kept' \in [Parts -> Seq(Steps)] BY <1>0, <1>3, <1>4
<1>12. QED BY <1>9, <1>10, <1>11 DEF DiskInv

(* The steps that leave the folders and the paths alone.                    *)
LEMMA OtherDisk ==
    ASSUME DiskInv, UNCHANGED <<saved, kept, crashes>>,
           \A p \in Parts : pc = EndOf(p) => pc' = EndOf(p) /\ gs' = gs,
           \A p \in Parts : pc' = EndOf(p) => pc = EndOf(p)
    PROVE  DiskInv'
<1>1. \A p \in Parts : Present(p)' = Present(p) /\ Known(p)' = Known(p)
  BY DEF Present, Known
<1>2. QED BY <1>1 DEF DiskInv

(* A new process knows of no checkpoint of the old one.                     *)
LEMMA CrashDisk ==
    ASSUME MaxKeep > 1, Saving, DiskInv, Crash PROVE DiskInv'
<1>1. /\ pc' = "load" /\ kept' = [p \in Parts |-> <<>>] /\ saved' = saved
      /\ crashes' = crashes + 1
  BY DEF Crash, ForgetPaths, Goto
<1>2. ASSUME NEW p \in Parts
      PROVE  Cardinality(Present(p)' \ Known(p)') <= MaxKeep * crashes' /\ Len(kept'[p]) <= MaxKeep
  <2>1. kept'[p] = <<>> BY <1>1
  <2>2. DOMAIN kept'[p] = {} /\ Len(kept'[p]) = 0 BY <2>1
  <2>3. Known(p)' = {} BY <1>1, <2>2 DEF Known, EndOf
  <2>4. Present(p)' = Present(p) BY <1>1 DEF Present
  <2>5. Present(p)' \ Known(p)' = Present(p) BY <2>3, <2>4
  <2>6. Cardinality(Present(p)) <= MaxKeep * (crashes + 1) BY PresentBounded
  <2>7. Cardinality(Present(p)' \ Known(p)') <= MaxKeep * crashes' BY <1>1, <2>5, <2>6
  <2>8. Len(kept'[p]) <= MaxKeep BY <2>2, Sizes
  <2>9. QED BY <2>7, <2>8
<1>3. DOMAIN saved' = Parts /\ kept' \in [Parts -> Seq(Steps)] BY <1>1 DEF DiskInv
<1>4. \A p \in Parts : pc' # EndOf(p) BY <1>1 DEF EndOf
<1>5. QED BY <1>2, <1>3, <1>4 DEF DiskInv

LEMMA SaveDisk ==
    ASSUME MaxKeep > 1, Saving, DiskInv, Save PROVE DiskInv'
<1>1. "actor" \in Parts /\ "critic" \in Parts /\ "actor" # "critic" BY DEF Parts
<1>2. CASE \/ SaveStage("actor", "actorEnd") /\ BeginPart("actor", gs)
           \/ SaveStage("critic", "criticEnd") /\ BeginPart("critic", gs)
  BY <1>1, <1>2, BeginDisk DEF SaveStage, Goto, EndOf
<1>3. CASE \/ SaveStage("actorEnd", "critic") /\ EndPart("actor", gs, trained)
           \/ SaveStage("criticEnd", "data") /\ EndPart("critic", gs, trained)
  BY <1>1, <1>3, EndDisk DEF SaveStage, Goto, EndOf
<1>4. CASE \/ SaveStage("data", "tracker") /\ SaveData(gs, cursor)
           \/ SaveStage("tracker", "trackerEnd") /\ OpenTracker
           \/ SaveStage("trackerEnd", "clear") /\ WriteTracker(gs)
  BY <1>4, OtherDisk
  DEF SaveStage, Goto, EndOf, Parts, SaveData, OpenTracker, WriteTracker
<1>5. QED BY <1>2, <1>3, <1>4 DEF Save

LEMMA InitDisk == Init => DiskInv
<1> SUFFICES ASSUME Init PROVE DiskInv
  OBVIOUS
<1>1. DOMAIN saved = Parts /\ kept = [p \in Parts |-> <<>>] /\ crashes = 0 /\ pc = "load"
  BY DEF Init, CheckpointInit
<1>2. ASSUME NEW p \in Parts
      PROVE  /\ Cardinality(Present(p) \ Known(p)) <= MaxKeep * crashes
             /\ Len(kept[p]) <= MaxKeep /\ pc # EndOf(p)
  <2>1. Present(p) = {} BY DEF Init, CheckpointInit, Present, NoFolder, Folder
  <2>2. Present(p) \ Known(p) = {} BY <2>1
  <2>3. Cardinality(Present(p) \ Known(p)) = 0 BY <2>2, FS_EmptySet
  <2>4. kept[p] = <<>> BY <1>1
  <2>5. Len(kept[p]) = 0 BY <2>4
  <2>6. MaxKeep * crashes = 0 /\ 0 <= MaxKeep BY <1>1, Sizes
  <2>7. QED BY <1>1, <2>3, <2>5, <2>6 DEF EndOf
<1>3. kept \in [Parts -> Seq(Steps)] BY <1>1
<1>4. QED BY <1>1, <1>2, <1>3 DEF DiskInv

LEMMA StepDisk ==
    ASSUME MaxKeep > 1, Saving, DiskInv, [Next]_vars PROVE DiskInv'
<1>1. CASE \/ Load \/ AddBatch \/ Poll \/ SampleBatch \/ FillBatch \/ BalanceBatch \/ Train
           \/ EndStep
  <2>1. /\ UNCHANGED <<saved, kept, crashes>>
        /\ pc \notin {"actorEnd", "criticEnd"} /\ pc' \notin {"actorEnd", "criticEnd"}
    BY <1>1 DEF Load, AddBatch, Poll, SampleBatch, FillBatch, BalanceBatch, Train, EndStep, Begin,
                Goto
  <2>2. QED BY <2>1, OtherDisk DEF EndOf, Parts
<1>2. CASE UNCHANGED vars \/ \E p \in DOMAIN prompts : Loops(p) \/ Mishap(p)
  <2>1. UNCHANGED <<saved, kept, crashes, pc, gs>> BY <1>2 DEF vars, Loops, Mishap
  <2>2. QED BY <2>1, OtherDisk
<1>3. CASE Save BY <1>3, SaveDisk
<1>4. CASE Crash BY <1>4, CrashDisk
<1>5. QED BY <1>1, <1>2, <1>3, <1>4 DEF Next, Trainer

(* Each life of the job leaves no more checkpoints than asked for on the    *)
(* disk, not even while one is being saved; those of an earlier life stay   *)
(* (ensure_checkpoint_capacity, register_checkpoint).                       *)
THEOREM DiskBound == Spec => []DiskBounded
<1>1. CASE MaxKeep > 1
  <2>1. Init => SkipInv /\ DiskInv BY InitSkips, InitDisk
  <2>2. SkipInv => Saving BY DEF SkipInv, SkipType, Saving, SavePCs
  <2>3. SkipInv /\ DiskInv /\ [Next]_vars => SkipInv' /\ DiskInv'
    BY <1>1, <2>2, LoadSkips, StepSkips, StepDisk
  <2>4. SkipInv /\ DiskInv => DiskBounded
    BY <1>1, <2>2, PresentBounded DEF DiskBounded, Present
  <2>5. QED BY <2>1, <2>3, <2>4, PTL DEF Spec
<1>2. CASE ~(MaxKeep > 1)
  <2>1. DiskBounded BY <1>2 DEF DiskBounded
  <2>2. QED BY <2>1, PTL
<1>3. QED BY <1>1, <1>2

-----------------------------------------------------------------------------
(* What the queue holds: never more of a prompt than its sessions, never    *)
(* less than what the list showed or the batch has of it.                   *)

Within(e) ==
    /\ e.step \in Nat
    /\ e.going \in 0 .. Sessions /\ e.stored \in 0 .. Sessions /\ e.empty \in 0 .. Sessions
    /\ e.going + e.stored + e.empty <= Sessions

LEMMA WithinType ==
    ASSUME NEW e, Within(e)
    PROVE  e.step \in Nat /\ e.going \in Nat /\ e.stored \in Nat /\ e.empty \in Nat
BY Sizes DEF Within

HeldInv ==
    /\ \A p \in DOMAIN prompts : Within(prompts[p])
    /\ \A p \in DOMAIN listed : /\ listed[p].step = prompts[p].step
                                /\ listed[p].stored \in 0 .. prompts[p].stored
    /\ \A p \in DOMAIN batch : p \in DOMAIN prompts /\ batch[p] \in 1 .. prompts[p].stored
    /\ DOMAIN prompts \subseteq 1 .. cursor
    /\ pc = "load" => DOMAIN prompts = {}
    /\ strategy \in {"wait", "drop"} /\ mishaps \in 0 .. MaxMishaps

\* The prompts that are not sampled yet, and those up to a step.
Unsampled == {p \in DOMAIN prompts : prompts[p].status # "sampled"}
UpTo(s) == {p \in Unsampled : prompts[p].step <= s}

(* A task or a session of a prompt adds to what is stored of it and leaves  *)
(* what is unsampled, and of which step it is (_run_prompt,                 *)
(* _agent_loop_postprocess).                                                *)
LEMMA SetHeld ==
    ASSUME GroupInv, HeldInv, NEW p \in DOMAIN prompts, NEW r \in Entry, Within(r), Set(p, r),
           r.step = prompts[p].step, prompts[p].stored <= r.stored,
           (r.status = "sampled") <=> (prompts[p].status = "sampled"),
           mishaps' \in 0 .. MaxMishaps, cursor' = cursor, pc' = pc
    PROVE  /\ HeldInv' /\ Unsampled' = Unsampled
           /\ \A q \in DOMAIN prompts' : q \in DOMAIN prompts /\ prompts'[q].step = prompts[q].step
<1> USE DEF GroupInv, HeldInv
<1> DEFINE ps == [prompts EXCEPT ![p] = r]
<1>1. /\ Entries(ps) /\ DOMAIN ps = DOMAIN prompts /\ ps[p] = r
      /\ \A q \in DOMAIN ps : q # p => ps[q] = prompts[q]
  BY DEF Entries
<1>2. prompts' = Live(ps) /\ UNCHANGED <<strategy, listed, batch>> BY DEF Set
<1> HIDE DEF ps
<1>3. /\ DOMAIN prompts' \subseteq DOMAIN prompts
      /\ \A q \in DOMAIN prompts' : prompts'[q] = ps[q]
      /\ \A q \in DOMAIN ps :
            q \in DOMAIN prompts' <=> ps[q].status # "sampled" \/ ps[q].going + ps[q].stored > 0
  BY <1>1, <1>2, LiveEntries, LiveKept
<1>4. ASSUME NEW q \in DOMAIN prompts
      PROVE  /\ Within(ps[q]) /\ ps[q].step = prompts[q].step /\ prompts[q].stored <= ps[q].stored
             /\ (ps[q].status = "sampled") <=> (prompts[q].status = "sampled")
             /\ Within(prompts[q])
  <2>1. Within(prompts[q]) OBVIOUS
  <2>2. CASE q = p BY <1>1, <2>1, <2>2
  <2>3. CASE q # p
    <3>1. ps[q] = prompts[q] BY <1>1, <2>3
    <3>2. prompts[q].stored \in Nat BY <2>1, WithinType
    <3>3. prompts[q].stored <= prompts[q].stored BY <3>2
    <3>4. QED BY <2>1, <3>1, <3>3
  <2>4. QED BY <2>1, <2>2, <2>3
<1>5. \A q \in DOMAIN prompts' : /\ q \in DOMAIN prompts /\ prompts'[q].step = prompts[q].step
                                 /\ Within(prompts'[q])
  BY <1>3, <1>4
<1>6. ASSUME NEW q \in DOMAIN listed
      PROVE  listed[q].step = prompts'[q].step /\ listed[q].stored \in 0 .. prompts'[q].stored
  <2>1. q \in DOMAIN prompts /\ prompts[q].status # "sampled"
        /\ listed[q].step = prompts[q].step /\ listed[q].stored \in 0 .. prompts[q].stored
    BY DEF ListedInv
  <2>2. q \in DOMAIN prompts' BY <1>1, <1>3, <1>4, <2>1
  <2>3. ps[q].stored \in Nat /\ prompts[q].stored \in Nat BY <1>4, <2>1, WithinType
  <2>4. QED BY <1>3, <1>4, <2>1, <2>2, <2>3
<1>7. ASSUME NEW q \in DOMAIN batch
      PROVE  q \in DOMAIN prompts' /\ batch[q] \in 1 .. prompts'[q].stored
  <2>1. q \in DOMAIN prompts /\ batch[q] \in 1 .. prompts[q].stored OBVIOUS
  <2>2. batch[q] \in 1 .. ps[q].stored /\ ps[q].going + ps[q].stored > 0
    <3>1. ps[q].stored \in Nat /\ ps[q].going \in Nat /\ prompts[q].stored \in Nat
      BY <1>4, <2>1, WithinType
    <3>2. prompts[q].stored <= ps[q].stored BY <1>4, <2>1
    <3>3. QED BY <2>1, <3>1, <3>2
  <2>3. q \in DOMAIN prompts' BY <1>1, <1>3, <2>1, <2>2
  <2>4. QED BY <1>3, <2>2, <2>3
<1>8. Unsampled' = Unsampled
  <2>1. \A q \in DOMAIN prompts' :
           q \in DOMAIN prompts /\ ((prompts'[q].status = "sampled") <=> (prompts[q].status = "sampled"))
    BY <1>3, <1>4
  <2>2. \A q \in DOMAIN prompts : prompts[q].status # "sampled" => q \in DOMAIN prompts'
    BY <1>1, <1>3, <1>4
  <2>3. QED BY <2>1, <2>2 DEF Unsampled
<1>9. HeldInv'
  <2>1. DOMAIN prompts' \subseteq 1 .. cursor' BY <1>3
  <2>2. pc' = "load" => DOMAIN prompts' = {} BY <1>3
  <2>3. QED BY <1>2, <1>5, <1>6, <1>7, <2>1, <2>2
<1>10. QED BY <1>5, <1>8, <1>9

LEMMA LoopHeld ==
    ASSUME GroupInv, HeldInv, NEW p \in DOMAIN prompts, AgentLoop(p) \/ SessionMishap(p),
           cursor' = cursor, pc' = pc
    PROVE  /\ HeldInv' /\ Unsampled' = Unsampled
           /\ \A q \in DOMAIN prompts' : q \in DOMAIN prompts /\ prompts'[q].step = prompts[q].step
<1> DEFINE e == prompts[p]
<1>0. /\ e \in Entry /\ Sessions \in Int /\ Counted(e) /\ Within(e)
      /\ e.step \in Nat /\ e.going \in Int /\ e.stored \in Int /\ e.empty \in Int
      /\ e.status \in Statuses /\ e.raised \in BOOLEAN
      /\ MaxMishaps \in Nat /\ mishaps \in 0 .. MaxMishaps
  BY Sizes, BufferAssumption DEF GroupInv, HeldInv, Entries, Entry, Within
<1> HIDE DEF e
<1> USE <1>0 DEF Statuses
<1>1. CASE RunPrompt(p)
  <2> DEFINE r == [e EXCEPT !.status = "running", !.going = Sessions]
  <2>1. e.status = "pending" /\ Set(p, r) /\ mishaps' = mishaps BY <1>1 DEF RunPrompt, e
  <2>2. /\ r \in Entry /\ r.status = "running" /\ r.going = Sessions /\ r.step = e.step
        /\ r.stored = e.stored /\ r.empty = e.empty
    <3>1. r \in Entry /\ r.status = "running" BY DEF Entry
    <3>2. r.going = Sessions /\ r.stored = e.stored /\ r.empty = e.empty BY DEF Entry
    <3>3. r.step = e.step BY DEF Entry
    <3>4. QED BY <3>1, <3>2, <3>3
  <2> HIDE DEF r
  <2>3. Within(r) BY <2>1, <2>2 DEF Counted, Within
  <2>4. QED BY <2>1, <2>2, <2>3, SetHeld DEF e
<1>2. CASE SessionPuts(p)
  <2> DEFINE r == [e EXCEPT !.going = @ - 1, !.stored = @ + 1]
  <2>1. e.going > 0 /\ Set(p, r) /\ mishaps' = mishaps BY <1>2 DEF SessionPuts, e
  <2>0. e.going - 1 \in Int /\ e.stored + 1 \in Int OBVIOUS
  <2>2. r \in Entry BY <1>0, <2>0, EntryUpdate
  <2>3. /\ r.status = e.status /\ r.going = e.going - 1 /\ r.step = e.step
        /\ r.stored = e.stored + 1 /\ r.empty = e.empty
    BY DEF Entry
  <2> HIDE DEF r
  <2>4. Within(r) BY <2>1, <2>3 DEF Within
  <2>5. QED BY <2>1, <2>2, <2>3, <2>4, SetHeld DEF e
<1>3. CASE PromptFinished(p) \/ PromptFails(p)
  <2> DEFINE r == [e EXCEPT !.status = "finished"]
             q == [e EXCEPT !.status = "failure"]
  <2>1. e.status = "running" /\ (Set(p, r) \/ Set(p, q)) /\ mishaps' = mishaps
    BY <1>3 DEF PromptFinished, PromptFails, e
  <2>2. /\ r \in Entry /\ r.status = "finished" /\ r.going = e.going /\ r.step = e.step
        /\ r.stored = e.stored /\ r.empty = e.empty
        /\ q \in Entry /\ q.status = "failure" /\ q.going = e.going /\ q.step = e.step
        /\ q.stored = e.stored /\ q.empty = e.empty
    BY DEF Entry
  <2> HIDE DEF r, q
  <2>3. Within(r) /\ Within(q) BY <2>2 DEF Within
  <2>4. QED BY <2>1, <2>2, <2>3, SetHeld DEF e
<1>4. CASE SessionMishap(p)
  <2> DEFINE r == [e EXCEPT !.going = @ - 1, !.empty = @ + 1]
             q == [e EXCEPT !.going = @ - 1, !.raised = TRUE]
  <2>1. /\ e.going > 0 /\ (Set(p, r) \/ Set(p, q))
        /\ mishaps < MaxMishaps /\ mishaps' = mishaps + 1
    BY <1>4 DEF SessionMishap, e
  <2>0. e.going - 1 \in Int /\ e.empty + 1 \in Int OBVIOUS
  <2>2. r \in Entry BY <1>0, <2>0, EntryUpdate
  <2>3. /\ r.status = e.status /\ r.going = e.going - 1 /\ r.step = e.step
        /\ r.empty = e.empty + 1 /\ r.stored = e.stored
    BY DEF Entry
  <2>4. q \in Entry
    <3>1. e.going - 1 \in Int OBVIOUS
    <3>2. QED BY <1>0, <3>1, EntryRaised, Zenon
  <2>5. /\ q.status = e.status /\ q.going = e.going - 1 /\ q.step = e.step
        /\ q.empty = e.empty /\ q.stored = e.stored
    BY DEF Entry
  <2> HIDE DEF r, q
  <2>6. Within(r) BY <2>1, <2>3 DEF Within
  <2>7. Within(q) BY <2>1, <2>5 DEF Within
  <2>8. mishaps' \in 0 .. MaxMishaps BY <2>1
  <2>9. QED BY <2>1, <2>2, <2>3, <2>4, <2>5, <2>6, <2>7, <2>8, SetHeld DEF e
<1>5. QED BY <1>1, <1>2, <1>3, <1>4 DEF AgentLoop

(* What the sample takes of the unsampled prompts, and what the batch has   *)
(* of them.                                                                 *)
LEMMA SampleTakes ==
    ASSUME GroupInv, HeldInv, SampleBatch
    PROVE  \E chosen \in OldestOf(Sampleable(listed)) :
             /\ Unsampled' = Unsampled \ chosen
             /\ \A p \in DOMAIN prompts' : /\ p \in DOMAIN prompts /\ Within(prompts'[p])
                                           /\ prompts'[p].step = prompts[p].step
             /\ \A p \in DOMAIN batch' :
                   /\ p \in chosen /\ ~(strategy = "drop" /\ Exceeds(gs, prompts'[p].step))
                   /\ p \in DOMAIN prompts' /\ batch'[p] \in 1 .. prompts'[p].stored
             /\ DOMAIN listed' = {}
<1> USE DEF GroupInv, HeldInv
<1>1. PICK chosen \in OldestOf(Sampleable(listed)) :
        LET tooOld == {p \in chosen : strategy = "drop" /\ Exceeds(gs, listed[p].step)}
        IN /\ prompts' = Live([p \in DOMAIN prompts |->
                                 IF p \notin chosen THEN prompts[p]
                                 ELSE [prompts[p] EXCEPT
                                         !.status = "sampled",
                                         !.stored = IF p \in tooOld THEN @ - listed[p].stored
                                                    ELSE @]])
           /\ batch' = [p \in {q \in chosen \ tooOld : listed[q].stored > 0}
                          |-> listed[p].stored]
           /\ listed' = <<>>
  BY DEF SampleBatch, Sample
<1> DEFINE tooOld == {p \in chosen : strategy = "drop" /\ Exceeds(gs, listed[p].step)}
           left(p) == IF p \in tooOld THEN prompts[p].stored - listed[p].stored
                      ELSE prompts[p].stored
           taken(p) == [prompts[p] EXCEPT !.status = "sampled", !.stored = left(p)]
           ps == [p \in DOMAIN prompts |-> IF p \notin chosen THEN prompts[p] ELSE taken(p)]
<1>2. chosen \subseteq DOMAIN listed BY DEF OldestOf, Sampleable
<1>3. prompts' = Live(ps) BY <1>1
<1>4. /\ batch' = [p \in {q \in chosen \ tooOld : listed[q].stored > 0} |-> listed[p].stored]
      /\ DOMAIN listed' = {}
  <2>1. batch' = [p \in {q \in chosen \ tooOld : listed[q].stored > 0} |-> listed[p].stored]
    BY <1>1
  <2>2. listed' = <<>> BY <1>1
  <2>3. QED BY <2>1, <2>2
<1>5. ASSUME NEW p \in chosen
      PROVE  /\ p \in DOMAIN prompts /\ prompts[p] \in Entry /\ Within(prompts[p])
             /\ prompts[p].status # "sampled"
             /\ listed[p].step = prompts[p].step /\ listed[p].stored \in 0 .. prompts[p].stored
  BY <1>2, <1>5 DEF Entries, ListedInv
<1>6. ASSUME NEW p \in chosen
      PROVE  /\ taken(p) \in Entry /\ Within(taken(p)) /\ taken(p).status = "sampled"
             /\ taken(p).step = prompts[p].step /\ taken(p).stored = left(p)
             /\ taken(p).going = prompts[p].going
  <2>1. left(p) \in 0 .. prompts[p].stored
    <3>1. prompts[p].stored \in Nat /\ listed[p].stored \in 0 .. prompts[p].stored
      BY <1>5 DEF Within
    <3>2. QED BY <3>1
  <2> HIDE DEF left
  <2>2. left(p) \in Int /\ Sessions \in Nat BY <1>5, <2>1, Sizes DEF Within
  <2>3. /\ taken(p) \in Entry /\ taken(p).status = "sampled" /\ taken(p).stored = left(p)
        /\ taken(p).going = prompts[p].going /\ taken(p).empty = prompts[p].empty
        /\ taken(p).step = prompts[p].step
    BY <1>5, <2>2 DEF Entry, Statuses
  <2> HIDE DEF taken
  <2>4. Within(taken(p)) BY <1>5, <2>1, <2>2, <2>3 DEF Within
  <2>5. QED BY <2>3, <2>4
<1> HIDE DEF taken
<1>7. /\ Entries(ps) /\ DOMAIN ps = DOMAIN prompts
      /\ \A p \in chosen : ps[p] = taken(p)
      /\ \A p \in DOMAIN ps \ chosen : ps[p] = prompts[p]
  BY <1>5, <1>6 DEF Entries
<1> HIDE DEF ps
<1>8. /\ DOMAIN prompts' \subseteq DOMAIN ps
      /\ \A p \in DOMAIN prompts' : prompts'[p] = ps[p]
      /\ \A p \in DOMAIN ps :
            p \in DOMAIN prompts' <=> ps[p].status # "sampled" \/ ps[p].going + ps[p].stored > 0
  BY <1>3, <1>7, LiveEntries, LiveKept
<1>9. \A p \in DOMAIN prompts' : /\ p \in DOMAIN prompts /\ Within(prompts'[p])
                                 /\ prompts'[p].step = prompts[p].step
  BY <1>5, <1>6, <1>7, <1>8
<1>10. Unsampled' = Unsampled \ chosen
  <2>1. ASSUME NEW p \in DOMAIN prompts'
        PROVE  /\ p \in DOMAIN prompts /\ (p \in chosen => prompts'[p].status = "sampled")
               /\ p \notin chosen => prompts'[p] = prompts[p]
    BY <1>6, <1>7, <1>8
  <2>2. ASSUME NEW p \in DOMAIN prompts, p \notin chosen, prompts[p].status # "sampled"
        PROVE  p \in DOMAIN prompts'
    BY <1>7, <1>8, <2>2
  <2>3. QED BY <2>1, <2>2 DEF Unsampled
<1>11. ASSUME NEW p \in DOMAIN batch'
       PROVE  /\ p \in chosen /\ ~(strategy = "drop" /\ Exceeds(gs, prompts'[p].step))
              /\ p \in DOMAIN prompts' /\ batch'[p] \in 1 .. prompts'[p].stored
  <2>1. p \in chosen /\ p \notin tooOld /\ listed[p].stored > 0 /\ batch'[p] = listed[p].stored
    BY <1>4
  <2>2. ~(strategy = "drop" /\ Exceeds(gs, prompts[p].step)) BY <1>5, <2>1
  <2>3. left(p) = prompts[p].stored BY <2>1
  <2> HIDE DEF left, tooOld
  <2>4. ps[p].stored = prompts[p].stored /\ ps[p].going = prompts[p].going /\ p \in DOMAIN ps
    BY <1>5, <1>6, <1>7, <2>1, <2>3
  <2>5. ps[p].going + ps[p].stored > 0 /\ batch'[p] \in 1 .. ps[p].stored
    BY <1>5, <2>1, <2>4 DEF Within
  <2>6. p \in DOMAIN prompts' BY <1>8, <2>4, <2>5
  <2>7. QED BY <1>8, <1>9, <2>1, <2>2, <2>5, <2>6
<1>12. QED BY <1>4, <1>9, <1>10, <1>11

(* Every step keeps HeldInv.                                                *)

LEMMA InitHeld == Init => HeldInv
BY BufferAssumption DEF Init, BufferInit, HeldInv

LEMMA AddHeld ==
    ASSUME GroupInv, HeldInv, SkipInv, AddBatch PROVE HeldInv'
<1> USE DEF GroupInv, HeldInv
<1> DEFINE new == cursor + 1 .. cursor + BatchSize
           fresh == [step |-> gs, status |-> "pending", going |-> 0, stored |-> 0,
                     raised |-> FALSE, empty |-> 0]
<1>1. /\ pc = "add" /\ pc' \in {"add", "sample"}
      /\ UNCHANGED <<strategy, listed, batch, mishaps>> /\ cursor' = cursor + BatchSize
      /\ prompts' = [p \in DOMAIN prompts \cup new |-> IF p \in new THEN fresh ELSE prompts[p]]
  BY DEF AddBatch, PutPrompts
<1>2. gs \in Nat /\ cursor \in Nat /\ BatchSize \in Nat /\ Sessions \in Nat
  BY Sizes DEF SkipInv, SkipType
<1>3. Within(fresh)
  <2>1. /\ fresh.step = gs /\ fresh.going = 0 /\ fresh.stored = 0 /\ fresh.empty = 0 OBVIOUS
  <2> HIDE DEF fresh
  <2>2. QED BY <1>2, <2>1 DEF Within
<1>4. DOMAIN prompts' \subseteq 1 .. cursor'
  <2>1. new \subseteq 1 .. cursor + BatchSize BY <1>2
  <2>2. 1 .. cursor \subseteq 1 .. cursor + BatchSize BY <1>2
  <2> HIDE DEF new, fresh
  <2>3. QED BY <1>1, <2>1, <2>2
<1> HIDE DEF new, fresh
<1>5. \A p \in DOMAIN prompts' : Within(prompts'[p]) BY <1>1, <1>3
<1>6. DOMAIN listed' = {} /\ DOMAIN batch' = {} BY <1>1
<1>7. QED BY <1>1, <1>4, <1>5, <1>6

LEMMA PollHeld ==
    ASSUME GroupInv, HeldInv, Poll PROVE HeldInv'
<1> USE DEF GroupInv, HeldInv
<1>1. /\ pc = "sample" /\ pc' = "select"
      /\ UNCHANGED <<strategy, prompts, batch, mishaps, cursor>>
      /\ listed' = [p \in DOMAIN prompts \cap Sampleable(prompts) |-> prompts[p]]
  BY DEF Poll, List, Goto, Restricted
<1>2. ASSUME NEW p \in DOMAIN listed'
      PROVE  listed'[p].step = prompts'[p].step /\ listed'[p].stored \in 0 .. prompts'[p].stored
  <2>1. p \in DOMAIN prompts /\ listed'[p] = prompts[p] BY <1>1
  <2>2. prompts[p].stored \in Nat BY <2>1, WithinType
  <2>3. QED BY <1>1, <2>1, <2>2
<1>3. QED BY <1>1, <1>2

LEMMA SampleHeld ==
    ASSUME GroupInv, HeldInv, SampleBatch PROVE HeldInv'
<1>1. PICK chosen \in OldestOf(Sampleable(listed)) :
             /\ \A p \in DOMAIN prompts' : /\ p \in DOMAIN prompts /\ Within(prompts'[p])
                                           /\ prompts'[p].step = prompts[p].step
             /\ \A p \in DOMAIN batch' :
                   p \in DOMAIN prompts' /\ batch'[p] \in 1 .. prompts'[p].stored
             /\ DOMAIN listed' = {}
  BY SampleTakes
<1>2. pc' = "fill" /\ UNCHANGED <<strategy, cursor, mishaps>> BY DEF SampleBatch, Goto, Sample
<1>3. QED BY <1>1, <1>2 DEF HeldInv

\* The prompts of the batch lose what it had of them; they were sampled.
LEMMA EndStepHeld ==
    ASSUME GroupInv, HeldInv, EndStep
    PROVE  /\ HeldInv' /\ Unsampled' = Unsampled
           /\ \A p \in DOMAIN prompts' : p \in DOMAIN prompts /\ prompts'[p].step = prompts[p].step
<1> USE DEF GroupInv, HeldInv
<1> DEFINE less(p) == [prompts[p] EXCEPT !.stored = @ - batch[p]]
           ps == [p \in DOMAIN prompts |-> IF p \in DOMAIN batch THEN less(p) ELSE prompts[p]]
<1>1. /\ pc = "clear" /\ listed' = listed /\ prompts' = Live(ps) /\ DOMAIN batch' = {}
      /\ pc' \in {"add", "done"} /\ UNCHANGED <<strategy, cursor, mishaps>>
  <2>1. batch' = <<>> BY DEF EndStep, ClearBatch
  <2>2. DOMAIN batch' = {} BY <2>1
  <2>3. QED BY <2>2 DEF EndStep, ClearBatch, Begin
<1>2. ASSUME NEW p \in DOMAIN prompts, p \in DOMAIN batch
      PROVE  /\ less(p) \in Entry /\ Within(less(p)) /\ less(p).step = prompts[p].step
             /\ less(p).status = "sampled" /\ prompts[p].status = "sampled"
  <2>1. /\ prompts[p] \in Entry /\ Within(prompts[p]) /\ batch[p] \in 1 .. prompts[p].stored
        /\ prompts[p].status = "sampled"
    BY <1>2 DEF Entries, BatchInv
  <2>2. /\ prompts[p].stored \in Nat /\ prompts[p].going \in Nat /\ prompts[p].empty \in Nat
        /\ Sessions \in Nat /\ prompts[p].status \in Statuses
    BY <2>1, WithinType, Sizes DEF Entry
  <2>3. /\ prompts[p].stored - batch[p] \in Int /\ prompts[p].going \in Int
        /\ prompts[p].stored - batch[p] \in 0 .. prompts[p].stored
    BY <2>1, <2>2
  <2>4. /\ less(p).status = prompts[p].status /\ less(p).going = prompts[p].going
        /\ less(p).step = prompts[p].step /\ less(p).empty = prompts[p].empty
        /\ less(p).stored = prompts[p].stored - batch[p]
    BY <2>1 DEF Entry
  <2>5. less(p) \in Entry BY <2>1, <2>2, <2>3, EntryUpdate DEF Entry
  <2> HIDE DEF less
  <2>6. /\ prompts[p].step \in Nat
        /\ prompts[p].going <= Sessions /\ prompts[p].stored <= Sessions
        /\ prompts[p].empty <= Sessions
        /\ prompts[p].going + prompts[p].stored + prompts[p].empty <= Sessions
    BY <2>1, <2>2 DEF Within
  <2>6a. less(p).stored \in Nat /\ less(p).stored <= prompts[p].stored BY <2>2, <2>3, <2>4
  <2>6b. Within(less(p)) BY <2>2, <2>4, <2>6, <2>6a DEF Within
  <2>7. QED BY <2>1, <2>4, <2>5, <2>6b
<1> HIDE DEF less
<1>3. /\ Entries(ps) /\ DOMAIN ps = DOMAIN prompts
      /\ \A p \in DOMAIN prompts : ps[p] = IF p \in DOMAIN batch THEN less(p) ELSE prompts[p]
  BY <1>2 DEF Entries
<1> HIDE DEF ps
<1>4. /\ DOMAIN prompts' \subseteq DOMAIN prompts
      /\ \A p \in DOMAIN prompts' : prompts'[p] = ps[p]
      /\ \A p \in DOMAIN prompts : ps[p].status # "sampled" => p \in DOMAIN prompts'
  BY <1>1, <1>3, LiveEntries, LiveKept
<1>5. ASSUME NEW p \in DOMAIN prompts
      PROVE  /\ Within(ps[p]) /\ ps[p].step = prompts[p].step
             /\ (ps[p].status = "sampled") <=> (prompts[p].status = "sampled")
  <2>1. CASE p \in DOMAIN batch BY <1>2, <1>3, <2>1
  <2>2. CASE p \notin DOMAIN batch BY <1>3, <2>2
  <2>3. QED BY <2>1, <2>2
<1>6. \A p \in DOMAIN prompts' : /\ p \in DOMAIN prompts /\ prompts'[p].step = prompts[p].step
                                 /\ Within(prompts'[p])
  BY <1>4, <1>5
<1>7. Unsampled' = Unsampled BY <1>4, <1>5 DEF Unsampled
<1>8. DOMAIN listed' = {} BY <1>1
<1>9. HeldInv' BY <1>1, <1>4, <1>6, <1>8
<1>10. QED BY <1>6, <1>7, <1>9

(* The steps that leave the queue alone, and the loss of it.                *)
LEMMA OtherHeld ==
    ASSUME GroupInv, HeldInv,
           Load \/ FillBatch \/ BalanceBatch \/ Train \/ Save \/ Crash \/ UNCHANGED vars
    PROVE  HeldInv'
<1> USE DEF HeldInv
<1>1. CASE Crash
  <2>1. prompts' = <<>> /\ listed' = <<>> /\ batch' = <<>>
        /\ UNCHANGED <<strategy, mishaps>>
    BY <1>1 DEF Crash, LoseQueue
  <2>2. DOMAIN prompts' = {} /\ DOMAIN listed' = {} /\ DOMAIN batch' = {} BY <2>1
  <2>3. QED BY <2>1, <2>2
<1>2. CASE Load
  <2>1. UNCHANGED bufferVars /\ pc = "load" BY <1>2 DEF Load
  <2>2. DOMAIN prompts' = {} BY <2>1
  <2>3. QED BY <2>1, <2>2 DEF GroupInv, ListedInv
<1>3. CASE FillBatch \/ BalanceBatch \/ Train \/ Save \/ UNCHANGED vars
  <2>1. /\ UNCHANGED <<bufferVars, cursor>>
        /\ pc' = "load" => pc = "load"
    BY <1>3 DEF FillBatch, BalanceBatch, Train, Save, SaveStage, Goto, vars
  <2>2. QED BY <2>1 DEF Within
<1>4. QED BY <1>1, <1>2, <1>3

(* Every step keeps the invariants of the queue, those of its groups and    *)
(* those of the dataloader.                                                 *)
QueueInv == GroupInv /\ SkipInv /\ HeldInv

LEMMA InitQueue == Init => QueueInv
BY InitGroups, InitSkips, InitHeld DEF QueueInv

LEMMA StepQueue ==
    ASSUME QueueInv, [Next]_vars PROVE QueueInv'
<1> USE DEF QueueInv
<1>1. ASSUME NEW p \in DOMAIN prompts, Loops(p) \/ Mishap(p) PROVE GroupInv' /\ HeldInv'
  <2>1. /\ AgentLoop(p) \/ SessionMishap(p)
        /\ pc' = pc /\ cursor' = cursor
    BY <1>1 DEF Loops, Mishap
  <2>2. QED BY <2>1, LoopGroups, LoopHeld
<1>2. gs \in Nat BY DEF SkipInv, SkipType
<1>3. GroupInv'
  BY <1>1, <1>2, AddGroups, PollGroups, SampleGroups, EndStepGroups, OtherGroups
  DEF Next, Trainer
<1>4. HeldInv'
  BY <1>1, AddHeld, PollHeld, SampleHeld, EndStepHeld, OtherHeld DEF Next, Trainer
<1>5. SkipInv' BY LoadSkips, StepSkips
<1>6. QED BY <1>3, <1>4, <1>5

LEMMA QueueHolds == Spec => []QueueInv
BY InitQueue, StepQueue, PTL DEF Spec

-----------------------------------------------------------------------------
(* The rows of the batch, and their division among the ranks.              *)

Balancing == {"balance", "train"}

RowsInv ==
    /\ RowType /\ HeapInv
    /\ \A i \in DOMAIN rows : rows[i].prompt <= cursor
    /\ \A p \in DOMAIN batch : batch[p] > 0
    /\ pc = "load" => rows = <<>>
    /\ pc \notin Balancing => heap = {}
    /\ pc \in Balancing =>
           /\ Len(rows) % RequiredMultiple = 0
           /\ {rows[i].prompt : i \in DOMAIN rows} \ {0} = DOMAIN batch
           /\ Cardinality({i \in DOMAIN rows : rows[i].prompt = 0}) < RequiredMultiple

LEMMA NoState == ASSUME heap = {} PROVE HeapInv
BY FS_EmptySet DEF HeapInv, SetsApart, RowsCovered

LEMMA EmptyHeap == ASSUME heap' = {} PROVE HeapInv'
<1>1. IsFiniteSet(heap') BY FS_EmptySet
<1>2. QED BY <1>1 DEF HeapInv, SetsApart, RowsCovered

LEMMA RowPrompt ==
    ASSUME RowType, NEW i \in DOMAIN rows PROVE rows[i].prompt \in Nat /\ rows[i].length \in Nat
<1> DEFINE Row == [prompt : Nat, length : Nat]
<1>1. rows \in Seq(Row) BY DEF RowType
<1> HIDE DEF Row
<1>2. rows[i] \in Row BY <1>1
<1>3. QED BY <1>2 DEF Row

LEMMA HeapUntouched == ASSUME HeapInv, UNCHANGED <<rows, heap>> PROVE HeapInv'
<1>1. \A i, j : Work(i)' = Work(i) /\ Between(i, j)' = Between(i, j) BY DEF Work, Between
<1>2. ASSUME NEW s \in heap PROVE EvenState(s)' /\ NarrowState(s)'
  <2>1. EvenState(s) /\ NarrowState(s) BY DEF HeapInv
  <2>2. EvenState(s)' BY <2>1 DEF EvenState
  <2>3. NarrowState(s)' BY <1>1, <2>1 DEF NarrowState, Spread
  <2>4. QED BY <2>2, <2>3
<1>3. SetsApart' /\ RowsCovered' BY DEF HeapInv, SetsApart, RowsCovered
<1>4. QED BY <1>2, <1>3 DEF HeapInv

\* k rows of prompts of the batch, and n rows of padding behind them.
Row == [prompt : Nat, length : Nat]

LEMMA PaddedRows ==
    ASSUME DOMAIN batch \subseteq Nat \ {0}, NEW k \in Nat, NEW n \in Nat,
           NEW a \in [1 .. k -> Row], \A i \in 1 .. k : a[i].prompt \in DOMAIN batch,
           NEW b \in [1 .. n -> {PaddingRow}],
           rows' = a \o b
    PROVE  /\ RowType'
           /\ Len(rows') = k + n /\ DOMAIN rows' = 1 .. k + n
           /\ \A i \in 1 .. k : rows'[i] = a[i]
           /\ \A i \in 1 .. k + n : rows'[i].prompt \in DOMAIN batch \/ rows'[i].prompt = 0
           /\ {i \in DOMAIN rows' : rows'[i].prompt = 0} = k + 1 .. k + n
<1>1. PaddingRow \in Row /\ PaddingRow.prompt = 0 BY DEF PaddingRow, Row
<1>2. b \in [1 .. n -> Row] /\ \A i \in 1 .. n : b[i] = PaddingRow BY <1>1
<1>3. a \in Seq(Row) /\ Len(a) = k /\ b \in Seq(Row) /\ Len(b) = n BY <1>2
<1>4. /\ a \o b \in Seq(Row) /\ Len(a \o b) = k + n
      /\ \A i \in 1 .. k + n : (a \o b)[i] = IF i <= k THEN a[i] ELSE b[i - k]
  BY <1>3, ConcatProperties, Zenon
<1>5. /\ rows' \in Seq(Row) /\ Len(rows') = k + n
      /\ \A i \in 1 .. k + n : rows'[i] = IF i <= k THEN a[i] ELSE b[i - k]
  BY <1>4
<1>6. DOMAIN rows' = 1 .. k + n BY <1>5
<1>7. \A i \in 1 .. k : i \in 1 .. k + n /\ rows'[i] = a[i] BY <1>5
<1>8. \A i \in k + 1 .. k + n : rows'[i].prompt = 0
  <2> SUFFICES ASSUME NEW i \in k + 1 .. k + n PROVE rows'[i].prompt = 0
    OBVIOUS
  <2>1. i \in 1 .. k + n /\ ~(i <= k) /\ i - k \in 1 .. n OBVIOUS
  <2>2. rows'[i] = b[i - k] BY <1>5, <2>1
  <2>3. QED BY <1>1, <1>2, <2>1, <2>2
<1>9. \A i \in 1 .. k + n : i \in 1 .. k \/ i \in k + 1 .. k + n OBVIOUS
<1>10. \A i \in 1 .. k + n : rows'[i].prompt \in DOMAIN batch \/ rows'[i].prompt = 0
  BY <1>7, <1>8, <1>9
<1>11. {i \in DOMAIN rows' : rows'[i].prompt = 0} = k + 1 .. k + n
  <2>1. \A i \in 1 .. k : rows'[i].prompt # 0 BY <1>7
  <2>2. k + 1 .. k + n \subseteq 1 .. k + n OBVIOUS
  <2>3. QED BY <1>6, <1>8, <1>9, <2>1, <2>2
<1>12. QED BY <1>5, <1>6, <1>7, <1>10, <1>11 DEF RowType, Row

(* The rows are those of the prompts of the batch, and padding up to the    *)
(* next multiple (upsample_batch_to_divisible_size).                        *)
LEMMA FillRows ==
    ASSUME PromptInv, RowsInv, FillBatch PROVE RowsInv'
<1>0. PICK order \in RowOrders : \E lengths \in [DOMAIN order -> Lengths] :
          Fill([i \in DOMAIN order |-> [prompt |-> order[i], length |-> lengths[i]]])
  BY DEF FillBatch
<1>1. PICK lengths \in [DOMAIN order -> Lengths] :
          Fill([i \in DOMAIN order |-> [prompt |-> order[i], length |-> lengths[i]]])
  BY <1>0
<1>2. /\ pc = "fill" /\ pc' \in {"raised", "balance"} /\ heap' = heap
      /\ UNCHANGED <<batch, cursor>>
  BY <1>1 DEF FillBatch, Goto, Fill
<1>3. cursor \in Nat /\ DOMAIN batch \subseteq 1 .. cursor
  BY DEF PromptInv, LoopType, Drawn
<1>4. /\ order \in Seq(DOMAIN batch)
      /\ \A p \in DOMAIN batch : Cardinality({i \in DOMAIN order : order[i] = p}) = batch[p]
  BY DEF RowOrders, BoundedSeq, SeqOf
<1> DEFINE a == [i \in DOMAIN order |-> [prompt |-> order[i], length |-> lengths[i]]]
           k == Len(order)
           n == PadSize(k)
<1>5. k \in Nat /\ DOMAIN order = 1 .. k BY <1>4
<1>6. Len(a) = k BY <1>5
<1>7. n \in 0 .. RequiredMultiple - 1 /\ (k + n) % RequiredMultiple = 0
  BY <1>5, PaddingFits
<1>8. RequiredMultiple \in Nat \ {0} BY RequiredLeast
<1>9. lengths \in [DOMAIN order -> Nat] BY V1Assumption
<1> DEFINE b == [i \in 1 .. n |-> PaddingRow]
<1>10. rows' = a \o b BY <1>1, <1>6 DEF Fill
<1>10a. /\ a \in [1 .. k -> Row]
        /\ \A i \in 1 .. k : a[i].prompt = order[i] /\ order[i] \in DOMAIN batch
  <2>1. \A i \in 1 .. k : order[i] \in DOMAIN batch /\ order[i] \in Nat /\ lengths[i] \in Nat
    BY <1>3, <1>4, <1>5, <1>9
  <2>2. \A i \in 1 .. k : a[i] \in Row /\ a[i].prompt = order[i] BY <1>5, <2>1 DEF Row
  <2>3. a = [i \in 1 .. k |-> a[i]] BY <1>5
  <2> HIDE DEF a
  <2>4. a \in [1 .. k -> Row] BY <2>2, <2>3
  <2>5. QED BY <2>1, <2>2, <2>4
<1>10b. b \in [1 .. n -> {PaddingRow}] OBVIOUS
<1> HIDE DEF a, b, k, n
<1>11. /\ RowType'
       /\ Len(rows') = k + n /\ DOMAIN rows' = 1 .. k + n
       /\ \A i \in 1 .. k : rows'[i].prompt = order[i] /\ i \in 1 .. k + n
       /\ \A i \in 1 .. k + n : rows'[i].prompt \in DOMAIN batch \/ rows'[i].prompt = 0
       /\ {i \in DOMAIN rows' : rows'[i].prompt = 0} = k + 1 .. k + n
  <2>1. DOMAIN batch \subseteq Nat \ {0} /\ n \in Nat /\ k \in Nat BY <1>3, <1>5, <1>7, <1>8
  <2>2. \A i \in 1 .. k : a[i].prompt \in DOMAIN batch BY <1>10a
  <2>3. /\ RowType'
        /\ Len(rows') = k + n /\ DOMAIN rows' = 1 .. k + n
        /\ \A i \in 1 .. k : rows'[i] = a[i]
        /\ \A i \in 1 .. k + n : rows'[i].prompt \in DOMAIN batch \/ rows'[i].prompt = 0
        /\ {i \in DOMAIN rows' : rows'[i].prompt = 0} = k + 1 .. k + n
    BY <1>10, <1>10a, <1>10b, <2>1, <2>2, PaddedRows
  <2>4. 1 .. k \subseteq 1 .. k + n BY <2>1
  <2>5. QED BY <1>10a, <2>3, <2>4
<1>12. Cardinality({i \in DOMAIN rows' : rows'[i].prompt = 0}) < RequiredMultiple
  <2> DEFINE lo == k + 1
             hi == k + n
  <2>1. lo \in Int /\ hi \in Int /\ lo = k + 1 /\ hi = k + n BY <1>5, <1>7, <1>8
  <2>2. {i \in DOMAIN rows' : rows'[i].prompt = 0} = lo .. hi BY <1>11
  <2> HIDE DEF lo, hi
  <2>3. Cardinality(lo .. hi) = IF lo > hi THEN 0 ELSE hi - lo + 1 BY <2>1, FS_Interval
  <2>4. Cardinality(lo .. hi) = n BY <1>5, <1>7, <1>8, <2>1, <2>3
  <2>5. n < RequiredMultiple BY <1>7, <1>8
  <2>6. QED BY <2>2, <2>4, <2>5
<1>13. {rows'[i].prompt : i \in DOMAIN rows'} \ {0} = DOMAIN batch
  <2>1. ASSUME NEW p \in DOMAIN batch PROVE \E i \in DOMAIN rows' : rows'[i].prompt = p
    <3>1. {i \in DOMAIN order : order[i] = p} # {}
      <4>1. batch[p] > 0 /\ batch[p] \in Int BY DEF RowsInv, PromptInv, BufferType
      <4>2. Cardinality({i \in DOMAIN order : order[i] = p}) # 0 BY <1>4, <4>1
      <4>3. QED BY <4>2, FS_EmptySet
    <3>2. PICK i \in DOMAIN order : order[i] = p BY <3>1
    <3>3. QED BY <1>5, <1>11, <3>2
  <2>2. \A p \in DOMAIN batch : p # 0 BY <1>3
  <2>3. \A i \in DOMAIN rows' : rows'[i].prompt \in DOMAIN batch \/ rows'[i].prompt = 0 BY <1>11
  <2>4. QED BY <2>1, <2>2, <2>3
<1>14. \A i \in DOMAIN rows' : rows'[i].prompt <= cursor BY <1>3, <1>11
<1>15. HeapInv' BY <1>2, EmptyHeap DEF RowsInv, Balancing
<1>16. heap' = {} BY <1>2 DEF RowsInv, Balancing
<1>17. Len(rows') % RequiredMultiple = 0 BY <1>7, <1>11
<1>18. QED
  BY <1>2, <1>11, <1>12, <1>13, <1>14, <1>15, <1>16, <1>17 DEF RowsInv, Balancing

LEMMA StepRows ==
    ASSUME PromptInv, RowsInv, [Next]_vars PROVE RowsInv'
<1>1. CASE FillBatch BY <1>1, FillRows
<1>2. CASE BalanceBatch
  <2>1. /\ pc = "balance" /\ pc' \in Balancing /\ rows' = rows
        /\ UNCHANGED <<batch, cursor>>
    BY <1>2 DEF BalanceBatch, StartPartition, MergeStates, Balancing
  <2>2. StartPartition \/ MergeStates BY <1>2 DEF BalanceBatch
  <2>3. RowType /\ HeapInv /\ Len(rows) % RequiredMultiple = 0 BY <2>1 DEF RowsInv, Balancing
  <2>4. HeapInv' BY <2>2, <2>3, FirstStates, MergeKeeps
  <2>5. RowType' BY <2>1, <2>3 DEF RowType
  <2>6. QED BY <2>1, <2>4, <2>5 DEF RowsInv, Balancing
<1>3. CASE Train
  <2>1. /\ rows' = <<>> /\ heap' = {} /\ pc' \in {"actor", "clear"}
        /\ UNCHANGED <<batch, cursor>>
    BY <1>3 DEF Train, Goto
  <2>2. RowType' /\ DOMAIN rows' = {} BY <2>1 DEF RowType
  <2>3. QED BY <2>1, <2>2, EmptyHeap DEF RowsInv, Balancing
<1>4. CASE Crash
  <2>1. rows' = <<>> /\ heap' = {} /\ pc' = "load" /\ batch' = <<>>
    BY <1>4 DEF Crash, LoseQueue, Goto
  <2>2. RowType' /\ DOMAIN rows' = {} /\ DOMAIN batch' = {} BY <2>1 DEF RowType
  <2>3. QED BY <2>1, <2>2, EmptyHeap DEF RowsInv, Balancing
<1>5. CASE SampleBatch
  <2>1. pc = "select" /\ pc' = "fill" /\ UNCHANGED <<rows, heap, cursor>> /\ Sample(gs)
    BY <1>5 DEF SampleBatch, Goto
  <2>2. PICK S : batch' = [p \in {q \in S : listed[q].stored > 0} |-> listed[p].stored]
    BY <2>1 DEF Sample
  <2>3. \A p \in DOMAIN batch' : batch'[p] > 0 BY <2>2
  <2>4. RowType' /\ HeapInv' BY <2>1, HeapUntouched DEF RowsInv, RowType
  <2>5. QED BY <2>1, <2>3, <2>4 DEF RowsInv, Balancing
<1>6. CASE Load
  <2>1. /\ pc = "load" /\ pc' \notin Balancing \cup {"load"}
        /\ UNCHANGED <<rows, heap, batch>>
    BY <1>6 DEF Load, Begin, Goto, Balancing
  <2>2. RowType' /\ HeapInv' BY <2>1, HeapUntouched DEF RowsInv, RowType
  <2>3. DOMAIN rows' = {} BY <2>1 DEF RowsInv
  <2>4. QED BY <2>1, <2>2, <2>3 DEF RowsInv, Balancing
<1>7. CASE \/ AddBatch \/ Poll \/ Save \/ EndStep
           \/ \E p \in DOMAIN prompts : Loops(p) \/ Mishap(p)
           \/ UNCHANGED vars
  <2>1. /\ UNCHANGED <<rows, heap>>
        /\ cursor \in Nat /\ cursor' \in Nat /\ cursor' >= cursor
        /\ batch' = batch \/ (DOMAIN batch' = {} /\ pc' \notin Balancing)
        /\ pc' = pc \/ (pc' \notin Balancing \cup {"load"} /\ pc \notin Balancing)
    <3>1. cursor \in Nat BY DEF PromptInv, LoopType
    <3>2. CASE AddBatch
      <4>1. cursor' = cursor + BatchSize /\ pc' \in {"sample", "add"} /\ pc = "add"
            /\ UNCHANGED <<rows, heap, batch>>
        BY <3>2 DEF AddBatch, PutPrompts
      <4>2. QED BY <3>1, <4>1, Sizes DEF Balancing
    <3>3. CASE Poll \/ Save
      <4>1. /\ UNCHANGED <<rows, heap, batch, cursor>>
            /\ pc \in {"sample"} \cup SavePCs /\ pc' \in {"select", "clear"} \cup SavePCs
        BY <3>3 DEF Poll, List, Save, SaveStage, SavePCs, Goto
      <4>2. QED BY <3>1, <4>1 DEF Balancing, SavePCs
    <3>4. CASE EndStep
      <4>1. /\ UNCHANGED <<rows, heap, cursor>> /\ batch' = <<>>
            /\ pc = "clear" /\ pc' \in {"add", "done"}
        BY <3>4 DEF EndStep, ClearBatch, Begin
      <4>2. DOMAIN batch' = {} BY <4>1
      <4>3. QED BY <3>1, <4>1, <4>2 DEF Balancing
    <3>5. CASE \E p \in DOMAIN prompts : Loops(p) \/ Mishap(p)
      <4>1. /\ UNCHANGED <<rows, heap, cursor, pc>> /\ batch' = batch
        BY <3>5, LoopKeeps DEF Loops, Mishap, PromptInv, BufferType
      <4>2. QED BY <3>1, <4>1
    <3>6. CASE UNCHANGED vars BY <3>1, <3>6 DEF vars
    <3>7. QED BY <1>7, <3>2, <3>3, <3>4, <3>5, <3>6
  <2>2. RowType' /\ HeapInv' BY <2>1, HeapUntouched DEF RowsInv, RowType
  <2>3. \A i \in DOMAIN rows' : rows'[i].prompt <= cursor'
    <3>1. \A i \in DOMAIN rows : rows[i].prompt \in Nat /\ rows[i].prompt <= cursor
      BY RowPrompt DEF RowsInv
    <3>2. QED BY <2>1, <3>1
  <2>4. QED BY <2>1, <2>2, <2>3 DEF RowsInv
<1>8. QED BY <1>1, <1>2, <1>3, <1>4, <1>5, <1>6, <1>7 DEF Next, Trainer

LEMMA InitRows == Init => RowsInv
<1> SUFFICES ASSUME Init PROVE RowsInv
  OBVIOUS
<1>1. rows = <<>> /\ heap = {} /\ batch = <<>> /\ pc = "load"
  BY DEF Init, BalanceInit, BufferInit
<1>2. RowType /\ DOMAIN rows = {} /\ DOMAIN batch = {} BY <1>1 DEF RowType
<1>3. QED BY <1>1, <1>2, NoState DEF RowsInv, Balancing

LEMMA RowsBalanced == ASSUME RowsInv PROVE SharesBalanced
BY SharesPartition DEF RowsInv, Balancing, SharesBalanced

(* The ranks train on the rows of the batch and its padding, each row once, *)
(* in shares that are equally large and of balanced work, and the padding   *)
(* is less than a multiple (_balance_batch).                                *)
THEOREM BatchDivided == Spec => []SharesBalanced
<1>1. Init => PromptInv /\ WeightsInv /\ RowsInv BY InitPrompts, InitWeights, InitRows
<1>2. PromptInv /\ WeightsInv /\ RowsInv /\ [Next]_vars => PromptInv' /\ WeightsInv' /\ RowsInv'
  BY StepWeights, StepRows
<1>3. RowsInv => SharesBalanced BY RowsBalanced
<1>4. QED BY <1>1, <1>2, <1>3, PTL DEF Spec

-----------------------------------------------------------------------------
(* The age of what is trained on.  The prompts are drawn Warmup batches     *)
(* ahead, and every step takes a batch of them, the oldest first: the wait  *)
(* strategy, which waits for all that reach the threshold, has used them up *)
(* at most Warmup steps later.                                              *)

Room(n) == BatchSize * n
Late == IF Threshold * SyncStep > 2 THEN Threshold * SyncStep ELSE 2

BeforeSample == {"add", "sample", "select"}
AfterSample == SavePCs \cup {"fill", "balance", "train", "clear"}

\* A batch more of the unsampled prompts is left before the sample.
Turn == IF pc \in BeforeSample THEN 1 ELSE 0

FewUnsampled ==
    /\ pc = "add" => /\ toAdd \in 1 .. Warmup + 1
                     /\ Cardinality(Unsampled) <= Room(Warmup + 1 - toAdd)
    /\ pc \in {"sample", "select"} => Cardinality(Unsampled) <= Room(Warmup + 1)
    /\ pc \in AfterSample => Cardinality(Unsampled) <= Room(Warmup)

\* Of the prompts that reach the threshold there are fewer with every step.
LateFew ==
    strategy = "wait" /\ pc \in BeforeSample \cup AfterSample =>
        \A s \in Nat : Age(gs, s) >= Late =>
            \/ UpTo(s) = {}
            \/ Cardinality(UpTo(s)) <= Room(Warmup + Late - Age(gs, s) - 1 + Turn)

LateListed ==
    strategy = "wait" /\ pc = "select" =>
        \A p \in Unsampled : Reaches(gs, prompts[p].step) => p \in DOMAIN listed

BatchYoung ==
    pc \in {"fill", "balance", "train"} =>
        \A p \in DOMAIN batch : Age(gs, prompts[p].step) <=
            IF strategy = "drop" THEN Threshold * SyncStep ELSE WaitBound

AgeInv == FewUnsampled /\ LateFew /\ LateListed /\ BatchYoung

LEMMA RoomFacts ==
    ASSUME NEW n \in Int
    PROVE  /\ Room(n) \in Int /\ Room(n + 1) = Room(n) + BatchSize
           /\ n <= 0 => Room(n) <= 0
           /\ n = 0 => Room(n) = 0
<1>1. BatchSize \in Nat BY Sizes
<1>2. BatchSize * n \in Int /\ BatchSize * (n + 1) = BatchSize * n + BatchSize BY <1>1
<1>3. n <= 0 => BatchSize * n <= 0
  <2>1. CASE n <= 0
    <3>1. -n \in Nat BY <2>1
    <3>2. BatchSize * (-n) \in Nat BY <1>1, <3>1
    <3>3. BatchSize * (-n) = -(BatchSize * n) BY <1>1
    <3>4. QED BY <1>2, <3>2, <3>3
  <2>2. QED BY <2>1
<1>4. n = 0 => BatchSize * n = 0 BY <1>1
<1>5. QED BY <1>2, <1>3, <1>4 DEF Room

LEMMA LateFacts ==
    /\ Late \in Nat /\ Late >= 2 /\ Threshold * SyncStep \in Nat /\ Late >= Threshold * SyncStep
    /\ WaitBound = Late + Warmup - 1
<1>1. Threshold \in Nat /\ SyncStep \in Nat BY BufferAssumption
<1>2. Threshold * SyncStep \in Nat BY <1>1
<1>3. QED BY <1>2 DEF Late, WaitBound

LEMMA UnsampledFinite ==
    ASSUME HeldInv, SkipInv
    PROVE  /\ IsFiniteSet(Unsampled) /\ Cardinality(Unsampled) \in Nat
           /\ \A s : IsFiniteSet(UpTo(s)) /\ Cardinality(UpTo(s)) \in Nat
                     /\ Cardinality(UpTo(s)) <= Cardinality(Unsampled)
<1>1. IsFiniteSet(1 .. cursor) BY FS_Interval DEF SkipInv, SkipType
<1>2. Unsampled \subseteq 1 .. cursor BY DEF HeldInv, Unsampled
<1>3. IsFiniteSet(Unsampled) BY <1>1, <1>2, FS_Subset
<1>4. \A s : UpTo(s) \subseteq Unsampled BY DEF UpTo
<1>5. QED BY <1>3, <1>4, FS_Subset, FS_CardinalityType

\* The steps that leave the unsampled prompts, and of which step they are.
LEMMA QuietAges ==
    ASSUME AgeInv, HeldInv, HeldInv', Unsampled' = Unsampled,
           \A q \in DOMAIN prompts' : q \in DOMAIN prompts /\ prompts'[q].step = prompts[q].step,
           UNCHANGED <<strategy, listed, batch, gs, toAdd>>,
           \/ pc' = pc
           \/ pc' \notin BeforeSample \cup AfterSample
           \/ pc \in AfterSample /\ pc' \in {"balance", "train"} /\ pc \in {"fill", "balance", "train"}
           \/ pc \in AfterSample /\ pc' \in SavePCs \cup {"clear"}
    PROVE  AgeInv'
<1>1. \A s : UpTo(s)' = UpTo(s) BY DEF UpTo, Unsampled
<1>2. CASE pc' \notin BeforeSample \cup AfterSample
  <2>1. /\ pc' # "add" /\ pc' \notin {"sample", "select"} /\ pc' \notin AfterSample
        /\ pc' \notin {"fill", "balance", "train"}
    BY <1>2 DEF BeforeSample, AfterSample
  <2>2. QED
    BY <1>2, <2>1 DEF AgeInv, FewUnsampled, LateFew, LateListed, BatchYoung
<1>3. CASE pc' \in BeforeSample \cup AfterSample
  <2>1. /\ pc \in BeforeSample <=> pc' \in BeforeSample
        /\ pc' \in BeforeSample => pc' = pc
        /\ pc' \in AfterSample => pc \in AfterSample
        /\ pc' \in {"fill", "balance", "train"} => pc \in {"fill", "balance", "train"}
    BY <1>3 DEF BeforeSample, AfterSample, SavePCs
  <2>2. FewUnsampled'
    BY <2>1, <1>3 DEF AgeInv, FewUnsampled, BeforeSample
  <2>3. Turn' = Turn BY <2>1 DEF Turn
  <2>4. LateFew'
    BY <1>1, <1>3, <2>1, <2>3 DEF AgeInv, LateFew, Age
  <2>5. LateListed'
    <3>1. ASSUME strategy = "wait", pc' = "select", NEW p \in Unsampled,
                 Reaches(gs, prompts'[p].step)
          PROVE  p \in DOMAIN listed
      <4>1. pc = "select" BY <2>1, <3>1 DEF BeforeSample
      <4>2. p \in DOMAIN prompts' BY DEF Unsampled
      <4>3. QED BY <3>1, <4>1, <4>2 DEF AgeInv, LateListed
    <3>2. QED BY <3>1 DEF LateListed, Reaches, Age
  <2>6. BatchYoung'
    <3>1. \A p \in DOMAIN batch : p \in DOMAIN prompts' BY DEF HeldInv
    <3>2. QED BY <2>1, <3>1 DEF AgeInv, BatchYoung, Age
  <2>7. QED BY <2>2, <2>4, <2>5, <2>6 DEF AgeInv
<1>4. QED BY <1>2, <1>3

LEMMA LoadAges ==
    ASSUME QueueInv, AgeInv, Load PROVE AgeInv'
<1>1. /\ pc = "load" /\ UNCHANGED <<strategy, prompts, listed, batch>>
      /\ pc' \in {"stuck", "done"} \/ (pc' = "add" /\ toAdd' = Warmup + 1)
  BY DEF Load, Begin, Goto
<1>2. DOMAIN prompts' = {} BY <1>1 DEF QueueInv, HeldInv
<1>3. Unsampled' = {} /\ \A s : UpTo(s)' = {} BY <1>2 DEF Unsampled, UpTo
<1>4. Warmup \in Nat BY Sizes
<1>5. FewUnsampled'
  <2>1. pc' \notin AfterSample /\ pc' \notin {"sample", "select"} BY <1>1 DEF AfterSample, SavePCs
  <2>2. CASE pc' = "add"
    <3>1. toAdd' = Warmup + 1 BY <1>1, <2>2
    <3>2. Warmup + 1 - toAdd' = 0 BY <1>4, <3>1
    <3>3. Room(Warmup + 1 - toAdd') = 0 BY <3>2, RoomFacts
    <3>4. Cardinality(Unsampled') = 0 BY <1>3, FS_EmptySet
    <3>5. QED BY <1>4, <2>1, <3>1, <3>3, <3>4 DEF FewUnsampled
  <2>3. QED BY <2>1, <2>2 DEF FewUnsampled
<1>6. LateFew' BY <1>3 DEF LateFew
<1>7. LateListed' BY <1>3 DEF LateListed
<1>8. BatchYoung' BY <1>1 DEF BatchYoung
<1>9. QED BY <1>5, <1>6, <1>7, <1>8 DEF AgeInv

(* A batch more is drawn: its prompts are of the present step.              *)
LEMMA AddAges ==
    ASSUME QueueInv, AgeInv, AddBatch PROVE AgeInv'
<1> DEFINE new == cursor + 1 .. cursor + BatchSize
<1>1. /\ pc = "add" /\ pc' = IF toAdd = 1 THEN "sample" ELSE "add"
      /\ toAdd' = toAdd - 1 /\ UNCHANGED <<strategy, gs>>
      /\ DOMAIN prompts' = DOMAIN prompts \cup new
      /\ \A p \in DOMAIN prompts : p \notin new => prompts'[p] = prompts[p]
      /\ \A p \in new : prompts'[p].step = gs /\ prompts'[p].status = "pending"
  BY DEF AddBatch, PutPrompts
<1>2. /\ gs \in Nat /\ cursor \in Nat /\ BatchSize \in Nat /\ Warmup \in Nat
      /\ toAdd \in 1 .. Warmup + 1 /\ Cardinality(Unsampled) <= Room(Warmup + 1 - toAdd)
      /\ DOMAIN prompts \subseteq 1 .. cursor
  BY <1>1, Sizes DEF QueueInv, SkipInv, SkipType, AgeInv, FewUnsampled, HeldInv
<1>3. IsFiniteSet(new) /\ Cardinality(new) = BatchSize
  <2> DEFINE lo == cursor + 1
             hi == cursor + BatchSize
  <2>1. lo \in Int /\ hi \in Int /\ lo = cursor + 1 /\ hi = cursor + BatchSize BY <1>2
  <2> HIDE DEF lo, hi
  <2>2. IsFiniteSet(lo .. hi) /\ Cardinality(lo .. hi) = IF lo > hi THEN 0 ELSE hi - lo + 1
    BY <2>1, FS_Interval
  <2>3. new = lo .. hi BY <2>1
  <2>4. QED BY <1>2, <2>1, <2>2, <2>3
<1>4. DOMAIN prompts \cap new = {} BY <1>2
<1> HIDE DEF new
<1>5. Unsampled' = Unsampled \cup new BY <1>1, <1>4 DEF Unsampled
<1>6. /\ IsFiniteSet(Unsampled) /\ Cardinality(Unsampled) \in Nat
      /\ \A s : IsFiniteSet(UpTo(s)) /\ Cardinality(UpTo(s)) \in Nat
  BY UnsampledFinite DEF QueueInv
<1>7. Cardinality(Unsampled') <= Room(Warmup + 1 - toAdd')
  <2>1. Unsampled \cap new = {} BY <1>4 DEF Unsampled
  <2>2. Cardinality(Unsampled \cup new) = Cardinality(Unsampled) + Cardinality(new) - Cardinality({})
    BY <1>3, <1>6, <2>1, FS_Union
  <2>3. Cardinality(Unsampled') = Cardinality(Unsampled) + BatchSize
    BY <1>2, <1>3, <1>5, <1>6, <2>2, FS_EmptySet
  <2>4. Warmup + 1 - toAdd \in Int /\ Warmup + 1 - toAdd' = (Warmup + 1 - toAdd) + 1
    BY <1>1, <1>2
  <2>5. Room((Warmup + 1 - toAdd) + 1) = Room(Warmup + 1 - toAdd) + BatchSize
        /\ Room(Warmup + 1 - toAdd) \in Int
    BY <2>4, RoomFacts
  <2>6. Room(Warmup + 1 - toAdd') = Room(Warmup + 1 - toAdd) + BatchSize BY <2>4, <2>5
  <2>7. QED BY <1>2, <1>6, <2>3, <2>5, <2>6
<1>8. FewUnsampled'
  <2>1. CASE toAdd = 1
    <3>1. pc' = "sample" /\ pc' \notin AfterSample BY <1>1, <2>1 DEF AfterSample, SavePCs
    <3>2. Warmup + 1 - toAdd' = Warmup + 1 BY <1>1, <1>2, <2>1
    <3>3. QED BY <1>7, <3>1, <3>2 DEF FewUnsampled
  <2>2. CASE toAdd # 1
    <3>1. pc' = "add" /\ pc' \notin AfterSample BY <1>1, <2>2 DEF AfterSample, SavePCs
    <3>2. toAdd' \in 1 .. Warmup + 1 BY <1>1, <1>2, <2>2
    <3>3. QED BY <1>7, <3>1, <3>2 DEF FewUnsampled
  <2>3. QED BY <2>1, <2>2
<1>9. LateFew'
  <2> SUFFICES ASSUME strategy = "wait", NEW s \in Nat, Age(gs, s) >= Late
               PROVE  \/ UpTo(s)' = {}
                      \/ Cardinality(UpTo(s)') <= Room(Warmup + Late - Age(gs, s) - 1 + Turn')
    BY <1>1 DEF LateFew, Age
  <2>1. s < gs BY <1>2, LateFacts DEF Age
  <2>2. UpTo(s)' = UpTo(s)
    <3>1. \A p \in new : ~(prompts'[p].step <= s) BY <1>1, <1>2, <2>1
    <3>2. \A p \in Unsampled : prompts'[p] = prompts[p] BY <1>1, <1>4 DEF Unsampled
    <3>3. QED BY <1>5, <3>1, <3>2 DEF UpTo
  <2>3. Turn' = 1 /\ Turn = 1 /\ pc \in BeforeSample BY <1>1 DEF Turn, BeforeSample
  <2>4. UpTo(s) = {} \/ Cardinality(UpTo(s)) <= Room(Warmup + Late - Age(gs, s) - 1 + Turn)
    BY <2>3 DEF AgeInv, LateFew
  <2>5. QED BY <2>2, <2>3, <2>4
<1>10. LateListed' /\ BatchYoung' BY <1>1 DEF LateListed, BatchYoung
<1>11. QED BY <1>8, <1>9, <1>10 DEF AgeInv

(* The polling of the wait strategy ends when all that reach the threshold  *)
(* can be sampled (_has_enough_samples).                                    *)
LEMMA PollAges ==
    ASSUME QueueInv, AgeInv, Poll PROVE AgeInv'
<1>1. /\ pc = "sample" /\ pc' = "select"
      /\ UNCHANGED <<strategy, prompts, batch, gs, toAdd>>
      /\ listed' = [p \in DOMAIN prompts \cap Sampleable(prompts) |-> prompts[p]]
      /\ strategy = "wait" => ~ \E p \in Unfinished(prompts) : Reaches(gs, prompts[p].step)
  BY DEF Poll, List, Goto, Restricted, HasEnoughSamples
<1>2. Unsampled' = Unsampled /\ \A s : UpTo(s)' = UpTo(s) BY <1>1 DEF Unsampled, UpTo
<1>3. FewUnsampled' BY <1>1, <1>2 DEF AgeInv, FewUnsampled, AfterSample, SavePCs
<1>4. LateFew'
  <2>1. Turn' = Turn /\ pc \in BeforeSample BY <1>1 DEF Turn, BeforeSample
  <2>2. QED BY <1>1, <1>2, <2>1 DEF AgeInv, LateFew, Age
<1>5. LateListed'
  <2> SUFFICES ASSUME strategy = "wait", NEW p \in Unsampled, Reaches(gs, prompts[p].step)
               PROVE  p \in DOMAIN listed'
    BY <1>1, <1>2 DEF LateListed, Reaches, Age
  <2>1. p \in DOMAIN prompts /\ prompts[p].status # "sampled" BY DEF Unsampled
  <2>2. prompts[p].status \in Statuses
    BY <2>1 DEF QueueInv, GroupInv, Entries, Entry
  <2>3. p \notin Unfinished(prompts) BY <1>1
  <2>4. p \in Sampleable(prompts) BY <2>1, <2>2, <2>3 DEF Statuses, Unfinished, Sampleable
  <2>5. QED BY <1>1, <2>1, <2>4
<1>6. BatchYoung' BY <1>1 DEF BatchYoung
<1>7. QED BY <1>3, <1>4, <1>5, <1>6 DEF AgeInv

(* The oldest are sampled: of those that reach the threshold a batch, or    *)
(* all.                                                                     *)
LEMMA SampleAges ==
    ASSUME QueueInv, AgeInv, SampleBatch PROVE AgeInv'
<1>1. PICK chosen \in OldestOf(Sampleable(listed)) :
             /\ Unsampled' = Unsampled \ chosen
             /\ \A p \in DOMAIN prompts' : /\ p \in DOMAIN prompts
                                           /\ prompts'[p].step = prompts[p].step
             /\ \A p \in DOMAIN batch' :
                   /\ p \in chosen /\ ~(strategy = "drop" /\ Exceeds(gs, prompts'[p].step))
                   /\ p \in DOMAIN prompts'
  BY SampleTakes DEF QueueInv
<1>2. pc = "select" /\ pc' = "fill" /\ UNCHANGED <<strategy, gs, toAdd>>
  BY DEF SampleBatch, Goto, Sample
<1>3. /\ chosen \subseteq Sampleable(listed) /\ Cardinality(chosen) = BatchSize
      /\ \A p \in chosen, q \in Sampleable(listed) \ chosen : listed[p].step <= listed[q].step
  BY DEF OldestOf
<1>4. /\ gs \in Nat /\ Warmup \in Nat /\ BatchSize \in Nat \ {0}
      /\ \A p \in DOMAIN listed : /\ p \in Unsampled /\ p \in Sampleable(listed)
                                  /\ listed[p].step = prompts[p].step
      /\ \A p \in DOMAIN prompts : prompts[p].step \in Nat
  BY Sizes, WithinType
  DEF QueueInv, SkipInv, SkipType, GroupInv, ListedInv, HeldInv, Unsampled, Sampleable
<1>5. chosen \subseteq Unsampled /\ chosen \subseteq DOMAIN prompts
  BY <1>3, <1>4 DEF Sampleable, Unsampled
<1>6. /\ IsFiniteSet(Unsampled) /\ Cardinality(Unsampled) \in Nat
      /\ \A s : IsFiniteSet(UpTo(s)) /\ Cardinality(UpTo(s)) \in Nat
  BY UnsampledFinite DEF QueueInv
<1>7. IsFiniteSet(chosen) BY <1>5, <1>6, FS_Subset
<1>8. ASSUME NEW S, IsFiniteSet(S), chosen \subseteq S, Cardinality(S) \in Nat
      PROVE  Cardinality(S \ chosen) = Cardinality(S) - BatchSize
  <2>1. S \cap chosen = chosen BY <1>8
  <2>2. Cardinality(S \ chosen) = Cardinality(S) - Cardinality(S \cap chosen)
    BY <1>7, <1>8, FS_Difference
  <2>3. QED BY <1>3, <2>1, <2>2
<1>9. FewUnsampled'
  <2>1. Cardinality(Unsampled) <= Room(Warmup + 1) BY <1>2 DEF AgeInv, FewUnsampled
  <2>2. Room(Warmup + 1) = Room(Warmup) + BatchSize /\ Room(Warmup) \in Int BY <1>4, RoomFacts
  <2>3. Cardinality(Unsampled') = Cardinality(Unsampled) - BatchSize BY <1>1, <1>5, <1>6, <1>8
  <2>4. Cardinality(Unsampled') <= Room(Warmup) BY <1>4, <1>6, <2>1, <2>2, <2>3
  <2>5. QED BY <1>2, <2>4 DEF FewUnsampled
<1>10. ASSUME strategy = "wait", NEW s \in Nat, Age(gs, s) >= Late
       PROVE  UpTo(s) \subseteq Sampleable(listed)
  <2> SUFFICES ASSUME NEW p \in UpTo(s) PROVE p \in DOMAIN listed
    BY <1>4
  <2>1. p \in Unsampled /\ prompts[p].step <= s /\ prompts[p].step \in Nat
    BY <1>4 DEF UpTo, Unsampled
  <2>2. Age(gs, prompts[p].step) >= Threshold * SyncStep
    BY <1>4, <1>10, <2>1, LateFacts DEF Age
  <2>3. QED BY <1>2, <1>10, <2>1, <2>2 DEF AgeInv, LateListed, Reaches
<1>11. \A s : UpTo(s)' = UpTo(s) \ chosen
  <2>1. \A p \in Unsampled' : p \in DOMAIN prompts' BY DEF Unsampled
  <2>2. QED BY <1>1, <2>1 DEF UpTo
<1>12. LateFew'
  <2> SUFFICES ASSUME strategy = "wait", NEW s \in Nat, Age(gs, s) >= Late
               PROVE  \/ UpTo(s)' = {}
                      \/ Cardinality(UpTo(s)') <= Room(Warmup + Late - Age(gs, s) - 1 + Turn')
    BY <1>2 DEF LateFew, Age
  <2>1. Turn = 1 /\ Turn' = 0 /\ pc \in BeforeSample BY <1>2 DEF Turn, BeforeSample
  <2>2. UpTo(s) = {} \/ Cardinality(UpTo(s)) <= Room(Warmup + Late - Age(gs, s) - 1 + 1)
    BY <2>1 DEF AgeInv, LateFew
  <2>3. CASE chosen \subseteq UpTo(s)
    <3>1. UpTo(s) # {} BY <1>3, <1>4, <2>3, FS_EmptySet
    <3>2. Cardinality(UpTo(s)') = Cardinality(UpTo(s)) - BatchSize BY <1>6, <1>8, <1>11, <2>3
    <3> DEFINE n == Warmup + Late - Age(gs, s) - 1
    <3>3. n \in Int /\ Late \in Int BY <1>4, LateFacts DEF Age
    <3>4. Cardinality(UpTo(s)) <= Room(n + 1) BY <2>2, <3>1
    <3>5. n + 0 = n BY <3>3
    <3> HIDE DEF n
    <3>6. Room(n + 1) = Room(n) + BatchSize /\ Room(n) \in Int BY <3>3, RoomFacts
    <3>7. Cardinality(UpTo(s)') <= Room(n) BY <1>4, <1>6, <3>2, <3>4, <3>6
    <3>8. QED BY <2>1, <3>5, <3>7 DEF n
  <2>4. CASE ~(chosen \subseteq UpTo(s))
    <3>1. PICK p \in chosen : p \notin UpTo(s) BY <2>4
    <3>2. p \in Unsampled /\ ~(prompts[p].step <= s) /\ listed[p].step = prompts[p].step
      BY <1>3, <1>4, <1>5, <3>1 DEF UpTo, Sampleable
    <3>3. ASSUME NEW q \in UpTo(s), q \notin chosen PROVE FALSE
      <4>1. q \in Sampleable(listed) BY <1>10, <3>3
      <4>2. listed[p].step <= listed[q].step BY <1>3, <3>3, <4>1
      <4>3. listed[q].step = prompts[q].step /\ prompts[q].step <= s
        BY <1>4, <3>3, <4>1 DEF UpTo, Sampleable
      <4>4. prompts[q].step \in Nat /\ prompts[p].step \in Nat
        BY <1>4, <3>2, <3>3 DEF UpTo, Unsampled
      <4>5. QED BY <3>2, <4>2, <4>3, <4>4
    <3>4. QED BY <1>11, <3>3
  <2>5. QED BY <2>3, <2>4
<1>13. LateListed' BY <1>2 DEF LateListed
<1>14. BatchYoung'
  <2> SUFFICES ASSUME NEW p \in DOMAIN batch'
               PROVE  Age(gs, prompts'[p].step) <=
                          IF strategy = "drop" THEN Threshold * SyncStep ELSE WaitBound
    BY <1>2 DEF BatchYoung, Age
  <2>1. /\ p \in Unsampled /\ p \in DOMAIN prompts /\ prompts[p].step \in Nat
        /\ prompts'[p].step = prompts[p].step
        /\ ~(strategy = "drop" /\ Exceeds(gs, prompts'[p].step))
    BY <1>1, <1>4, <1>5
  <2> DEFINE s == prompts[p].step
  <2>2. CASE strategy = "drop"
    <3>1. ~(Age(gs, s) > Threshold * SyncStep) BY <2>1, <2>2 DEF Exceeds
    <3>2. QED BY <1>4, <2>1, <2>2, <3>1, LateFacts DEF Age
  <2>3. CASE strategy # "drop" /\ ~(Age(gs, s) >= Late)
    BY <1>4, <2>1, <2>3, LateFacts DEF Age
  <2>4. CASE strategy # "drop" /\ Age(gs, s) >= Late
    <3>1. strategy = "wait" BY <2>4 DEF QueueInv, HeldInv
    <3>2. p \in UpTo(s) BY <2>1 DEF UpTo
    <3>3. Turn = 1 /\ pc \in BeforeSample BY <1>2 DEF Turn, BeforeSample
    <3> DEFINE n == Warmup + Late - Age(gs, s) - 1 + 1
    <3>4. Cardinality(UpTo(s)) <= Room(n)
      BY <2>1, <2>4, <3>1, <3>2, <3>3 DEF AgeInv, LateFew
    <3>5. Cardinality(UpTo(s)) # 0 BY <1>6, <3>2, FS_EmptySet
    <3>6. n \in Int BY <1>4, <2>1, LateFacts DEF Age
    <3>7. n > 0
      <4>1. Cardinality(UpTo(s)) \in Nat BY <1>6
      <4> HIDE DEF n, s
      <4>2. Room(n) \in Int /\ (n <= 0 => Room(n) <= 0) BY <3>6, RoomFacts
      <4>3. QED BY <3>4, <3>5, <3>6, <4>1, <4>2
    <3>8. QED BY <1>4, <2>1, <2>4, <3>7, LateFacts DEF Age
  <2>5. QED BY <2>2, <2>3, <2>4
<1>15. QED BY <1>9, <1>12, <1>13, <1>14 DEF AgeInv

(* The step ends: what is left is a step older.                             *)
LEMMA EndStepAges ==
    ASSUME QueueInv, AgeInv, EndStep PROVE AgeInv'
<1>1. /\ Unsampled' = Unsampled
      /\ \A p \in DOMAIN prompts' : p \in DOMAIN prompts /\ prompts'[p].step = prompts[p].step
  BY EndStepHeld DEF QueueInv
<1>2. /\ pc = "clear" /\ pc' \in {"add", "done"} /\ gs' = gs + 1 /\ toAdd' = 1
      /\ strategy' = strategy
  BY DEF EndStep, Begin, ClearBatch
<1>3. \A s : UpTo(s)' = UpTo(s) BY <1>1 DEF UpTo, Unsampled
<1>4. gs \in Nat /\ Warmup \in Nat BY Sizes DEF QueueInv, SkipInv, SkipType
<1>5. /\ IsFiniteSet(Unsampled) /\ Cardinality(Unsampled) \in Nat
      /\ \A s : IsFiniteSet(UpTo(s)) /\ Cardinality(UpTo(s)) \in Nat
                /\ Cardinality(UpTo(s)) <= Cardinality(Unsampled)
  BY UnsampledFinite DEF QueueInv
<1>6. Cardinality(Unsampled) <= Room(Warmup) BY <1>2 DEF AgeInv, FewUnsampled, AfterSample
<1>7. FewUnsampled'
  <2>1. Warmup + 1 - toAdd' = Warmup /\ toAdd' \in 1 .. Warmup + 1 BY <1>2, <1>4
  <2>2. pc' \notin AfterSample /\ pc' \notin {"sample", "select"} BY <1>2 DEF AfterSample, SavePCs
  <2>3. QED BY <1>1, <1>6, <2>1, <2>2 DEF FewUnsampled
<1>8. LateFew'
  <2> SUFFICES ASSUME strategy = "wait", pc' = "add", NEW s \in Nat, Age(gs + 1, s) >= Late
               PROVE  \/ UpTo(s)' = {}
                      \/ Cardinality(UpTo(s)') <= Room(Warmup + Late - Age(gs + 1, s) - 1 + Turn')
    BY <1>2 DEF LateFew, Age, BeforeSample, AfterSample, SavePCs
  <2>1. /\ Turn = 0 /\ Turn' = 1 /\ pc \in AfterSample /\ Late \in Nat
        /\ Age(gs + 1, s) = Age(gs, s) + 1 /\ Age(gs, s) \in Int
    BY <1>2, <1>4, LateFacts DEF Turn, BeforeSample, AfterSample, Age
  <2>2. CASE Age(gs, s) >= Late
    <3>1. UpTo(s) = {} \/ Cardinality(UpTo(s)) <= Room(Warmup + Late - Age(gs, s) - 1 + Turn)
      BY <2>1, <2>2 DEF AgeInv, LateFew
    <3>2. Warmup + Late - Age(gs, s) - 1 + Turn = Warmup + Late - Age(gs + 1, s) - 1 + Turn'
      BY <1>4, <2>1
    <3>3. QED BY <1>3, <3>1, <3>2
  <2>3. CASE ~(Age(gs, s) >= Late)
    <3>1. Warmup + Late - Age(gs + 1, s) - 1 + Turn' = Warmup BY <1>4, <2>1, <2>3
    <3>2. Room(Warmup) \in Int BY <1>4, RoomFacts
    <3>3. Cardinality(UpTo(s)) <= Room(Warmup) BY <1>5, <1>6, <3>2
    <3>4. QED BY <1>3, <3>1, <3>3
  <2>4. QED BY <2>2, <2>3
<1>9. LateListed' /\ BatchYoung' BY <1>2 DEF LateListed, BatchYoung
<1>10. QED BY <1>7, <1>8, <1>9 DEF AgeInv

LEMMA StepAges ==
    ASSUME QueueInv, AgeInv, [Next]_vars PROVE AgeInv'
<1> HeldInv /\ HeldInv' BY StepQueue DEF QueueInv
<1>1. CASE Crash
  <2>1. pc' \notin BeforeSample \cup AfterSample
    BY <1>1 DEF Crash, Goto, BeforeSample, AfterSample, SavePCs
  <2>2. QED
    BY <2>1
    DEF AgeInv, FewUnsampled, LateFew, LateListed, BatchYoung, BeforeSample, AfterSample
<1>2. CASE FillBatch \/ BalanceBatch \/ Train \/ Save \/ UNCHANGED vars
  <2>1. /\ UNCHANGED <<bufferVars, gs, toAdd>>
        /\ \/ pc' = pc
           \/ pc' \notin BeforeSample \cup AfterSample
           \/ pc \in {"fill", "balance"} /\ pc' \in {"balance", "train"}
           \/ pc \in SavePCs \cup {"train"} /\ pc' \in SavePCs \cup {"clear"}
    <3>1. CASE FillBatch
      BY <3>1 DEF FillBatch, Goto, BeforeSample, AfterSample, SavePCs
    <3>2. CASE BalanceBatch BY <3>2 DEF BalanceBatch
    <3>3. CASE Train BY <3>3 DEF Train, Goto, SavePCs
    <3>4. CASE Save BY <3>4 DEF Save, SaveStage, Goto, SavePCs
    <3>5. CASE UNCHANGED vars BY <3>5 DEF vars
    <3>6. QED BY <1>2, <3>1, <3>2, <3>3, <3>4, <3>5
  <2>2. Unsampled' = Unsampled BY <2>1 DEF Unsampled
  <2>3. QED BY <2>1, <2>2, QuietAges DEF AfterSample
<1>3. CASE \E p \in DOMAIN prompts : Loops(p) \/ Mishap(p)
  <2>1. PICK p \in DOMAIN prompts : AgentLoop(p) \/ SessionMishap(p)
    BY <1>3 DEF Loops, Mishap
  <2>2. UNCHANGED <<pc, gs, cursor, toAdd>> BY <1>3 DEF Loops, Mishap
  <2>3. UNCHANGED <<strategy, listed, batch>>
    BY <2>1 DEF AgentLoop, RunPrompt, SessionPuts, PromptFinished, PromptFails, SessionMishap, Set
  <2>4. /\ Unsampled' = Unsampled
        /\ \A q \in DOMAIN prompts' : q \in DOMAIN prompts /\ prompts'[q].step = prompts[q].step
    BY <2>1, <2>2, LoopHeld DEF QueueInv
  <2>5. QED BY <2>2, <2>3, <2>4, QuietAges
<1>4. QED
  BY <1>1, <1>2, <1>3, LoadAges, AddAges, PollAges, SampleAges, EndStepAges DEF Next, Trainer

LEMMA InitAges == Init => AgeInv
BY DEF Init, AgeInv, FewUnsampled, LateFew, LateListed, BatchYoung, BeforeSample, AfterSample,
       SavePCs

(* What a batch is trained on is no older than the threshold with the drop  *)
(* strategy, and with the wait strategy than the threshold and the warm-up  *)
(* batches (_has_enough_samples, _oldest_first of the replay buffer).       *)
THEOREM AgesBounded == Spec => []StalenessBounded
<1>1. Init => QueueInv /\ AgeInv BY InitQueue, InitAges
<1>2. QueueInv /\ AgeInv /\ [Next]_vars => QueueInv' /\ AgeInv' BY StepQueue, StepAges
<1>3. AgeInv => StalenessBounded BY DEF AgeInv, BatchYoung, StalenessBounded
<1>4. QED BY <1>1, <1>2, <1>3, PTL DEF Spec

-----------------------------------------------------------------------------
(* The types, from all of these.                                           *)

CountInv ==
    /\ crashes \in 0 .. MaxCrashes
    /\ gs \in 0 .. MaxStep + 1
    /\ toAdd \in 0 .. Warmup + 1
    /\ pc \in {"load", "stuck"} => gs = 0
    /\ pc \notin {"load", "stuck", "done"} => gs <= TotalSteps
    /\ pc = "add" => toAdd > 0

TypeInv == PromptInv /\ WeightsInv /\ QueueInv /\ RowsInv /\ CountInv

LEMMA InitCounts == Init => CountInv
<1>1. MaxStep \in Nat /\ TotalSteps \in Nat /\ Warmup \in Nat /\ MaxCrashes \in Nat
  BY V1Assumption, CheckpointAssumption
<1>2. QED BY <1>1 DEF Init, CountInv

LEMMA StepCounts ==
    ASSUME WeightsInv, CountInv, [Next]_vars PROVE CountInv'
<1> USE DEF CountInv
<1>0. TotalSteps \in Nat /\ TotalSteps <= MaxStep /\ Warmup \in Nat /\ MaxCrashes \in Nat
      /\ MaxStep \in Nat
  BY V1Assumption, CheckpointAssumption
<1>1. CASE Load
  <2>1. crashes' = crashes /\ pc = "load" BY <1>1 DEF Load
  <2>2. \/ pc' = "stuck" /\ UNCHANGED <<gs, toAdd>>
        \/ gs' = 1 /\ toAdd' = Warmup + 1 /\ pc' \in {"add", "done"}
           /\ (gs' > TotalSteps <=> pc' = "done")
        \/ tracker \in Steps /\ gs' = tracker + 1 /\ toAdd' = Warmup + 1
           /\ pc' \in {"add", "done"} /\ (gs' > TotalSteps <=> pc' = "done")
    BY <1>1 DEF Load, Begin, Goto, WeightsInv, StoreType
  <2>3. QED BY <1>0, <2>1, <2>2 DEF Steps
<1>2. CASE AddBatch BY <1>0, <1>2 DEF AddBatch
<1>3. CASE Poll \/ SampleBatch \/ FillBatch \/ BalanceBatch \/ Train \/ Save
  <2>1. /\ UNCHANGED <<gs, toAdd, crashes>>
        /\ pc \notin {"load", "stuck", "done"} /\ pc' \notin {"load", "stuck", "done", "add"}
    BY <1>3 DEF Poll, SampleBatch, FillBatch, BalanceBatch, Train, Save, SaveStage, Goto
  <2>2. QED BY <2>1
<1>4. CASE EndStep BY <1>0, <1>4 DEF EndStep, Begin
<1>5. CASE Crash BY <1>0, <1>5 DEF Crash, Goto
<1>6. CASE UNCHANGED vars \/ \E p \in DOMAIN prompts : Loops(p) \/ Mishap(p)
  <2>1. UNCHANGED <<gs, toAdd, crashes, pc>> BY <1>6 DEF vars, Loops, Mishap
  <2>2. QED BY <2>1
<1>7. QED BY <1>1, <1>2, <1>3, <1>4, <1>5, <1>6 DEF Next, Trainer

LEMMA BufferTyped == ASSUME QueueInv PROVE BufferTypeOK
<1> DEFINE Held == [step : Nat,
                    status : {"pending", "running", "finished", "failure", "sampled"},
                    going : 0 .. Sessions, stored : 0 .. Sessions,
                    raised : BOOLEAN, empty : 0 .. Sessions]
<1>1. ASSUME NEW p \in DOMAIN prompts PROVE prompts[p] \in Held
  <2>1. prompts[p] \in Entry /\ Within(prompts[p])
    BY DEF QueueInv, GroupInv, HeldInv, Entries
  <2> DEFINE e == prompts[p]
  <2>2. e \in Entry /\ Within(e) BY <2>1
  <2> HIDE DEF e
  <2>3. /\ e.step \in Nat /\ e.going \in 0 .. Sessions /\ e.stored \in 0 .. Sessions
        /\ e.empty \in 0 .. Sessions
    BY <2>2 DEF Within
  <2>4. /\ e = [step |-> e.step, status |-> e.status, going |-> e.going, stored |-> e.stored,
                raised |-> e.raised, empty |-> e.empty]
        /\ e.status \in Statuses /\ e.raised \in BOOLEAN
    BY <2>2 DEF Entry
  <2>5. e \in Held BY <2>3, <2>4 DEF Statuses
  <2>6. QED BY <2>5 DEF e
<1>2. ASSUME NEW p \in DOMAIN batch PROVE batch[p] \in 1 .. Sessions
  <2>1. p \in DOMAIN prompts /\ batch[p] \in 1 .. prompts[p].stored BY DEF QueueInv, HeldInv
  <2>2. prompts[p].stored \in 0 .. Sessions BY <1>1, <2>1
  <2>3. QED BY <2>1, <2>2, Sizes
<1>3. DOMAIN listed \subseteq DOMAIN prompts BY DEF QueueInv, GroupInv, ListedInv
<1> HIDE DEF Held
<1>4. \A p \in DOMAIN prompts : prompts[p] \in Held BY <1>1
<1>5. QED BY <1>2, <1>3, <1>4 DEF BufferTypeOK, QueueInv, HeldInv, Held

LEMMA FilesTyped == ASSUME StoreType PROVE CheckpointTypeOK
<1>1. FolderSet \subseteq [state : {"absent", "torn", "whole"}, weights : SUBSET Nat]
  <2>1. SUBSET (Nat \ {0}) \subseteq SUBSET Nat OBVIOUS
  <2>2. QED BY <2>1 DEF FolderSet
<1>2. /\ DOMAIN saved = Parts /\ \A p \in Parts : DOMAIN saved[p] = Steps
      /\ \A p \in Parts, s \in Steps : saved[p][s] \in FolderSet
  BY DEF StoreType
<1>3. QED BY <1>1, <1>2 DEF StoreType, CheckpointTypeOK

LEMMA RowsTyped ==
    ASSUME RowType, NEW n \in Nat, \A i \in DOMAIN rows : rows[i].prompt <= n
    PROVE  rows \in Seq([prompt : 0 .. n, length : Nat])
<1> DEFINE R == [prompt : 0 .. n, length : Nat]
<1>1. rows \in Seq(Row) BY DEF RowType, Row
<1>2. Len(rows) \in Nat /\ rows \in [1 .. Len(rows) -> Row] BY <1>1
<1>3. ASSUME NEW i \in 1 .. Len(rows) PROVE rows[i] \in R
  <2>1. rows[i] \in Row /\ rows[i].prompt <= n BY <1>2
  <2>2. QED BY <2>1 DEF Row
<1> HIDE DEF R
<1>4. rows \in [1 .. Len(rows) -> R] BY <1>2, <1>3
<1>5. rows \in Seq(R) BY <1>2, <1>4
<1>6. QED BY <1>5 DEF R

LEMMA Typed == ASSUME TypeInv PROVE TypeOK
<1>1. BufferTypeOK /\ CheckpointTypeOK
  BY BufferTyped, FilesTyped DEF TypeInv, WeightsInv
<1>2. /\ pc \in PCs /\ cursor \in Nat /\ trained \subseteq 1 .. cursor
  BY DEF TypeInv, PromptInv, LoopType, Drawn
<1>3. rows \in Seq([prompt : 0 .. cursor, length : Nat])
  BY <1>2, RowsTyped DEF TypeInv, RowsInv
<1>4. QED BY <1>1, <1>2, <1>3 DEF TypeInv, CountInv, TypeOK, PCs

LEMMA StepTyped == ASSUME TypeInv, [Next]_vars PROVE TypeInv'
BY StepWeights, StepQueue, StepRows, StepCounts DEF TypeInv

\* The state of the V1 trainer is of its type.
THEOREM TypesHold == Spec => []TypeOK
<1>1. Init => TypeInv
  BY InitPrompts, InitWeights, InitQueue, InitRows, InitCounts DEF TypeInv
<1>2. TypeInv /\ [Next]_vars => TypeInv' BY StepTyped
<1>3. TypeInv => TypeOK BY Typed
<1>4. QED BY <1>1, <1>2, <1>3, PTL DEF Spec
=============================================================================
