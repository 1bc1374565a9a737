------------------------------ MODULE Session ------------------------------
(***************************************************************************)
(* What hypura keeps on disk between its commands, and the commands that   *)
(* read and write it, one at a time: profile, run (single prompt or        *)
(* interactive) and optimize, each of which may be killed at any step,     *)
(* with what it has written so far left on disk.  (Not modelled: a power   *)
(* cut, which may undo finished writes as well; nothing here syncs.)       *)
(*                                                                         *)
(* On disk: the hardware profile; model files, where file f + 1 is the     *)
(* "<stem>.optimized" copy of file f; the permutations.json next to a      *)
(* model; the co-activation counts of a model under ~/.hypura.  All are    *)
(* written in place.  A kill in the middle of std::fs::write or copy       *)
(* leaves a torn file, which its reader refuses; in the middle of the      *)
(* rewrite of a tensor it leaves that tensor part old, part new, in a file *)
(* that loads.  A run streams experts (expert-streaming mode); its *)
(* generation is KvCache, and every decode that succeeds walks the graph   *)
(* and adds to the counts in memory.                                       *)
(***************************************************************************)
EXTENDS KvCache, CoActivation, Lists

CONSTANTS
  Files,         \* model files; 0 is the one the user downloaded
  Fused,         \* the fused expert tensors <<layer, tensor>>, in file order
  Routings,      \* bound: what the routers of the layers may pick together
  NodesBefore,   \* graph nodes of a layer up to its router ...
  NodesAfter,    \* ... and after it
  MaxRuns        \* bound: generations

Tensors == ToSet(Fused)
Natural == [e \in Experts |-> e]

\* What a position holds whose rewrite was cut short: the head of one expert,
\* the tail of another.
Cut == NumExperts

ASSUME SessionAssumption ==
  /\ Files \subseteq Nat /\ 0 \in Files
  /\ Fused \in Seq(Layers \X Nat) /\ IsInjective(Fused)
  /\ Routings \subseteq [Layers -> (SUBSET Experts) \ {{}}]
  /\ {NodesBefore, NodesAfter, MaxRuns} \subseteq Nat

VARIABLES
  profile,   \* hardware_profile.json
  data,      \* of each model file: which expert each tensor has where
  sidecar,   \* permutations.json of each file: old expert by new position
  counts,    \* persisted co-activation matrix of each file
  optimized, \* history: files a complete optimize has made from the file before
  cutSaves,  \* history: files whose last save of counts was killed
  cmd, step, file,  \* the command at work
  order, next,      \* optimize: permutations; tensors reordered so far ...
  reordered,        \* ... and the next one, reordered in memory
  memory,    \* run: PrefetchState's matrix, selections and previous layer
  where,     \* run: expert_permutation, physical position by expert
  runs       \* generations started

diskVars == <<profile, data, sidecar, counts, optimized, cutSaves>>
orderVars == <<order, next, reordered>>
jobVars == <<cmd, step, file, orderVars>>
runVars == <<memory, where, runs>>
vars == <<kvVars, diskVars, jobVars, runVars>>

\* A file, its content if it is whole.  (Of counts, a torn file keeps, as history,
\* what the write was to replace.)
Absent(c) == [is |-> "absent", of |-> c]
Torn(c) == [is |-> "torn", of |-> c]
Whole(c) == [is |-> "whole", of |-> c]

InOrder == [t \in Tensors |-> Natural]
NoOrder == [l \in Layers |-> Natural]
Idle == [co |-> NewMatrix, selected |-> [l \in Layers |-> {}], prev |-> <<>>]

Init ==
  /\ KvInit
  /\ profile = "absent"
  /\ data = [f \in Files |-> IF f = 0 THEN Whole(InOrder) ELSE Absent(InOrder)]
  /\ sidecar = [f \in Files |-> Absent(NoOrder)]
  /\ counts = [f \in Files |-> Absent(NewMatrix)]
  /\ optimized = {} /\ cutSaves = {}
  /\ cmd = "none" /\ step = "none" /\ file = 0
  /\ order = NoOrder /\ next = 0 /\ reordered = Natural
  /\ memory = Idle /\ where = NoOrder /\ runs = 0

\* The command ends, in whatever way; what it held in memory is gone.
Exit ==
  /\ cmd' = "none" /\ step' = "none" /\ file' = 0
  /\ order' = NoOrder /\ next' = 0 /\ reordered' = Natural
  /\ memory' = Idle /\ where' = NoOrder

-----------------------------------------------------------------------------
(* The profile. *)

\* hypura profile: a fresh profile is only shown, unless forced; one that cannot
\* be read is replaced like a stale one.
Profile ==
  /\ cmd = "none"
  /\ \E force \in BOOLEAN : force \/ profile # "fresh"
  /\ cmd' = "profile" /\ step' = "profile"
  /\ UNCHANGED <<kvVars, diskVars, runVars, file, orderVars>>

\* save_profile, in a run or on its own.
BeginProfile ==
  /\ step = "profile"
  /\ profile' = "torn" /\ step' = "saving profile"
  /\ UNCHANGED <<kvVars, data, sidecar, counts, optimized, cutSaves, runVars, cmd, file, orderVars>>

EndProfile ==
  /\ step = "saving profile"
  /\ profile' = "fresh"
  /\ IF cmd = "run"
     THEN step' = "load" /\ UNCHANGED <<cmd, file, orderVars, memory, where>>
     ELSE Exit
  /\ UNCHANGED <<kvVars, data, sidecar, counts, optimized, cutSaves, runs>>

\* More than thirty days pass.
Age ==
  /\ cmd = "none" /\ profile = "fresh"
  /\ profile' = "stale"
  /\ UNCHANGED <<kvVars, data, sidecar, counts, optimized, cutSaves, jobVars, runVars>>

-----------------------------------------------------------------------------
(* hypura run *)

\* Mutant: any cached profile will do.
RunOnAnyProfile(f) ==
  /\ cmd = "none" /\ runs < MaxRuns
  /\ data[f].is # "absent" /\ profile # "torn"
  /\ cmd' = "run" /\ file' = f
  /\ step' = IF profile # "absent" THEN "load" ELSE "profile"
  /\ UNCHANGED <<kvVars, diskVars, runVars, orderVars>>

\* A profile that cannot be read ends the command at once; without a profile, or
\* with a stale one, it profiles first.
Run(f) ==
  /\ cmd = "none" /\ runs < MaxRuns
  /\ data[f].is # "absent" /\ profile # "torn"
  /\ cmd' = "run" /\ file' = f
  /\ step' = IF profile = "fresh" THEN "load" ELSE "profile"
  /\ UNCHANGED <<kvVars, diskVars, runVars, orderVars>>

\* Mutant: the sidecar is used as it is.
LoadedForward(f) == IF sidecar[f].is = "whole" THEN sidecar[f].of ELSE NoOrder

\* build_prefetch_state: the sidecar, inverted; natural order without one that
\* can be read.
LoadedOrder(f) ==
  IF sidecar[f].is = "whole"
  THEN [l \in Layers |-> Inverse(sidecar[f].of[l], Experts, Experts)] ELSE NoOrder

\* Mutant: every generation starts counting anew.
NothingLoaded(f) == NewMatrix

\* build_prefetch_state: the counts of the model's earlier generations; new ones
\* without a file that can be read.
LoadedCounts(f) == IF counts[f].is = "whole" THEN counts[f].of ELSE NewMatrix

\* generate_with_nvme_scheduling up to the first decode, for every prompt.
Load ==
  /\ step = "load" /\ data[file].is = "whole" /\ runs < MaxRuns
  /\ step' = "generate" /\ runs' = runs + 1
  /\ where' = LoadedOrder(file)
  /\ memory' = LET co == LoadedCounts(file)
               IN [co |-> co, selected |-> [l \in Layers |-> WarmSelection(co, l)], prev |-> <<>>]
  /\ \E n \in Prompts : KvStart(n)
  /\ UNCHANGED <<diskVars, cmd, file, orderVars>>

\* llama.cpp refuses a file that is too short.
LoadFails ==
  /\ step = "load" /\ data[file].is = "torn"
  /\ Exit
  /\ UNCHANGED <<kvVars, diskVars, runs>>

\* eval_callback after a node of a layer that has a selection: record it, record
\* it as what follows the previous record.
AfterNode(m, l) ==
  LET ids == m.selected[l]
      co == Record(m.co, l, ids)
  IN IF ids = {} THEN m
     ELSE [m EXCEPT !.prev = <<l, ids>>,
                    !.co = IF m.prev = <<>> THEN co ELSE RecordCross(co, m.prev[1], m.prev[2], ids)]

AfterNodes(m, l, n) ==
  LET after[i \in 0 .. n] == IF i = 0 THEN m ELSE AfterNode(after[i - 1], l)
  IN after[n]

\* The nodes of a layer: some, the router, some more.
WalkLayer(m, l, routing) ==
  LET before == AfterNodes(m, l, NodesBefore)
  IN AfterNodes([before EXCEPT !.selected[l] = routing[l]], l, NodesAfter)

Walk(m, routing) ==
  LET walked[i \in 0 .. Cardinality(Layers)] ==
        IF i = 0 THEN m ELSE WalkLayer(walked[i - 1], Ascending(Layers)[i], routing)
  IN walked[Cardinality(Layers)]

\* The decodes of the generation.
Decode ==
  /\ step = "generate"
  /\ DecodeChunk \/ DecodeToken
  /\ \E routing \in Routings : memory' = Walk(memory, routing)
  /\ UNCHANGED <<diskVars, jobVars, where, runs>>

\* What the generation does between decodes.
Generate ==
  /\ step = "generate"
  /\ Sample \/ NoRoom \/ Stop
  /\ UNCHANGED <<diskVars, jobVars, runVars>>

\* PrefetchState::drop: counts worth keeping are saved ...
BeginSave ==
  /\ step = "generate" /\ phase = "ended" /\ HasData(memory.co)
  /\ counts' = [counts EXCEPT ![file].is = "torn"]
  /\ step' = "saving counts"
  /\ UNCHANGED <<kvVars, profile, data, sidecar, optimized, cutSaves, cmd, file, orderVars, runVars>>

Dropped ==
  /\ KvFree
  /\ step' = "prompt"
  /\ memory' = Idle /\ where' = NoOrder
  /\ UNCHANGED <<profile, data, sidecar, optimized, cmd, file, orderVars, runs>>

EndSave ==
  /\ step = "saving counts"
  /\ counts' = [counts EXCEPT ![file] = Whole(memory.co)]
  /\ cutSaves' = cutSaves \ {file}
  /\ Dropped

\* ... and few are not.
NoSave ==
  /\ step = "generate" /\ phase = "ended" /\ ~HasData(memory.co)
  /\ UNCHANGED <<counts, cutSaves>>
  /\ Dropped

\* The error of a full cache ends the command: the state the callback holds is
\* never dropped.
Full ==
  /\ step = "generate" /\ phase = "full"
  /\ KvFree /\ Exit
  /\ UNCHANGED <<diskVars, runs>>

\* run_interactive: every further line loads everything again.
NextLine ==
  /\ step = "prompt" /\ runs < MaxRuns
  /\ step' = "load"
  /\ UNCHANGED <<kvVars, diskVars, cmd, file, orderVars, runVars>>

Quit ==
  /\ step = "prompt"
  /\ Exit
  /\ UNCHANGED <<kvVars, diskVars, runs>>

-----------------------------------------------------------------------------
(* hypura optimize *)

\* The order is computed first, then the model is copied over any earlier copy.
Optimize(f) ==
  /\ cmd = "none" /\ f + 1 \in Files
  /\ data[f].is = "whole" /\ counts[f].is = "whole" /\ HasData(counts[f].of)
  /\ cmd' = "optimize" /\ file' = f /\ step' = "copying"
  /\ order' = [l \in Layers |->
                 LET o == ExpertOrder(counts[f].of, l) IN [i \in Experts |-> o[i + 1]]]
  /\ next' = 0
  /\ data' = [data EXCEPT ![f + 1] = Torn(InOrder)]
  /\ optimized' = optimized \ {f + 1}
  /\ UNCHANGED <<kvVars, profile, sidecar, counts, cutSaves, reordered, runVars>>

Copied ==
  /\ step = "copying"
  /\ data' = [data EXCEPT ![file + 1] = data[file]]
  /\ step' = "reorder"
  /\ UNCHANGED <<kvVars, profile, sidecar, counts, optimized, cutSaves, cmd, file, orderVars, runVars>>

\* One fused tensor after the other is read, reordered in memory
\* (perm[new_pos] = old_expert) and written over itself from its start: so far up
\* to position k, which has the new expert or part of it and of the old one.
BeginReorder ==
  /\ step = "reorder" /\ next < Len(Fused)
  /\ LET t == Fused[next + 1]
         old == data[file + 1].of[t]
     IN /\ reordered' = [i \in Experts |-> old[order[t[1]][i]]]
        /\ \E k \in Experts : \E at \in {reordered'[k], Cut} :
             data' = [data EXCEPT ![file + 1].of[t] =
                        [i \in Experts |-> IF i < k THEN reordered'[i] ELSE IF i = k THEN at ELSE old[i]]]
  /\ step' = "writing tensor"
  /\ UNCHANGED <<kvVars, profile, sidecar, counts, optimized, cutSaves, cmd, file, order, next, runVars>>

\* Mutant: write instead of write_all, what it did not take is not written.
EndReorderShort ==
  /\ step = "writing tensor"
  /\ next' = next + 1 /\ reordered' = Natural
  /\ step' = "reorder"
  /\ UNCHANGED <<kvVars, diskVars, cmd, file, order, runVars>>

EndReorder ==
  /\ step = "writing tensor"
  /\ data' = [data EXCEPT ![file + 1].of[Fused[next + 1]] = reordered]
  /\ next' = next + 1 /\ reordered' = Natural
  /\ step' = "reorder"
  /\ UNCHANGED <<kvVars, profile, sidecar, counts, optimized, cutSaves, cmd, file, order, runVars>>

BeginSidecar ==
  /\ step = "reorder" /\ next = Len(Fused)
  /\ sidecar' = [sidecar EXCEPT ![file + 1] = Torn(NoOrder)]
  /\ step' = "saving order"
  /\ UNCHANGED <<kvVars, profile, data, counts, optimized, cutSaves, cmd, file, orderVars, runVars>>

EndSidecar ==
  /\ step = "saving order"
  /\ sidecar' = [sidecar EXCEPT ![file + 1] = Whole(order)]
  /\ optimized' = optimized \cup {file + 1}
  /\ Exit
  /\ UNCHANGED <<kvVars, profile, data, counts, cutSaves, runs>>

-----------------------------------------------------------------------------
\* Ctrl-C, a panic, an abort: what is written stays written.
Kill ==
  /\ cmd # "none"
  /\ cutSaves' = IF step = "saving counts" THEN cutSaves \cup {file} ELSE cutSaves
  /\ KvFree /\ Exit
  /\ UNCHANGED <<profile, data, sidecar, counts, optimized, runs>>

Next ==
  \/ Profile \/ BeginProfile \/ EndProfile \/ Age
  \/ \E f \in Files : Run(f) \/ Optimize(f)
  \/ Load \/ LoadFails \/ Decode \/ Generate
  \/ BeginSave \/ EndSave \/ NoSave \/ Full \/ NextLine \/ Quit
  \/ Copied \/ BeginReorder \/ EndReorder \/ BeginSidecar \/ EndSidecar
  \/ Kill

Spec == Init /\ [][Next]_vars

-----------------------------------------------------------------------------
(* Properties *)

\* expert_layout.rs:21-24, "maps logical expert ID to physical position in the
\* file": true of the downloaded model and of one a complete optimize has made,
\* whatever was optimized, killed and counted before.
ExpertsFound ==
  step = "generate" /\ file \in optimized \cup {0} =>
    \A t \in Tensors, e \in Experts : data[file].of[t][where[t[1]][e]] = e

Lost(f) == {t \in Tensors : {data[f].of[t][i] : i \in Experts} # Experts}

\* "Same bytes, different order": the downloaded model and a file a complete
\* optimize has made have every expert in every tensor.  A file that loads without
\* being either, left by a killed optimize, lacks experts in one tensor at most,
\* the one that was being written.
NoExpertLost ==
  \A f \in Files : data[f].is = "whole" =>
    IF f \in optimized \cup {0} THEN Lost(f) = {} ELSE \A t, u \in Lost(f) : t = u

\* The saved counts of a file include all those saved for it before, over any
\* number of commands, kills and unreadable files, unless a save of them itself
\* was killed: that loses the history, because it is overwritten in place.
KeepsHistory == [][\A f \in Files \ cutSaves : Extends(counts'[f].of, counts[f].of)]_vars

\* coactivation.rs:13: the counts stay symmetric, in memory and on disk.
SymmetricCounts == Consistent(memory.co) /\ \A f \in Files : Consistent(counts[f].of)

\* No generation is planned with a profile that is old or half written.
PlannedOnFreshProfile == step \in {"load", "generate"} => profile = "fresh"
=============================================================================
