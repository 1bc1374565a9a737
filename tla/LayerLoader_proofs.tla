-------------------------- MODULE LayerLoader_proofs --------------------------
(***************************************************************************)
(* LayerLoader for every number of layers, chunks, workers, nodes and      *)
(* passes: the invariants of layer streaming, that a release is quiet, and *)
(* that the loader implements LayerStore.                                  *)
(*                                                                         *)
(* The argument follows one chunk from the channel to a worker's hands: at *)
(* most one live task per chunk, a counter that counts the chunks not yet  *)
(* counted, a status that is Loading exactly while a load is under way.    *)
(***************************************************************************)
EXTENDS LayerLoader, Lists_proofs

Tasks == [load: Loads, layer: Layers, update_status: BOOLEAN,
          writes: SUBSET (Cells \X Data)]

(* The task that reads chunk i of layer l. *)
PartTask(l, i) == Task(l, l, TRUE, {<< <<l, i>>, <<l, i>> >>})

Parts(l) == 1..NumParts[l]

PoolTyped ==
  /\ chan \in Seq(Tasks)
  /\ worker \in [Workers ->
       [pc: {"idle", "reading", "counting", "publishing", "exited"},
        task: Tasks \cup {NoTask}]]

(* Where the chunks of layer l are between submit_layer_load and the last  *)
(* step of the worker that read them.                                      *)
Waiting(l) == {i \in Parts(l) : \E k \in 1..Len(chan) : chan[k] = PartTask(l, i)}
With(l, stage) ==
  {i \in Parts(l) : \E w \in Workers : worker[w].pc = stage /\ worker[w].task = PartTask(l, i)}
Live == {"reading", "counting", "publishing"}
Outstanding(l) == Waiting(l) \cup With(l, "reading") \cup With(l, "counting")

(* The compute thread has set Loading and is about to send the tasks. *)
Submitting(l) ==
  \/ pc = "submit" /\ layer = l
  \/ pc = "prefetch_submit" /\ Head(todo) = l

LoaderTyped ==
  /\ layer_status \in [Layers -> LayerStatus]
  /\ parked \in BOOLEAN
  /\ pool_open \in BOOLEAN
  /\ remaining \in [Loads -> Nat]
  /\ mem \in [Cells -> Data \cup {Empty}]
  /\ residency \in Residencies
  /\ pc \in PCs
  /\ layer \in Layers
  /\ node \in 1..NodesPerLayer
  /\ current_layer \in Layers \cup {-1}
  /\ prev \in Layers \cup {-1}
  /\ todo \in Seq(Layers)
  /\ ret \in {"preload_wait", "boundary", "ask", "advance"}
  /\ passes \in 0..MaxPasses

(* Every live task reads one chunk of one layer, and no other one does. *)
TasksAreParts ==
  /\ \A k \in 1..Len(chan) : \E l \in Layers : \E i \in Parts(l) : chan[k] = PartTask(l, i)
  /\ \A w \in Workers :
       IF worker[w].pc \in {"idle", "exited"}
         THEN worker[w].task = NoTask
         ELSE \E l \in Layers : \E i \in Parts(l) : worker[w].task = PartTask(l, i)

OneTaskPerPart ==
  /\ \A j, k \in 1..Len(chan) : chan[j] = chan[k] => j = k
  /\ \A w \in Workers, k \in 1..Len(chan) : worker[w].task # chan[k]
  /\ \A v, w \in Workers :
       worker[v].task = worker[w].task /\ worker[w].task # NoTask => v = w

(* The counter of a load, and the worker that saw it reach zero. *)
Counted ==
  \A l \in Layers : remaining[l] = Cardinality(Outstanding(l))

LastPublishes ==
  \A l \in Layers : \A i \in With(l, "publishing") :
    Outstanding(l) = {} /\ With(l, "publishing") = {i}

Chunks == PoolTyped /\ TasksAreParts /\ OneTaskPerPart /\ Counted /\ LastPublishes

(* Loading is the time from the decision to load to the publication. *)
Underway(l) == Outstanding(l) \cup With(l, "publishing") # {}

LoadingIsLive ==
  \A l \in Layers :
    /\ Underway(l) => layer_status[l] = "Loading" /\ ~Submitting(l)
    /\ layer_status[l] = "Loading" => Underway(l) \/ Submitting(l)
    /\ Submitting(l) => layer_status[l] = "Loading"

PoolState ==
  /\ pool_open <=> pc \notin {"join", "done"}
  /\ \A w \in Workers : worker[w].pc = "exited" => chan = <<>> /\ ~pool_open
  /\ pc = "done" => AllExited

(* What the compute thread knows at each of its steps. *)
Flow ==
  /\ pc = "prefetch_submit" => todo # <<>>
  /\ pc \in {"submit", "await", "post", "release", "unload"} => CallbackOn(layer)
  /\ pc \in {"prefetch", "prefetch_submit"} /\ ret = "advance" => CallbackOn(layer)
  /\ pc \in {"prefetch", "prefetch_submit"} /\ ret = "ask" => node = 1
  /\ pc \in {"release", "unload"} =>
       prev \in Layers /\ prev < layer /\ NumParts[prev] > 0 /\ layer_status[prev] = "Loaded"
  /\ Inside => layer_status[layer] = "Loaded"
  /\ residency # "streaming" => current_layer = -1
  /\ current_layer # -1 => layer_status[current_layer] = "Loaded" /\ NumParts[current_layer] > 0
  /\ pc \in {"release", "unload"} => current_layer = layer

Preloading ==
  /\ pc = "preload_wait" => ret = "preload_wait"
  /\ ret = "preload_wait" =>
       /\ residency = "preloaded" /\ passes = 0
       /\ pc \in {"prefetch", "prefetch_submit", "preload_wait"}
  /\ pc = "preload_wait" =>
       \A l \in RamLayers : layer_status[l] = "Loaded" \/ \E k \in 1..Len(todo) : todo[k] = l
  /\ residency = "preloaded" /\ ret # "preload_wait" =>
       \A l \in RamLayers : layer_status[l] = "Loaded"

IInv == LoaderTyped /\ Chunks /\ LoadingIsLive /\ PoolState /\ Flow /\ Preloading

(* The chunk a step is about, among those of layer m. *)
Only(m, l, i) == IF m = l THEN {i} ELSE {}

(* What is in memory, when no read fails. *)
InMemory(l, i) == mem[<<l, i>>] = <<l, i>>
MemInv ==
  \A l \in Layers : \A i \in Parts(l) :
    /\ layer_status[l] = "Loading" /\ ~Submitting(l) =>
         InMemory(l, i) \/ i \in Waiting(l) \cup With(l, "reading")
    /\ layer_status[l] = "Loaded" /\ ~(pc = "unload" /\ prev = l /\ l \in NvmeLayers)
         => InMemory(l, i)
-----------------------------------------------------------------------------
(* The sequences of layers the compute thread goes through. *)

(* Some order of a finite set lists all of it and nothing else. *)
LEMMA SetToSeqLists ==
  ASSUME NEW S, IsFiniteSet(S)
  PROVE  /\ SetToSeq(S) \in Seq(S)
         /\ \A x \in S : \E k \in 1..Len(SetToSeq(S)) : SetToSeq(S)[k] = x
<1> DEFINE n == Cardinality(S)
           q == SetToSeq(S)
<1>1. n \in Nat /\ Bijection(1..n, S) # {}
  BY FS_CardinalityType DEF ExistsBijection
<1>2. \E f \in [1..n -> S] : IsInjective(f)
  BY <1>1, Zenon DEF Bijection, Injection
<1>3. q \in [1..n -> S] /\ IsInjective(q)
  BY <1>2, Zenon DEF SetToSeq
<1>4. IsFiniteSet(1..n) /\ Cardinality(1..n) = n
  BY <1>1, FS_Interval
<1> HIDE DEF q, n
<1>5. q \in Injection(1..n, S)
  BY <1>3 DEF Injection
<1>6. q \in Surjection(1..n, S)
  BY <1>4, <1>5, FS_Injection DEF n
<1>7. \A x \in S : \E k \in 1..n : q[k] = x
  BY <1>6, Zenon DEF Surjection
<1>8. q \in Seq(S) /\ Len(q) = n
  BY <1>1, <1>3
<1> QED
  BY <1>7, <1>8 DEF q

-----------------------------------------------------------------------------
(* The tasks of submit_layer_load. *)

(* A task tells its layer and its chunk. *)
LEMMA PartTaskFacts ==
  /\ \A l \in Layers : \A i \in Parts(l) :
       /\ PartTask(l, i) \in Tasks
       /\ PartTask(l, i) # NoTask
       /\ PartTask(l, i).load = l
       /\ PartTask(l, i).layer = l
       /\ PartTask(l, i).update_status = TRUE
       /\ PartTask(l, i).writes = {<< <<l, i>>, <<l, i>> >>}
  /\ \A l, m \in Layers : \A i \in Parts(l), j \in Parts(m) :
       PartTask(l, i) = PartTask(m, j) => l = m /\ i = j
<1>1. ASSUME NEW l \in Layers, NEW i \in Parts(l)
      PROVE  /\ PartTask(l, i) \in Tasks
             /\ PartTask(l, i) # NoTask
             /\ PartTask(l, i).load = l
             /\ PartTask(l, i).layer = l
             /\ PartTask(l, i).update_status = TRUE
             /\ PartTask(l, i).writes = {<< <<l, i>>, <<l, i>> >>}
  <2>1. <<l, i>> \in Cells /\ <<l, i>> \in Data /\ l \in Loads
    BY <1>1, LoaderAssumption DEF Parts, PartsOf
  <2> DEFINE W == {<< <<l, i>>, <<l, i>> >>}
  <2>2. W \in SUBSET (Cells \X Data)
    BY <2>1
  <2> HIDE DEF W
  <2>3. Task(l, l, TRUE, W) \in Tasks
    BY <2>1, <2>2 DEF Task, Tasks
  <2>4. NoTask \notin Tasks
    BY LoaderAssumption DEF Tasks
  <2>5. /\ Task(l, l, TRUE, W).load = l
        /\ Task(l, l, TRUE, W).layer = l
        /\ Task(l, l, TRUE, W).update_status = TRUE
        /\ Task(l, l, TRUE, W).writes = W
    BY DEF Task
  <2> QED
    BY <2>3, <2>4, <2>5 DEF PartTask, W
<1>2. ASSUME NEW l \in Layers, NEW m \in Layers, NEW i \in Parts(l), NEW j \in Parts(m),
             PartTask(l, i) = PartTask(m, j)
      PROVE  l = m /\ i = j
  <2> DEFINE a == <<l, i>>
             b == <<m, j>>
  <2>1. {<<a, a>>} = {<<b, b>>}
    <3>1. PartTask(l, i).writes = {<<a, a>>}
      BY <1>1
    <3>2. PartTask(m, j).writes = {<<b, b>>}
      BY <1>1
    <3> QED
      BY <1>2, <3>1, <3>2, Zenon
  <2>2. <<a, a>> = <<b, b>>
    BY <2>1, Zenon
  <2>3. a = b
    <3> HIDE DEF a, b
    <3> QED
      BY <2>2
  <2> QED
    BY <2>3
<1> QED
  BY <1>1, <1>2

(* The part of the type invariant that is the I/O pool's. *)
LEMMA PoolIsTyped == TypeOK => PoolTyped
BY DEF TypeOK, PoolTyped, Tasks

-----------------------------------------------------------------------------
(* What the steps of a worker do to the chunks. *)

(* Pread and Exit write the pc of one worker and leave its task. *)
LEMMA StageWritten ==
  ASSUME PoolTyped, NEW w \in Workers, NEW s,
         worker' = [worker EXCEPT ![w].pc = s]
  PROVE  /\ worker'[w].pc = s /\ worker'[w].task = worker[w].task
         /\ \A v \in Workers : v # w => worker'[v] = worker[v]
         /\ s \in {"idle", "reading", "counting", "publishing", "exited"}
              => worker' \in [Workers ->
                   [pc: {"idle", "reading", "counting", "publishing", "exited"},
                    task: Tasks \cup {NoTask}]]
<1> DEFINE r == worker[w]
           q == [r EXCEPT !.pc = s]
<1>1. r \in [pc: {"idle", "reading", "counting", "publishing", "exited"},
             task: Tasks \cup {NoTask}]
  BY DEF PoolTyped
<1>2. q.pc = s /\ q.task = r.task
  BY <1>1
<1>3. s \in {"idle", "reading", "counting", "publishing", "exited"}
        => q \in [pc: {"idle", "reading", "counting", "publishing", "exited"},
                  task: Tasks \cup {NoTask}]
  BY <1>1
<1>4. worker' = [worker EXCEPT ![w] = q]
  OBVIOUS
<1> HIDE DEF q
<1> QED
  BY <1>2, <1>3, <1>4 DEF PoolTyped

(* The other steps of a worker write its pc and its task. *)
LEMMA WorkerWritten ==
  ASSUME PoolTyped, NEW w \in Workers, NEW s, NEW t,
         worker' = [worker EXCEPT ![w] = [pc |-> s, task |-> t]]
  PROVE  /\ worker'[w].pc = s /\ worker'[w].task = t
         /\ \A v \in Workers : v # w => worker'[v] = worker[v]
         /\ s \in {"idle", "reading", "counting", "publishing", "exited"} /\ t \in Tasks \cup {NoTask}
              => worker' \in [Workers ->
                   [pc: {"idle", "reading", "counting", "publishing", "exited"},
                    task: Tasks \cup {NoTask}]]
<1> DEFINE q == [pc |-> s, task |-> t]
<1>1. q.pc = s /\ q.task = t
  OBVIOUS
<1>2. s \in {"idle", "reading", "counting", "publishing", "exited"} /\ t \in Tasks \cup {NoTask}
        => q \in [pc: {"idle", "reading", "counting", "publishing", "exited"},
                  task: Tasks \cup {NoTask}]
  OBVIOUS
<1> HIDE DEF q
<1>3. worker' = [worker EXCEPT ![w] = q]
  BY DEF q
<1> QED
  BY <1>1, <1>2, <1>3 DEF PoolTyped

(* When one worker takes, keeps or drops the task of one chunk, the other  *)
(* chunks stay where they are.                                             *)
LEMMA OneChunkMoves ==
  ASSUME NEW w \in Workers, NEW l \in Layers, NEW i \in Parts(l),
         \A v \in Workers : v # w => worker'[v] = worker[v] /\ worker[v].task # PartTask(l, i),
         worker[w].task \in {NoTask, PartTask(l, i)},
         worker'[w].task \in {NoTask, PartTask(l, i)}
  PROVE  \A m \in Layers : \A j \in Parts(m) : \A s :
           j \in With(m, s)' <=>
             IF m = l /\ j = i
               THEN worker'[w].pc = s /\ worker'[w].task = PartTask(l, i)
               ELSE j \in With(m, s)
<1> SUFFICES ASSUME NEW m \in Layers, NEW j \in Parts(m), NEW s
             PROVE  j \in With(m, s)' <=>
                      IF m = l /\ j = i
                        THEN worker'[w].pc = s /\ worker'[w].task = PartTask(l, i)
                        ELSE j \in With(m, s)
  OBVIOUS
<1>1. j \in With(m, s)' <=>
        \E v \in Workers : worker'[v].pc = s /\ worker'[v].task = PartTask(m, j)
  BY DEF With, Parts, PartTask, Task
<1>2. j \in With(m, s) <=>
        \E v \in Workers : worker[v].pc = s /\ worker[v].task = PartTask(m, j)
  BY DEF With
<1>3. CASE m = l /\ j = i
  BY <1>1, <1>3
<1>4. CASE ~ (m = l /\ j = i)
  <2>1. PartTask(m, j) # PartTask(l, i) /\ PartTask(m, j) # NoTask
    BY <1>4, PartTaskFacts
  <2>2. worker[w].task # PartTask(m, j) /\ worker'[w].task # PartTask(m, j)
    BY <2>1
  <2> QED
    BY <1>1, <1>2, <1>4, <2>2
<1> QED
  BY <1>3, <1>4

(* A chunk is in one place at a time. *)
LEMMA OnePlace ==
  ASSUME PoolTyped, TasksAreParts, OneTaskPerPart, NEW l \in Layers
  PROVE  /\ \A s : Waiting(l) \cap With(l, s) = {}
         /\ \A s, u : s # u => With(l, s) \cap With(l, u) = {}
<1> USE DEF OneTaskPerPart
<1>1. ASSUME NEW s, NEW i \in Waiting(l), i \in With(l, s)
      PROVE  FALSE
  BY <1>1 DEF Waiting, With
<1>2. ASSUME NEW s, NEW u, s # u, NEW i \in With(l, s), i \in With(l, u)
      PROVE  FALSE
  <2>1. i \in Parts(l)
    BY DEF With
  <2>2. PICK v \in Workers : worker[v].pc = s /\ worker[v].task = PartTask(l, i)
    BY DEF With
  <2>3. PICK w \in Workers : worker[w].pc = u /\ worker[w].task = PartTask(l, i)
    BY <1>2 DEF With
  <2>4. PartTask(l, i) # NoTask
    BY <2>1, PartTaskFacts
  <2> QED
    BY <1>2, <2>2, <2>3, <2>4
<1> QED
  BY <1>1, <1>2

(* Two workers never hold the task of the same chunk, nor is it queued. *)
LEMMA SoleHolder ==
  ASSUME TasksAreParts, OneTaskPerPart, NEW w \in Workers,
         worker[w].pc \notin {"idle", "exited"}
  PROVE  \E l \in Layers : \E i \in Parts(l) :
           /\ worker[w].task = PartTask(l, i)
           /\ i \in With(l, worker[w].pc) /\ i \notin Waiting(l)
           /\ \A v \in Workers : v # w => worker[v].task # PartTask(l, i)
<1>1. PICK l \in Layers : \E j \in Parts(l) : worker[w].task = PartTask(l, j)
  BY DEF TasksAreParts
<1>2. PICK i \in Parts(l) : worker[w].task = PartTask(l, i)
  BY <1>1
<1>3. PartTask(l, i) # NoTask
  BY PartTaskFacts
<1>4. i \in With(l, worker[w].pc)
  BY <1>2 DEF With
<1>5. i \notin Waiting(l)
  BY <1>2 DEF OneTaskPerPart, Waiting
<1> QED
  BY <1>2, <1>3, <1>4, <1>5 DEF OneTaskPerPart

(* Recv: the first chunk of the channel goes into the worker's hands. *)
LEMMA RecvMoves ==
  ASSUME PoolTyped, TasksAreParts, OneTaskPerPart, NEW w \in Workers, Recv(w)
  PROVE  /\ PoolTyped' /\ TasksAreParts' /\ OneTaskPerPart'
         /\ \E l \in Layers : \E i \in Waiting(l) : \A m \in Layers :
              /\ Waiting(m)' = Waiting(m) \ Only(m, l, i)
              /\ With(m, "reading")' = With(m, "reading") \cup Only(m, l, i)
              /\ With(m, "counting")' = With(m, "counting")
              /\ With(m, "publishing")' = With(m, "publishing")
<1> DEFINE t == Head(chan)
<1>1. /\ worker[w].pc = "idle" /\ chan # <<>> /\ chan' = Tail(chan)
      /\ worker' = [worker EXCEPT ![w] = [pc |-> "reading", task |-> t]]
  BY DEF Recv
<1>2. chan \in Seq(Tasks) /\ Len(chan) \in Nat \ {0} /\ t = chan[1]
  BY <1>1, EmptySeq DEF PoolTyped
<1>3. /\ t \in Tasks /\ chan' \in Seq(Tasks) /\ Len(chan') = Len(chan) - 1
      /\ \A k \in 1..Len(chan') : chan'[k] = chan[k + 1]
  BY <1>1, <1>2, HeadTailProperties
<1>4. \A k \in 1..Len(chan') : k + 1 \in 1..Len(chan) /\ k + 1 # 1
  BY <1>2, <1>3
<1>5. \A k \in 1..Len(chan) : k = 1 \/ (k - 1 \in 1..Len(chan') /\ chan'[k - 1] = chan[k])
  BY <1>2, <1>3
<1>6. PICK l \in Layers : \E j \in Parts(l) : t = PartTask(l, j)
  BY <1>2 DEF TasksAreParts
<1>7. PICK i \in Parts(l) : t = PartTask(l, i)
  BY <1>6
<1> HIDE DEF t
<1>8. /\ worker'[w].pc = "reading" /\ worker'[w].task = t
      /\ \A v \in Workers : v # w => worker'[v] = worker[v]
      /\ PoolTyped'
  BY <1>1, <1>3, WorkerWritten DEF PoolTyped
<1>9. worker[w].task = NoTask
  BY <1>1 DEF TasksAreParts
<1>10. \A v \in Workers : worker[v].task # t
  BY <1>2 DEF OneTaskPerPart
<1>11. \A m \in Layers : \A j \in Parts(m) : \A s :
         j \in With(m, s)' <=>
           IF m = l /\ j = i THEN s = "reading" ELSE j \in With(m, s)
  <2>1. \A v \in Workers : v # w => worker'[v] = worker[v] /\ worker[v].task # PartTask(l, i)
    BY <1>7, <1>8, <1>10
  <2>2. worker[w].task \in {NoTask, PartTask(l, i)} /\ worker'[w].task \in {NoTask, PartTask(l, i)}
    BY <1>7, <1>8, <1>9
  <2> QED
    BY <1>7, <1>8, <2>1, <2>2, OneChunkMoves
<1>12. \A s : i \notin With(l, s)
  BY <1>7, <1>10 DEF With
<1>13. ASSUME NEW m \in Layers
       PROVE  Waiting(m)' = Waiting(m) \ Only(m, l, i)
  <2>1. \A j \in Parts(m) : PartTask(m, j)' = PartTask(m, j) /\ Parts(m)' = Parts(m)
    BY DEF PartTask, Task, Parts
  <2>2. ASSUME NEW j \in Parts(m), j \in Waiting(m)'
        PROVE  j \in Waiting(m) /\ j \notin Only(m, l, i)
    <3>1. PICK k \in 1..Len(chan') : chan'[k] = PartTask(m, j)
      BY <2>1, <2>2 DEF Waiting
    <3>2. chan[k + 1] = PartTask(m, j) /\ chan[k + 1] # chan[1]
      BY <1>2, <1>3, <1>4, <3>1 DEF OneTaskPerPart
    <3> QED
      BY <1>2, <1>4, <1>7, <3>2 DEF Waiting, Only
  <2>3. ASSUME NEW j \in Waiting(m), j \notin Only(m, l, i)
        PROVE  j \in Waiting(m)'
    <3>1. PICK k \in 1..Len(chan) : chan[k] = PartTask(m, j)
      BY DEF Waiting
    <3>2. j \in Parts(m) /\ ~ (m = l /\ j = i)
      BY <2>3 DEF Waiting, Only
    <3>3. PartTask(m, j) # t
      BY <1>7, <3>2, PartTaskFacts
    <3>4. k - 1 \in 1..Len(chan') /\ chan'[k - 1] = PartTask(m, j)
      BY <1>2, <1>5, <3>1, <3>3
    <3> QED
      BY <2>1, <3>2, <3>4 DEF Waiting
  <2>4. Waiting(m)' \subseteq Parts(m) /\ Waiting(m) \subseteq Parts(m)
    BY <2>1 DEF Waiting
  <2> QED
    BY <2>2, <2>3, <2>4
<1>14. \A m \in Layers : \A s : With(m, s) \subseteq Parts(m) /\ With(m, s)' \subseteq Parts(m)
  BY DEF With, Parts
<1>15. TasksAreParts'
  <2>1. \A k \in 1..Len(chan') : \E m \in Layers : \E j \in Parts(m) : chan'[k] = PartTask(m, j)
    BY <1>3, <1>4 DEF TasksAreParts
  <2>2. ASSUME NEW v \in Workers
        PROVE  IF worker'[v].pc \in {"idle", "exited"}
                 THEN worker'[v].task = NoTask
                 ELSE \E m \in Layers : \E j \in Parts(m) : worker'[v].task = PartTask(m, j)
    BY <1>7, <1>8 DEF TasksAreParts
  <2> QED
    BY <2>1, <2>2 DEF TasksAreParts, PartTask, Task, Parts
<1>16. OneTaskPerPart'
  <2>1. \A j, k \in 1..Len(chan') : chan'[j] = chan'[k] => j = k
    <3> SUFFICES ASSUME NEW j \in 1..Len(chan'), NEW k \in 1..Len(chan'), chan'[j] = chan'[k]
                 PROVE  j = k
      OBVIOUS
    <3>1. chan[j + 1] = chan[k + 1] /\ j + 1 \in 1..Len(chan) /\ k + 1 \in 1..Len(chan)
      BY <1>3, <1>4
    <3>2. j + 1 = k + 1
      BY <3>1 DEF OneTaskPerPart
    <3> QED
      BY <1>2, <1>3, <3>2
  <2>2. \A v \in Workers, k \in 1..Len(chan') : worker'[v].task # chan'[k]
    <3> SUFFICES ASSUME NEW v \in Workers, NEW k \in 1..Len(chan')
                 PROVE  worker'[v].task # chan'[k]
      OBVIOUS
    <3>1. chan'[k] = chan[k + 1] /\ k + 1 \in 1..Len(chan) /\ k + 1 # 1 /\ 1 \in 1..Len(chan)
      BY <1>2, <1>3, <1>4
    <3>2. chan[k + 1] # chan[1]
      BY <3>1 DEF OneTaskPerPart
    <3> QED
      BY <1>2, <1>8, <3>1, <3>2 DEF OneTaskPerPart
  <2>3. \A v, u \in Workers :
          worker'[v].task = worker'[u].task /\ worker'[u].task # NoTask => v = u
    BY <1>8, <1>10 DEF OneTaskPerPart
  <2> QED
    BY <2>1, <2>2, <2>3 DEF OneTaskPerPart
<1>17. i \in Waiting(l)
  <2>1. 1 \in 1..Len(chan)
    BY <1>2
  <2> QED
    BY <1>2, <1>7, <2>1 DEF Waiting
<1>18. ASSUME NEW m \in Layers
       PROVE  /\ With(m, "reading")' = With(m, "reading") \cup Only(m, l, i)
              /\ With(m, "counting")' = With(m, "counting")
              /\ With(m, "publishing")' = With(m, "publishing")
  <2>1. ASSUME NEW s
        PROVE  With(m, s)' = IF s = "reading" THEN With(m, s) \cup Only(m, l, i) ELSE With(m, s)
    BY <1>11, <1>12, <1>14 DEF Only
  <2> QED
    BY <2>1
<1> QED
  BY <1>8, <1>13, <1>15, <1>16, <1>17, <1>18

(* Pread, Count and Publish: the chunk a worker holds goes to its next     *)
(* stage, or is done with.                                                 *)
LEMMA HolderMoves ==
  ASSUME PoolTyped, TasksAreParts, OneTaskPerPart, NEW w \in Workers,
         NEW q \in Live, worker[w].pc = q,
         NEW s \in {"idle", "counting", "publishing"}, s # q, chan' = chan, PoolTyped',
         worker'[w].pc = s,
         worker'[w].task = IF s = "idle" THEN NoTask ELSE worker[w].task,
         \A v \in Workers : v # w => worker'[v] = worker[v]
  PROVE  /\ TasksAreParts' /\ OneTaskPerPart'
         /\ \E l \in Layers : \E i \in Parts(l) :
              /\ worker[w].task = PartTask(l, i) /\ i \in With(l, q)
              /\ \A m \in Layers :
                   /\ Waiting(m)' = Waiting(m)
                   /\ With(m, q)' = With(m, q) \ Only(m, l, i)
                   /\ s # "idle" => With(m, s)' = With(m, s) \cup Only(m, l, i)
                   /\ \A u \in Live \ {s, q} : With(m, u)' = With(m, u)
<1>1. PICK l \in Layers : \E j \in Parts(l) :
         /\ worker[w].task = PartTask(l, j) /\ j \in With(l, q)
         /\ \A v \in Workers : v # w => worker[v].task # PartTask(l, j)
  BY SoleHolder DEF Live
<1>2. PICK i \in Parts(l) :
         /\ worker[w].task = PartTask(l, i) /\ i \in With(l, q)
         /\ \A v \in Workers : v # w => worker[v].task # PartTask(l, i)
  BY <1>1
<1>3. PartTask(l, i) # NoTask
  BY PartTaskFacts
<1>4. \A m \in Layers : \A j \in Parts(m) : \A u :
        j \in With(m, u)' <=>
          IF m = l /\ j = i THEN s = u /\ s # "idle" ELSE j \in With(m, u)
  <2>1. \A v \in Workers : v # w => worker'[v] = worker[v] /\ worker[v].task # PartTask(l, i)
    BY <1>2
  <2>2. worker[w].task \in {NoTask, PartTask(l, i)} /\ worker'[w].task \in {NoTask, PartTask(l, i)}
    BY <1>2
  <2>3. \A m \in Layers : \A j \in Parts(m) : \A u :
          j \in With(m, u)' <=>
            IF m = l /\ j = i
              THEN worker'[w].pc = u /\ worker'[w].task = PartTask(l, i)
              ELSE j \in With(m, u)
    BY <2>1, <2>2, OneChunkMoves
  <2> QED
    BY <1>2, <1>3, <2>3
<1>5. \A m \in Layers : \A u : With(m, u) \subseteq Parts(m) /\ With(m, u)' \subseteq Parts(m)
  BY DEF With, Parts
<1>6. \A m \in Layers : Waiting(m)' = Waiting(m)
  BY DEF Waiting, Parts, PartTask, Task
<1>7. \A u : u # q => i \notin With(l, u)
  BY <1>2, OnePlace
<1>8. ASSUME NEW m \in Layers, NEW u
      PROVE  With(m, u)' = IF u = q THEN With(m, u) \ Only(m, l, i)
                           ELSE IF u = s /\ s # "idle" THEN With(m, u) \cup Only(m, l, i)
                           ELSE With(m, u)
  <2>1. CASE m # l
    <3>1. \A j \in Parts(m) : j \in With(m, u)' <=> j \in With(m, u)
      BY <1>4, <2>1
    <3>2. With(m, u)' = With(m, u) /\ Only(m, l, i) = {}
      BY <1>5, <2>1, <3>1 DEF Only
    <3> QED
      BY <3>2
  <2>2. CASE m = l
    <3>1. \A j \in Parts(l) : j # i => (j \in With(l, u)' <=> j \in With(l, u))
      BY <1>4
    <3>2. i \in With(l, u)' <=> s = u /\ s # "idle"
      BY <1>4
    <3>3. CASE u = q
      BY <1>5, <2>2, <3>1, <3>2, <3>3 DEF Only
    <3>4. CASE u # q
      BY <1>5, <1>7, <2>2, <3>1, <3>2, <3>4 DEF Only
    <3> QED
      BY <3>3, <3>4
  <2> QED
    BY <2>1, <2>2
<1>9. TasksAreParts'
  <2>1. \A v \in Workers :
          IF worker'[v].pc \in {"idle", "exited"}
            THEN worker'[v].task = NoTask
            ELSE \E m \in Layers : \E j \in Parts(m) : worker'[v].task = PartTask(m, j)
    <3> TAKE v \in Workers
    <3>1. CASE v = w
      BY <1>2, <3>1
    <3>2. CASE v # w
      BY <3>2 DEF TasksAreParts
    <3> QED
      BY <3>1, <3>2
  <2>2. \A k \in 1..Len(chan') : \E m \in Layers : \E j \in Parts(m) : chan'[k] = PartTask(m, j)
    BY DEF TasksAreParts
  <2> QED
    BY <2>1, <2>2, Zenon DEF TasksAreParts, PartTask, Task, Parts
<1>10. OneTaskPerPart'
  <2>1. \A v \in Workers, k \in 1..Len(chan) : worker'[v].task # chan[k]
    <3> TAKE v \in Workers, k \in 1..Len(chan)
    <3>1. chan[k] # NoTask
      BY PartTaskFacts DEF TasksAreParts
    <3> QED
      BY <3>1 DEF OneTaskPerPart
  <2>2. \A u, v \in Workers :
          worker'[u].task = worker'[v].task /\ worker'[v].task # NoTask => u = v
    BY DEF OneTaskPerPart
  <2> QED
    BY <2>1, <2>2 DEF OneTaskPerPart
<1>11. ASSUME NEW m \in Layers
       PROVE  /\ With(m, q)' = With(m, q) \ Only(m, l, i)
              /\ s # "idle" => With(m, s)' = With(m, s) \cup Only(m, l, i)
              /\ \A u \in Live \ {s, q} : With(m, u)' = With(m, u)
  BY <1>8
<1> QED
  BY <1>2, <1>6, <1>9, <1>10, <1>11

(* A worker that leaves had nothing in its hands. *)
LEMMA ExitMoves ==
  ASSUME PoolTyped, TasksAreParts, OneTaskPerPart, NEW w \in Workers, Exit(w)
  PROVE  /\ PoolTyped' /\ TasksAreParts' /\ OneTaskPerPart'
         /\ \A m \in Layers :
              /\ Waiting(m)' = Waiting(m)
              /\ \A u \in Live : With(m, u)' = With(m, u)
<1>1. /\ worker[w].pc = "idle" /\ chan' = chan
      /\ worker' = [worker EXCEPT ![w].pc = "exited"]
  BY DEF Exit
<1>2. /\ worker'[w].pc = "exited" /\ worker'[w].task = worker[w].task
      /\ \A v \in Workers : v # w => worker'[v] = worker[v]
      /\ PoolTyped'
  BY <1>1, StageWritten DEF PoolTyped
<1>3. TasksAreParts'
  <2>1. \A k \in 1..Len(chan') : \E m \in Layers : \E j \in Parts(m) : chan'[k] = PartTask(m, j)
    BY <1>1 DEF TasksAreParts
  <2>2. \A v \in Workers :
          IF worker'[v].pc \in {"idle", "exited"}
            THEN worker'[v].task = NoTask
            ELSE \E m \in Layers : \E j \in Parts(m) : worker'[v].task = PartTask(m, j)
    <3> TAKE v \in Workers
    <3>1. CASE v = w
      BY <1>1, <1>2, <3>1 DEF TasksAreParts
    <3>2. CASE v # w
      BY <1>2, <3>2 DEF TasksAreParts
    <3> QED
      BY <3>1, <3>2
  <2> QED
    BY <2>1, <2>2, Zenon DEF TasksAreParts, PartTask, Task, Parts
<1>4. \A v \in Workers : worker'[v].task = worker[v].task
  BY <1>2
<1>5. OneTaskPerPart'
  BY <1>1, <1>4 DEF OneTaskPerPart
<1>6. ASSUME NEW m \in Layers, NEW u \in Live
      PROVE  With(m, u)' = With(m, u)
  <2>1. \A v \in Workers : worker'[v].pc = u <=> worker[v].pc = u
    BY <1>1, <1>2 DEF Live
  <2> QED
    BY <1>4, <2>1 DEF With, Parts, PartTask, Task
<1>7. \A m \in Layers : Waiting(m)' = Waiting(m)
  BY <1>1 DEF Waiting, Parts, PartTask, Task
<1> QED
  BY <1>2, <1>3, <1>5, <1>6, <1>7

(* Nothing moves when neither the channel nor the workers change. *)
LEMMA NothingMoves ==
  ASSUME chan' = chan, worker' = worker
  PROVE  /\ PoolTyped => PoolTyped'
         /\ TasksAreParts => TasksAreParts'
         /\ OneTaskPerPart => OneTaskPerPart'
         /\ \A m : Waiting(m)' = Waiting(m)
         /\ \A m, u : With(m, u)' = With(m, u)
         /\ \A m : Outstanding(m)' = Outstanding(m)
<1>1. \A m : Waiting(m)' = Waiting(m)
  BY DEF Waiting, Parts, PartTask, Task
<1>2. \A m, u : With(m, u)' = With(m, u)
  BY DEF With, Parts, PartTask, Task
<1>3. PoolTyped => PoolTyped'
  BY DEF PoolTyped, Tasks
<1>4. TasksAreParts => TasksAreParts'
  <2> SUFFICES ASSUME TasksAreParts PROVE TasksAreParts'
    OBVIOUS
  <2>1. \A k \in 1..Len(chan') : \E m \in Layers : \E j \in Parts(m) : chan'[k] = PartTask(m, j)
    BY DEF TasksAreParts
  <2>2. \A v \in Workers :
          IF worker'[v].pc \in {"idle", "exited"}
            THEN worker'[v].task = NoTask
            ELSE \E m \in Layers : \E j \in Parts(m) : worker'[v].task = PartTask(m, j)
    BY DEF TasksAreParts
  <2> QED
    BY <2>1, <2>2, Zenon DEF TasksAreParts, PartTask, Task, Parts
<1>5. OneTaskPerPart => OneTaskPerPart'
  BY Zenon DEF OneTaskPerPart
<1>6. \A m : Outstanding(m)' = Outstanding(m)
  BY <1>1, <1>2, Zenon DEF Outstanding
<1> QED
  BY <1>1, <1>2, <1>3, <1>4, <1>5, <1>6

-----------------------------------------------------------------------------
(* What submit_layer_load does to the chunks. *)

(* No task refers to the completion of a load exactly when none of its     *)
(* chunks is anywhere.                                                     *)
LEMMA IdleMeansNowhere ==
  ASSUME PoolTyped, TasksAreParts, OneTaskPerPart, NEW l \in Layers
  PROVE  IdleLoad(l) <=> ~Underway(l)
<1>1. ASSUME IdleLoad(l)
      PROVE  ~Underway(l)
  <2>1. ASSUME NEW i \in Waiting(l) PROVE FALSE
    <3>1. i \in Parts(l) /\ \E k \in 1..Len(chan) : chan[k] = PartTask(l, i)
      BY DEF Waiting
    <3> QED
      BY <1>1, <3>1, PartTaskFacts DEF IdleLoad
  <2>2. ASSUME NEW s, NEW i \in With(l, s) PROVE FALSE
    <3>1. i \in Parts(l) /\ \E w \in Workers : worker[w].task = PartTask(l, i)
      BY DEF With
    <3> QED
      BY <1>1, <3>1, PartTaskFacts DEF IdleLoad
  <2> QED
    BY <2>1, <2>2 DEF Outstanding, Underway
<1>2. ASSUME ~Underway(l)
      PROVE  IdleLoad(l)
  <2>1. ASSUME NEW k \in 1..Len(chan) PROVE chan[k].load # l
    <3>1. PICK m \in Layers : \E j \in Parts(m) : chan[k] = PartTask(m, j)
      BY DEF TasksAreParts
    <3>2. PICK j \in Parts(m) : chan[k] = PartTask(m, j)
      BY <3>1
    <3>3. m # l
      BY <1>2, <3>2 DEF Waiting, Outstanding, Underway
    <3> QED
      BY <3>2, <3>3, PartTaskFacts
  <2>2. ASSUME NEW w \in Workers, worker[w].task # NoTask PROVE worker[w].task.load # l
    <3>1. worker[w].pc \in Live
      BY <2>2 DEF TasksAreParts, PoolTyped, Live
    <3>2. PICK m \in Layers : \E j \in Parts(m) :
            worker[w].task = PartTask(m, j) /\ j \in With(m, worker[w].pc)
      BY <3>1, SoleHolder DEF Live
    <3>3. PICK j \in Parts(m) : worker[w].task = PartTask(m, j) /\ j \in With(m, worker[w].pc)
      BY <3>2
    <3>4. m # l
      BY <1>2, <3>1, <3>3 DEF Outstanding, Live, Underway
    <3> QED
      BY <3>3, <3>4, PartTaskFacts
  <2> QED
    BY <2>1, <2>2 DEF IdleLoad
<1> QED
  BY <1>1, <1>2

(* One task for each chunk, in order. *)
LEMMA LoadTasksFacts ==
  ASSUME NEW l \in Layers
  PROVE  /\ NumParts[l] \in Nat
         /\ LoadTasks(l) \in Seq(Tasks) /\ Len(LoadTasks(l)) = NumParts[l]
         /\ \A i \in Parts(l) : LoadTasks(l)[i] = PartTask(l, i)
<1>1. NumParts[l] \in Nat
  BY LoaderAssumption
<1>2. LoadTasks(l) = [i \in 1..NumParts[l] |-> PartTask(l, i)]
  BY DEF LoadTasks, PartTask
<1>3. \A i \in 1..NumParts[l] : PartTask(l, i) \in Tasks
  BY PartTaskFacts DEF Parts
<1>4. LoadTasks(l) \in [1..NumParts[l] -> Tasks]
  BY <1>2, <1>3, Zenon
<1>5. LoadTasks(l) \in Seq(Tasks)
  BY <1>1, <1>4
<1>6. DOMAIN LoadTasks(l) = 1..NumParts[l] /\ DOMAIN LoadTasks(l) = 1..Len(LoadTasks(l))
      /\ Len(LoadTasks(l)) \in Nat
  BY <1>4, <1>5, LenProperties
<1>7. Len(LoadTasks(l)) = NumParts[l]
  BY <1>1, <1>6
<1> QED
  BY <1>1, <1>2, <1>5, <1>7 DEF Parts

(* submit_layer_load queues every chunk of an idle layer, and no other. *)
LEMMA SendMoves ==
  ASSUME PoolTyped, TasksAreParts, OneTaskPerPart, NEW l \in Layers,
         IdleLoad(l), chan' = chan \o LoadTasks(l), worker' = worker
  PROVE  /\ PoolTyped' /\ TasksAreParts' /\ OneTaskPerPart'
         /\ \A m \in Layers :
              /\ Waiting(m)' = IF m = l THEN Parts(l) ELSE Waiting(m)
              /\ \A u \in Live : With(m, u)' = With(m, u)
         /\ \A u \in Live : With(l, u) = {}
<1> DEFINE n == Len(chan)
           p == NumParts[l]
<1>1. n \in Nat /\ p \in Nat /\ chan \in Seq(Tasks) /\ LoadTasks(l) \in Seq(Tasks)
      /\ Len(LoadTasks(l)) = p
  BY LoadTasksFacts, LenProperties DEF PoolTyped
<1>2. /\ chan' \in Seq(Tasks) /\ Len(chan') = n + p
      /\ \A k \in 1..(n + p) : chan'[k] = IF k <= n THEN chan[k] ELSE LoadTasks(l)[k - n]
  <2>1. /\ chan \o LoadTasks(l) \in Seq(Tasks)
        /\ Len(chan \o LoadTasks(l)) = Len(chan) + Len(LoadTasks(l))
        /\ \A k \in 1..(Len(chan) + Len(LoadTasks(l))) :
             (chan \o LoadTasks(l))[k]
               = IF k <= Len(chan) THEN chan[k] ELSE LoadTasks(l)[k - Len(chan)]
    <3>1. chan \in Seq(Tasks) /\ LoadTasks(l) \in Seq(Tasks)
      BY <1>1
    <3> QED
      BY <3>1, ConcatFacts, Zenon
  <2>2. Len(LoadTasks(l)) = p /\ chan' = chan \o LoadTasks(l)
    BY <1>1
  <2> QED
    BY <2>1, <2>2, Zenon
<1> HIDE DEF n, p
<1>3. \A k \in 1..n : k \in 1..Len(chan') /\ chan'[k] = chan[k]
  BY <1>1, <1>2
<1>4. \A i \in Parts(l) : n + i \in 1..Len(chan') /\ chan'[n + i] = PartTask(l, i)
  <2> TAKE i \in Parts(l)
  <2>1. i \in 1..p /\ LoadTasks(l)[i] = PartTask(l, i)
    BY LoadTasksFacts DEF Parts, p
  <2>2. n + i \in 1..(n + p) /\ ~ (n + i <= n) /\ (n + i) - n = i
    BY <1>1, <2>1
  <2> QED
    BY <1>2, <2>1, <2>2
<1>5. \A k \in 1..Len(chan') : k \in 1..n \/ \E i \in Parts(l) : k = n + i
  <2> TAKE k \in 1..Len(chan')
  <2>1. k \in 1..(n + p)
    BY <1>2
  <2>2. k \in 1..n \/ (k - n \in 1..p /\ k = n + (k - n))
    BY <1>1, <2>1
  <2> QED
    BY <2>2 DEF Parts, p
<1>6. \A k \in 1..n : \A i \in Parts(l) : chan[k] # PartTask(l, i)
  BY PartTaskFacts DEF IdleLoad, n
<1>7. \A w \in Workers : \A i \in Parts(l) : worker[w].task # PartTask(l, i)
  BY PartTaskFacts DEF IdleLoad
<1>8. PoolTyped'
  BY <1>2 DEF PoolTyped
<1>9. TasksAreParts'
  <2>1. \A k \in 1..Len(chan') : \E m \in Layers : \E i \in Parts(m) : chan'[k] = PartTask(m, i)
    <3> TAKE k \in 1..Len(chan')
    <3>1. CASE k \in 1..n
      BY <1>3, <3>1 DEF TasksAreParts, n
    <3>2. CASE \E i \in Parts(l) : k = n + i
      BY <1>4, <3>2
    <3> QED
      BY <1>5, <3>1, <3>2
  <2> QED
    BY <2>1 DEF TasksAreParts, PartTask, Task, Parts
<1>10. OneTaskPerPart'
  <2>1. \A j, k \in 1..Len(chan') : chan'[j] = chan'[k] => j = k
    <3> SUFFICES ASSUME NEW j \in 1..Len(chan'), NEW k \in 1..Len(chan'), chan'[j] = chan'[k]
                 PROVE  j = k
      OBVIOUS
    <3>1. CASE j \in 1..n /\ k \in 1..n
      BY <1>3, <3>1 DEF OneTaskPerPart, n
    <3>2. ASSUME NEW i \in Parts(l), j = n + i
          PROVE  j = k
      <4>1. chan'[k] = PartTask(l, i)
        BY <1>4, <3>2
      <4>2. ~ (k \in 1..n)
        BY <1>3, <1>6, <4>1
      <4>3. PICK h \in Parts(l) : k = n + h
        BY <1>5, <4>2
      <4>4. PartTask(l, h) = PartTask(l, i)
        BY <1>4, <4>1, <4>3
      <4> QED
        BY <3>2, <4>3, <4>4, PartTaskFacts
    <3>3. ASSUME NEW i \in Parts(l), k = n + i
          PROVE  j = k
      <4>1. chan'[j] = PartTask(l, i)
        BY <1>4, <3>3
      <4>2. ~ (j \in 1..n)
        BY <1>3, <1>6, <4>1
      <4> QED
        BY <1>5, <3>2, <4>2
    <3> QED
      BY <1>5, <3>1, <3>2, <3>3
  <2>2. \A w \in Workers, k \in 1..Len(chan') : worker[w].task # chan'[k]
    BY <1>3, <1>4, <1>5, <1>7 DEF OneTaskPerPart, n
  <2> QED
    BY <2>1, <2>2 DEF OneTaskPerPart
<1>11. ASSUME NEW m \in Layers
       PROVE  Waiting(m)' = IF m = l THEN Parts(l) ELSE Waiting(m)
  <2>1. Waiting(m)' = {i \in Parts(m) : \E k \in 1..Len(chan') : chan'[k] = PartTask(m, i)}
    BY DEF Waiting, Parts, PartTask, Task
  <2>2. CASE m = l
    <3>1. \A i \in Parts(l) : \E k \in 1..Len(chan') : chan'[k] = PartTask(l, i)
      BY <1>4
    <3> QED
      BY <2>1, <2>2, <3>1
  <2>3. CASE m # l
    <3>1. ASSUME NEW i \in Parts(m), NEW k \in 1..Len(chan'), chan'[k] = PartTask(m, i)
          PROVE  k \in 1..n /\ chan[k] = PartTask(m, i)
      <4>1. \A j \in Parts(l) : PartTask(m, i) # PartTask(l, j)
        BY <2>3, PartTaskFacts
      <4> QED
        BY <1>3, <1>4, <1>5, <3>1, <4>1
    <3>2. \A i \in Parts(m) :
            (\E k \in 1..Len(chan') : chan'[k] = PartTask(m, i)) <=>
            (\E k \in 1..n : chan[k] = PartTask(m, i))
      BY <1>3, <3>1
    <3>3. Waiting(m) = {i \in Parts(m) : \E k \in 1..n : chan[k] = PartTask(m, i)}
      BY DEF Waiting, n
    <3> QED
      BY <2>1, <2>3, <3>2, <3>3
  <2> QED
    BY <2>2, <2>3
<1>12. \A m \in Layers : \A u \in Live : With(m, u)' = With(m, u)
  BY DEF With, Parts, PartTask, Task
<1>13. \A u \in Live : With(l, u) = {}
  BY <1>7 DEF With
<1> QED
  BY <1>8, <1>9, <1>10, <1>11, <1>12, <1>13

-----------------------------------------------------------------------------
(* What the steps of a worker do to the loads. *)

(* The chunks outstanding are a finite set the counter can count. *)
LEMMA OutstandingIsFinite ==
  ASSUME NEW l \in Layers
  PROVE  /\ IsFiniteSet(Parts(l)) /\ Cardinality(Parts(l)) = NumParts[l]
         /\ Outstanding(l) \subseteq Parts(l)
         /\ IsFiniteSet(Outstanding(l)) /\ Cardinality(Outstanding(l)) \in Nat
         /\ (Outstanding(l))' \subseteq Parts(l)
         /\ IsFiniteSet((Outstanding(l))') /\ Cardinality((Outstanding(l))') \in Nat
<1>1. NumParts[l] \in Nat
  BY LoaderAssumption
<1>2. IsFiniteSet(Parts(l)) /\ Cardinality(Parts(l)) = NumParts[l]
  BY <1>1, FS_Interval, SMTT(30) DEF Parts
<1>3. Outstanding(l) \subseteq Parts(l) /\ (Outstanding(l))' \subseteq Parts(l)
  BY DEF Outstanding, Waiting, With, Parts
<1> QED
  BY <1>2, <1>3, FS_Subset, FS_CardinalityType

(* Receiving a task and reading its chunk leave the chunk outstanding, so  *)
(* the counter stays right.                                                *)
LEMMA RecvOnLoads ==
  ASSUME Chunks, NEW w \in Workers, Recv(w)
  PROVE  Chunks' /\ \A l \in Layers : Underway(l)' <=> Underway(l)
<1> USE DEF Chunks
<1>1. PICK l \in Layers : \E i \in Waiting(l) : \A m \in Layers :
         /\ Waiting(m)' = Waiting(m) \ Only(m, l, i)
         /\ With(m, "reading")' = With(m, "reading") \cup Only(m, l, i)
         /\ With(m, "counting")' = With(m, "counting")
         /\ With(m, "publishing")' = With(m, "publishing")
  BY RecvMoves
<1>2. PICK i \in Waiting(l) : \A m \in Layers :
         /\ Waiting(m)' = Waiting(m) \ Only(m, l, i)
         /\ With(m, "reading")' = With(m, "reading") \cup Only(m, l, i)
         /\ With(m, "counting")' = With(m, "counting")
         /\ With(m, "publishing")' = With(m, "publishing")
  BY <1>1
<1>3. \A m \in Layers : (Outstanding(m))' = Outstanding(m)
  BY <1>2 DEF Outstanding, Only
<1>4. remaining' = remaining
  BY DEF Recv
<1>5. Counted'
  BY <1>3, <1>4 DEF Counted
<1>6. LastPublishes'
  BY <1>2, <1>3 DEF LastPublishes
<1> QED
  BY <1>2, <1>3, <1>5, <1>6, RecvMoves DEF Underway

(* A read takes one chunk from those its worker is reading; the loads under *)
(* way stay.                                                                *)
LEMMA PreadOnLoads ==
  ASSUME Chunks, NEW w \in Workers, Pread(w)
  PROVE  /\ Chunks' /\ \A l \in Layers : Underway(l)' <=> Underway(l)
         /\ \E l \in Layers : \E i \in Parts(l) :
              /\ worker[w].task = PartTask(l, i) /\ i \in With(l, "reading")
              /\ \A m \in Layers :
                   /\ Waiting(m)' = Waiting(m)
                   /\ With(m, "reading")' = With(m, "reading") \ Only(m, l, i)
<1> USE DEF Chunks
<1>1. /\ worker[w].pc = "reading" /\ chan' = chan /\ remaining' = remaining
      /\ worker' = [worker EXCEPT ![w].pc = "counting"]
  BY DEF Pread
<1>2. /\ worker'[w].pc = "counting" /\ worker'[w].task = worker[w].task
      /\ \A v \in Workers : v # w => worker'[v] = worker[v]
      /\ PoolTyped'
  BY <1>1, StageWritten DEF PoolTyped
<1>3. /\ TasksAreParts' /\ OneTaskPerPart'
      /\ \E l \in Layers : \E i \in Parts(l) :
           /\ worker[w].task = PartTask(l, i) /\ i \in With(l, "reading")
           /\ \A m \in Layers :
                /\ Waiting(m)' = Waiting(m)
                /\ With(m, "reading")' = With(m, "reading") \ Only(m, l, i)
                /\ "counting" # "idle" => With(m, "counting")' = With(m, "counting") \cup Only(m, l, i)
                /\ \A u \in Live \ {"counting", "reading"} : With(m, u)' = With(m, u)
  <2>1. "reading" \in Live /\ "counting" # "idle" /\ "counting" # "reading"
    BY DEF Live
  <2> QED
    BY <1>1, <1>2, <2>1, HolderMoves
<1>4. PICK l \in Layers : \E i \in Parts(l) :
           /\ worker[w].task = PartTask(l, i) /\ i \in With(l, "reading")
           /\ \A m \in Layers :
                /\ Waiting(m)' = Waiting(m)
                /\ With(m, "reading")' = With(m, "reading") \ Only(m, l, i)
                /\ With(m, "counting")' = With(m, "counting") \cup Only(m, l, i)
                /\ With(m, "publishing")' = With(m, "publishing")
  BY <1>3 DEF Live
<1>5. PICK i \in Parts(l) :
           /\ worker[w].task = PartTask(l, i) /\ i \in With(l, "reading")
           /\ \A m \in Layers :
                /\ Waiting(m)' = Waiting(m)
                /\ With(m, "reading")' = With(m, "reading") \ Only(m, l, i)
                /\ With(m, "counting")' = With(m, "counting") \cup Only(m, l, i)
                /\ With(m, "publishing")' = With(m, "publishing")
  BY <1>4
<1>6. \A m \in Layers : (Outstanding(m))' = Outstanding(m)
  BY <1>5 DEF Outstanding, Only
<1>7. Counted'
  BY <1>1, <1>6 DEF Counted
<1>8. LastPublishes'
  BY <1>5, <1>6 DEF LastPublishes
<1> QED
  BY <1>2, <1>3, <1>5, <1>6, <1>7, <1>8 DEF Underway

(* Counting a chunk down: the load stays under way, because another chunk  *)
(* is outstanding or this worker goes on to publish.                       *)
LEMMA CountOnLoads ==
  ASSUME Chunks, remaining \in [Loads -> Nat], NEW w \in Workers, Count(w)
  PROVE  /\ Chunks' /\ remaining' \in [Loads -> Nat]
         /\ \A l \in Layers : Underway(l)' <=> Underway(l)
         /\ \A m \in Layers : Waiting(m)' = Waiting(m) /\ With(m, "reading")' = With(m, "reading")
<1> USE DEF Chunks
<1> DEFINE t == worker[w].task
<1>1. worker[w].pc = "counting" /\ chan' = chan
      /\ remaining' = [remaining EXCEPT ![t.load] = @ - 1]
  BY DEF Count, CountThen
<1>2. PICK l \in Layers : \E j \in Parts(l) : t = PartTask(l, j) /\ j \in With(l, "counting")
  BY <1>1, SoleHolder
<1>3. PICK i \in Parts(l) : t = PartTask(l, i) /\ i \in With(l, "counting")
  BY <1>2
<1>4. t.load = l /\ t.update_status = TRUE /\ t \in Tasks
  BY <1>3, PartTaskFacts
<1>5. i \in Outstanding(l) /\ With(l, "publishing") = {}
  BY <1>3 DEF Outstanding, LastPublishes
<1>6. remaining[l] = Cardinality(Outstanding(l)) /\ l \in Loads
  BY LoaderAssumption DEF Counted
<1>7. Cardinality(Outstanding(l) \ {i}) = Cardinality(Outstanding(l)) - 1
      /\ Cardinality(Outstanding(l) \ {i}) \in Nat
  BY <1>5, OutstandingIsFinite, FS_RemoveElement, FS_CardinalityType
<1>8. /\ remaining'[l] = remaining[l] - 1
      /\ \A m \in Loads : m # l => remaining'[m] = remaining[m]
      /\ remaining' \in [Loads -> Nat]
  <2>1. remaining' = [remaining EXCEPT ![l] = remaining[l] - 1]
    BY <1>1, <1>4
  <2> QED
    BY <1>6, <1>7, <2>1
<1>9. CASE remaining[l] = 1
  <2>1. worker' = [worker EXCEPT ![w] = [pc |-> "publishing", task |-> t]]
    BY <1>4, <1>9 DEF Count, CountThen
  <2>2. /\ worker'[w].pc = "publishing" /\ worker'[w].task = t
        /\ \A v \in Workers : v # w => worker'[v] = worker[v]
        /\ PoolTyped'
    BY <1>1, <1>4, <2>1, WorkerWritten DEF PoolTyped
  <2>3. /\ TasksAreParts' /\ OneTaskPerPart'
        /\ \E k \in Layers : \E j \in Parts(k) :
             /\ worker[w].task = PartTask(k, j) /\ j \in With(k, "counting")
             /\ \A m \in Layers :
                  /\ Waiting(m)' = Waiting(m)
                  /\ With(m, "counting")' = With(m, "counting") \ Only(m, k, j)
                  /\ "publishing" # "idle" =>
                       With(m, "publishing")' = With(m, "publishing") \cup Only(m, k, j)
                  /\ \A u \in Live \ {"publishing", "counting"} : With(m, u)' = With(m, u)
    <3>1. "counting" \in Live /\ "publishing" # "idle" /\ "publishing" # "counting"
      BY DEF Live
    <3> QED
      BY <1>1, <2>2, <3>1, HolderMoves
  <2>4. \A m \in Layers :
          /\ Waiting(m)' = Waiting(m)
          /\ With(m, "reading")' = With(m, "reading")
          /\ With(m, "counting")' = With(m, "counting") \ Only(m, l, i)
          /\ With(m, "publishing")' = With(m, "publishing") \cup Only(m, l, i)
    <3>1. PICK k \in Layers : \E j \in Parts(k) :
             /\ t = PartTask(k, j)
             /\ \A m \in Layers :
                  /\ Waiting(m)' = Waiting(m)
                  /\ With(m, "reading")' = With(m, "reading")
                  /\ With(m, "counting")' = With(m, "counting") \ Only(m, k, j)
                  /\ With(m, "publishing")' = With(m, "publishing") \cup Only(m, k, j)
      BY <2>3 DEF Live
    <3>2. PICK j \in Parts(k) :
             /\ t = PartTask(k, j)
             /\ \A m \in Layers :
                  /\ Waiting(m)' = Waiting(m)
                  /\ With(m, "reading")' = With(m, "reading")
                  /\ With(m, "counting")' = With(m, "counting") \ Only(m, k, j)
                  /\ With(m, "publishing")' = With(m, "publishing") \cup Only(m, k, j)
      BY <3>1
    <3>3. PartTask(k, j) = PartTask(l, i)
      BY <1>3, <3>2
    <3>4. k = l /\ j = i
      BY <3>3, PartTaskFacts
    <3> QED
      BY <3>2, <3>4
  <2>5. Outstanding(l) = {i}
    <3>1. IsFiniteSet(Outstanding(l) \ {i}) /\ Cardinality(Outstanding(l) \ {i}) = 0
      BY <1>6, <1>7, <1>9, OutstandingIsFinite, FS_RemoveElement
    <3>2. Outstanding(l) \ {i} = {}
      BY <3>1, FS_EmptySet
    <3> QED
      BY <1>5, <3>2
  <2>6. /\ (Outstanding(l))' = {} /\ With(l, "publishing")' = {i}
        /\ \A m \in Layers \ {l} :
             (Outstanding(m))' = Outstanding(m) /\ With(m, "publishing")' = With(m, "publishing")
    <3>1. i \notin Waiting(l) /\ i \notin With(l, "reading")
      BY <1>3, OnePlace
    <3>2. (Outstanding(l))' = Outstanding(l) \ {i} /\ With(l, "publishing")' = {i}
      BY <1>5, <2>4, <3>1 DEF Outstanding, Only
    <3>3. \A m \in Layers \ {l} :
             (Outstanding(m))' = Outstanding(m) /\ With(m, "publishing")' = With(m, "publishing")
      BY <2>4 DEF Outstanding, Only
    <3> QED
      BY <2>5, <3>2, <3>3
  <2>7. Counted'
    <3>1. \A m \in Layers : remaining'[m] = Cardinality((Outstanding(m))')
      <4>1. remaining'[l] = 0 /\ Cardinality((Outstanding(l))') = 0
        BY <1>8, <1>9, <2>6, FS_EmptySet
      <4>2. \A m \in Layers \ {l} : remaining'[m] = Cardinality((Outstanding(m))')
        BY <1>8, <2>6, LoaderAssumption DEF Counted
      <4> QED
        BY <4>1, <4>2
    <3> QED
      BY <3>1 DEF Counted
  <2>8. LastPublishes'
    BY <2>6 DEF LastPublishes
  <2>9. \A m \in Layers : Underway(m)' <=> Underway(m)
    BY <1>5, <2>6 DEF Underway
  <2> QED
    BY <1>8, <2>2, <2>3, <2>4, <2>7, <2>8, <2>9
<1>10. CASE remaining[l] # 1
  <2>1. worker' = [worker EXCEPT ![w] = [pc |-> "idle", task |-> NoTask]]
    BY <1>4, <1>10 DEF Count, CountThen
  <2>2. /\ worker'[w].pc = "idle" /\ worker'[w].task = NoTask
        /\ \A v \in Workers : v # w => worker'[v] = worker[v]
        /\ PoolTyped'
    BY <1>1, <2>1, WorkerWritten DEF PoolTyped
  <2>3. /\ TasksAreParts' /\ OneTaskPerPart'
        /\ \E k \in Layers : \E j \in Parts(k) :
             /\ worker[w].task = PartTask(k, j) /\ j \in With(k, "counting")
             /\ \A m \in Layers :
                  /\ Waiting(m)' = Waiting(m)
                  /\ With(m, "counting")' = With(m, "counting") \ Only(m, k, j)
                  /\ "idle" # "idle" => With(m, "idle")' = With(m, "idle") \cup Only(m, k, j)
                  /\ \A u \in Live \ {"idle", "counting"} : With(m, u)' = With(m, u)
    <3>1. "counting" \in Live /\ "idle" # "counting"
      BY DEF Live
    <3>2. worker'[w].task = IF "idle" = "idle" THEN NoTask ELSE worker[w].task
      BY <2>2
    <3> QED
      BY <1>1, <2>2, <3>1, <3>2, HolderMoves
  <2>4. \A m \in Layers :
          /\ Waiting(m)' = Waiting(m)
          /\ With(m, "reading")' = With(m, "reading")
          /\ With(m, "counting")' = With(m, "counting") \ Only(m, l, i)
          /\ With(m, "publishing")' = With(m, "publishing")
    <3>1. PICK k \in Layers : \E j \in Parts(k) :
             /\ t = PartTask(k, j)
             /\ \A m \in Layers :
                  /\ Waiting(m)' = Waiting(m)
                  /\ With(m, "reading")' = With(m, "reading")
                  /\ With(m, "counting")' = With(m, "counting") \ Only(m, k, j)
                  /\ With(m, "publishing")' = With(m, "publishing")
      BY <2>3 DEF Live
    <3>2. PICK j \in Parts(k) :
             /\ t = PartTask(k, j)
             /\ \A m \in Layers :
                  /\ Waiting(m)' = Waiting(m)
                  /\ With(m, "reading")' = With(m, "reading")
                  /\ With(m, "counting")' = With(m, "counting") \ Only(m, k, j)
                  /\ With(m, "publishing")' = With(m, "publishing")
      BY <3>1
    <3>3. PartTask(k, j) = PartTask(l, i)
      BY <1>3, <3>2
    <3>4. k = l /\ j = i
      BY <3>3, PartTaskFacts
    <3> QED
      BY <3>2, <3>4
  <2>5. /\ (Outstanding(l))' = Outstanding(l) \ {i}
        /\ \A m \in Layers \ {l} : (Outstanding(m))' = Outstanding(m)
    <3>1. i \notin Waiting(l) /\ i \notin With(l, "reading")
      BY <1>3, OnePlace
    <3> QED
      BY <2>4, <3>1 DEF Outstanding, Only
  <2>6. (Outstanding(l))' # {}
    <3>1. Cardinality(Outstanding(l) \ {i}) # 0
      BY <1>6, <1>7, <1>10, OutstandingIsFinite
    <3> QED
      BY <2>5, <3>1, FS_EmptySet
  <2>7. Counted'
    <3>1. \A m \in Layers : remaining'[m] = Cardinality((Outstanding(m))')
      <4>1. l \in Loads /\ Layers \subseteq Loads
        BY LoaderAssumption
      <4>2. remaining'[l] = Cardinality((Outstanding(l))')
        BY <1>6, <1>7, <1>8, <2>5, <4>1
      <4>3. ASSUME NEW m \in Layers \ {l}
            PROVE  remaining'[m] = Cardinality((Outstanding(m))')
        <5>1. remaining'[m] = remaining[m]
          BY <1>8, <4>1
        <5>2. (Outstanding(m))' = Outstanding(m)
          BY <2>5
        <5> QED
          BY <5>1, <5>2, Zenon DEF Counted
      <4> QED
        BY <4>2, <4>3
    <3> QED
      BY <3>1 DEF Counted
  <2>8. LastPublishes'
    BY <1>5, <2>4, <2>5 DEF LastPublishes
  <2>9. \A m \in Layers : Underway(m)' <=> Underway(m)
    BY <1>5, <2>4, <2>5, <2>6 DEF Underway
  <2> QED
    BY <1>8, <2>2, <2>3, <2>4, <2>7, <2>8, <2>9
<1> QED
  BY <1>9, <1>10

(* The last chunk's worker ends the load and publishes it. *)
LEMMA PublishOnLoads ==
  ASSUME Chunks, NEW w \in Workers, Publish(w)
  PROVE  /\ Chunks'
         /\ \E l \in Layers :
              /\ Underway(l) /\ ~Underway(l)'
              /\ \A m \in Layers \ {l} : Underway(m)' <=> Underway(m)
              /\ layer_status' = [layer_status EXCEPT ![l] = "Loaded"]
              /\ Outstanding(l) = {}
         /\ \A m \in Layers : Waiting(m)' = Waiting(m) /\ With(m, "reading")' = With(m, "reading")
<1> USE DEF Chunks
<1>1. /\ worker[w].pc = "publishing" /\ chan' = chan /\ remaining' = remaining
      /\ worker' = [worker EXCEPT ![w] = [pc |-> "idle", task |-> NoTask]]
      /\ layer_status' = [layer_status EXCEPT ![worker[w].task.layer] = "Loaded"]
  BY DEF Publish, PublishLoaded
<1>2. /\ worker'[w].pc = "idle" /\ worker'[w].task = NoTask
      /\ \A v \in Workers : v # w => worker'[v] = worker[v]
      /\ PoolTyped'
  BY <1>1, WorkerWritten DEF PoolTyped
<1>3. /\ TasksAreParts' /\ OneTaskPerPart'
      /\ \E k \in Layers : \E j \in Parts(k) :
           /\ worker[w].task = PartTask(k, j) /\ j \in With(k, "publishing")
           /\ \A m \in Layers :
                /\ Waiting(m)' = Waiting(m)
                /\ With(m, "publishing")' = With(m, "publishing") \ Only(m, k, j)
                /\ "idle" # "idle" => With(m, "idle")' = With(m, "idle") \cup Only(m, k, j)
                /\ \A u \in Live \ {"idle", "publishing"} : With(m, u)' = With(m, u)
  <2>1. "publishing" \in Live /\ "idle" # "publishing"
    BY DEF Live
  <2>2. worker'[w].task = IF "idle" = "idle" THEN NoTask ELSE worker[w].task
    BY <1>2
  <2> QED
    BY <1>1, <1>2, <2>1, <2>2, HolderMoves
<1>4. PICK l \in Layers : \E j \in Parts(l) :
         /\ worker[w].task = PartTask(l, j) /\ j \in With(l, "publishing")
         /\ \A m \in Layers :
              /\ Waiting(m)' = Waiting(m)
              /\ With(m, "reading")' = With(m, "reading")
              /\ With(m, "counting")' = With(m, "counting")
              /\ With(m, "publishing")' = With(m, "publishing") \ Only(m, l, j)
  BY <1>3 DEF Live
<1>5. PICK i \in Parts(l) :
         /\ worker[w].task = PartTask(l, i) /\ i \in With(l, "publishing")
         /\ \A m \in Layers :
              /\ Waiting(m)' = Waiting(m)
              /\ With(m, "reading")' = With(m, "reading")
              /\ With(m, "counting")' = With(m, "counting")
              /\ With(m, "publishing")' = With(m, "publishing") \ Only(m, l, i)
  BY <1>4
<1>6. Outstanding(l) = {} /\ With(l, "publishing") = {i}
  BY <1>5 DEF LastPublishes
<1>7. \A m \in Layers : (Outstanding(m))' = Outstanding(m)
  BY <1>5 DEF Outstanding
<1>8. With(l, "publishing")' = {}
      /\ \A m \in Layers \ {l} : With(m, "publishing")' = With(m, "publishing")
  <2>1. \A m \in Layers : With(m, "publishing")' = With(m, "publishing") \ Only(m, l, i)
    BY <1>5
  <2>2. Only(l, l, i) = {i} /\ \A m \in Layers \ {l} : Only(m, l, i) = {}
    BY DEF Only
  <2>3. With(l, "publishing")' = With(l, "publishing") \ Only(l, l, i)
    BY <2>1
  <2>4. With(l, "publishing")' = {}
    BY <1>6, <2>2, <2>3
  <2>5. ASSUME NEW m \in Layers \ {l}
        PROVE  With(m, "publishing")' = With(m, "publishing")
    <3>1. With(m, "publishing")' = With(m, "publishing") \ Only(m, l, i)
      BY <2>1
    <3>2. Only(m, l, i) = {}
      BY <2>2
    <3> HIDE DEF With, Only
    <3> QED
      BY <3>1, <3>2
  <2> QED
    BY <2>4, <2>5
<1>9. Counted' /\ LastPublishes'
  <2>1. Counted'
    BY <1>1, <1>7 DEF Counted
  <2>2. LastPublishes'
    BY <1>7, <1>8 DEF LastPublishes
  <2> QED
    BY <2>1, <2>2
<1>10. Underway(l) /\ ~Underway(l)' /\ \A m \in Layers \ {l} : Underway(m)' <=> Underway(m)
  BY <1>6, <1>7, <1>8 DEF Underway
<1>11. layer_status' = [layer_status EXCEPT ![l] = "Loaded"]
  <2>1. worker[w].task.layer = l
    BY <1>5, PartTaskFacts
  <2> QED
    BY <1>1, <2>1
<1> QED
  BY <1>2, <1>3, <1>5, <1>6, <1>9, <1>10, <1>11

(* A worker that stops touches no load. *)
LEMMA ExitOnLoads ==
  ASSUME Chunks, NEW w \in Workers, Exit(w)
  PROVE  /\ Chunks' /\ \A l \in Layers : Underway(l)' <=> Underway(l)
         /\ \A m \in Layers : Waiting(m)' = Waiting(m) /\ With(m, "reading")' = With(m, "reading")
<1> USE DEF Chunks
<1>1. /\ \A m \in Layers : Waiting(m)' = Waiting(m)
      /\ \A m \in Layers : \A u \in Live : With(m, u)' = With(m, u)
      /\ PoolTyped' /\ TasksAreParts' /\ OneTaskPerPart'
  BY ExitMoves
<1>2. \A m \in Layers :
        /\ With(m, "reading")' = With(m, "reading")
        /\ With(m, "publishing")' = With(m, "publishing")
        /\ (Outstanding(m))' = Outstanding(m)
  BY <1>1 DEF Outstanding, Live
<1>3. remaining' = remaining
  BY DEF Exit
<1>4. Counted'
  BY <1>2, <1>3 DEF Counted
<1>5. LastPublishes'
  BY <1>2 DEF LastPublishes
<1> QED
  BY <1>1, <1>2, <1>4, <1>5 DEF Underway

(* A step that touches neither the channel, the workers nor the counters. *)
LEMMA NothingOnLoads ==
  ASSUME chan' = chan, worker' = worker, remaining' = remaining
  PROVE  /\ Chunks => Chunks'
         /\ \A l \in Layers : Underway(l)' <=> Underway(l)
         /\ \A m \in Layers : Waiting(m)' = Waiting(m) /\ With(m, "reading")' = With(m, "reading")
BY NothingMoves DEF Chunks, Counted, LastPublishes, Underway

(* submit_layer_load puts an idle layer under way. *)
LEMMA SubmitOnLoads ==
  ASSUME Chunks, remaining \in [Loads -> Nat], NEW l \in Layers, IdleLoad(l),
         pool_open, NumParts[l] > 0, SubmitLayerLoad(l)
  PROVE  /\ Chunks' /\ remaining' \in [Loads -> Nat]
         /\ \A m \in Layers : Underway(m)' <=> m = l \/ Underway(m)
         /\ \A m \in Layers : /\ Waiting(m)' = IF m = l THEN Parts(l) ELSE Waiting(m)
                              /\ With(m, "reading")' = With(m, "reading")
<1> USE DEF Chunks
<1>1. NumParts[l] \in Nat /\ NumParts[l] # 0
  BY LoaderAssumption
<1>2. /\ chan' = chan \o LoadTasks(l) /\ worker' = worker
      /\ remaining' = [remaining EXCEPT ![l] = Len(LoadTasks(l))]
  BY <1>1 DEF SubmitLayerLoad, Send
<1>3. /\ PoolTyped' /\ TasksAreParts' /\ OneTaskPerPart'
      /\ \A m \in Layers : Waiting(m)' = IF m = l THEN Parts(l) ELSE Waiting(m)
      /\ \A m \in Layers : \A u \in Live : With(m, u)' = With(m, u)
      /\ \A u \in Live : With(l, u) = {}
  BY <1>2, SendMoves
<1>4. \A m \in Layers :
        /\ With(m, "reading")' = With(m, "reading")
        /\ With(m, "counting")' = With(m, "counting")
        /\ With(m, "publishing")' = With(m, "publishing")
  BY <1>3 DEF Live
<1>5. With(l, "reading") = {} /\ With(l, "counting") = {} /\ With(l, "publishing") = {}
  BY <1>3 DEF Live
<1>6. (Outstanding(l))' = Parts(l) /\ \A m \in Layers \ {l} : (Outstanding(m))' = Outstanding(m)
  <2>1. (Outstanding(l))' = Parts(l)
    BY <1>3, <1>4, <1>5 DEF Outstanding
  <2>2. \A m \in Layers \ {l} : (Outstanding(m))' = Outstanding(m)
    BY <1>3, <1>4 DEF Outstanding
  <2> QED
    BY <2>1, <2>2
<1>7. remaining' \in [Loads -> Nat] /\ remaining'[l] = NumParts[l]
      /\ \A m \in Layers \ {l} : remaining'[m] = remaining[m]
  BY <1>1, <1>2, LoadTasksFacts, LoaderAssumption
<1>8. Counted'
  <2>1. \A m \in Layers : remaining'[m] = Cardinality((Outstanding(m))')
    BY <1>6, <1>7, OutstandingIsFinite DEF Counted
  <2> QED
    BY <2>1 DEF Counted
<1>9. LastPublishes'
  BY <1>4, <1>5, <1>6 DEF LastPublishes
<1>10. Parts(l) # {}
  <2>1. 1 \in 1..NumParts[l]
    BY <1>1
  <2> QED
    BY <2>1 DEF Parts
<1>11. \A m \in Layers : Underway(m)' <=> m = l \/ Underway(m)
  BY <1>4, <1>6, <1>10 DEF Underway
<1> QED
  BY <1>3, <1>4, <1>7, <1>8, <1>9, <1>11

-----------------------------------------------------------------------------
(* What the steps of the compute thread do. *)

(* The type invariant is the loader's and the pool's. *)
LEMMA TypeByParts == TypeOK <=> LoaderTyped /\ PoolTyped
BY DEF TypeOK, LoaderTyped, PoolTyped, Tasks

(* What the proofs need to know of the layers' indices. *)
LEMMA LayersAreNumbers ==
  /\ Layers \subseteq Nat /\ 0 \in Layers /\ -1 \notin Layers
  /\ \A l \in Layers : l + 1 < NumLayers => l + 1 \in Layers
  /\ IsFiniteSet(Layers)
<1>1. Layers = 0..(NumLayers - 1) /\ NumLayers \in Nat \ {0}
  BY LoaderAssumption
<1>2. IsFiniteSet(0..(NumLayers - 1))
  BY <1>1, FS_Interval
<1> QED
  BY <1>1, <1>2

(* The lists of layers the code goes through. *)
LEMMA ListsOfLayers ==
  /\ SortedNvme \in Seq(Layers)
  /\ \A n \in Int : layer \in Layers => Targets(n) \in Seq(Layers)
  /\ SetToSeq(RamLayers) \in Seq(Layers)
  /\ \A l \in RamLayers : \E k \in 1..Len(SetToSeq(RamLayers)) : SetToSeq(RamLayers)[k] = l
<1>1. \A S \in SUBSET Layers : IsFiniteSet(S) /\ S \in SUBSET Nat
  BY LayersAreNumbers, FS_Subset
<1>2. \A S \in SUBSET Layers : Ascending(S) \in Seq(Layers)
  <2> TAKE S \in SUBSET Layers
  <2>1. Ascending(S) \in Seq(S)
    BY <1>1, AscendingLists
  <2> QED
    BY <2>1, SeqMonotonic
<1>3. NvmeLayers \in SUBSET Layers /\ RamLayers \in SUBSET Layers
  BY LoaderAssumption DEF RamLayers
<1>4. \A n \in Int : {t \in NvmeLayers : layer + 2 <= t /\ t <= layer + n} \in SUBSET Layers
  BY <1>3
<1>5. SortedNvme \in Seq(Layers) /\ \A n \in Int : Targets(n) \in Seq(Layers)
  BY <1>2, <1>3, <1>4, Zenon DEF SortedNvme, Targets
<1>6. SetToSeq(RamLayers) \in Seq(RamLayers)
      /\ \A l \in RamLayers : \E k \in 1..Len(SetToSeq(RamLayers)) : SetToSeq(RamLayers)[k] = l
  BY <1>1, <1>3, SetToSeqLists
<1>7. SetToSeq(RamLayers) \in Seq(Layers)
  BY <1>3, <1>6, SeqMonotonic
<1> QED
  BY <1>5, <1>6, <1>7

(* A step that leaves the pool as it is and is not about a submission:     *)
(* the loads and their statuses are as before.                             *)
LEMMA PlainStep ==
  ASSUME IInv, UNCHANGED <<layer_status, pool_open, chan, remaining, worker>>,
         pc \notin {"submit", "prefetch_submit"}, pc' \notin {"submit", "prefetch_submit"},
         pc \notin {"join", "done"}, pc' \notin {"join", "done"}
  PROVE  Chunks' /\ LoadingIsLive' /\ PoolState'
<1>1. Chunks' /\ \A l \in Layers : Underway(l)' <=> Underway(l)
  BY NothingOnLoads DEF IInv
<1>2. LoadingIsLive'
  BY <1>1 DEF IInv, LoadingIsLive, Submitting
<1>3. PoolState'
  BY DEF IInv, PoolState, AllExited
<1> QED
  BY <1>1, <1>2, <1>3

(* The step that ends a round of prefetches keeps the invariant. *)
LEMMA PrefetchDoneKeeps ==
  ASSUME IInv, PrefetchDone, residency' = residency
  PROVE  IInv'
<1> USE DEF PrefetchDone, poolVars
<1>1. ret \in {"preload_wait", "boundary", "ask", "advance"} /\ pc = "prefetch" /\ pc' = ret
  BY DEF IInv, LoaderTyped
<1>2. Chunks' /\ LoadingIsLive' /\ PoolState'
  BY <1>1, PlainStep
<1>3. LoaderTyped'
  <2>1. todo' \in Seq(Layers)
    BY ListsOfLayers, EmptySeq
  <2> QED
    BY <1>1, <2>1 DEF IInv, LoaderTyped, PCs
<1>4. Flow'
  BY <1>1 DEF IInv, Flow, Inside, CallbackOn
<1>5. Preloading'
  <2>1. RamLayers' = RamLayers
    BY DEF RamLayers
  <2>2. CASE ret = "preload_wait"
    BY <1>1, <2>1, <2>2, ListsOfLayers DEF IInv, Preloading
  <2>3. CASE ret # "preload_wait"
    BY <1>1, <2>1, <2>3 DEF IInv, Preloading
  <2> QED
    BY <2>2, <2>3
<1> QED
  BY <1>2, <1>3, <1>4, <1>5 DEF IInv

(* Waiting for a preloaded layer keeps the invariant. *)
LEMMA PreloadWaitKeeps ==
  ASSUME IInv, PreloadWait, residency' = residency
  PROVE  IInv'
<1> USE DEF PreloadWait, PreloadUntil, poolVars
<1>1. pc = "preload_wait" /\ ret = "preload_wait" /\ residency = "preloaded" /\ passes = 0
      /\ todo \in Seq(Layers)
  BY DEF IInv, Preloading, LoaderTyped
<1>2. RamLayers' = RamLayers
  BY DEF RamLayers
<1>3. CASE todo = <<>>
  <2>1. Chunks' /\ LoadingIsLive' /\ PoolState'
    BY <1>1, <1>3, PlainStep
  <2>2. LoaderTyped'
    BY <1>1, <1>3, ListsOfLayers DEF IInv, LoaderTyped, PCs
  <2>3. Flow'
    BY <1>1, <1>3 DEF IInv, Flow, Inside, CallbackOn
  <2>4. \A l \in RamLayers : layer_status[l] = "Loaded"
    <3>1. Len(todo) = 0
      BY <1>3
    <3> QED
      BY <1>1, <3>1 DEF IInv, Preloading
  <2>5. Preloading'
    BY <1>1, <1>2, <1>3, <2>4 DEF Preloading
  <2> QED
    BY <2>1, <2>2, <2>3, <2>5 DEF IInv
<1>4. CASE todo # <<>> /\ layer_status[Head(todo)] = "Loaded"
  <2>1. /\ todo' = Tail(todo)
        /\ UNCHANGED <<poolVars, pc, layer, node, current_layer, prev, ret, passes>>
    BY <1>1, <1>4
  <2>2. /\ todo' \in Seq(Layers) /\ Len(todo') = Len(todo) - 1 /\ Len(todo) \in Nat
        /\ \A k \in 1..Len(todo') : todo'[k] = todo[k + 1]
    BY <1>1, <1>4, <2>1, HeadTailProperties, LenProperties
  <2>3. Chunks' /\ LoadingIsLive' /\ PoolState'
    BY <1>1, <2>1, PlainStep
  <2>4. LoaderTyped'
    BY <2>1, <2>2 DEF IInv, LoaderTyped
  <2>5. Flow'
    BY <1>1, <2>1 DEF IInv, Flow, Inside, CallbackOn
  <2>6. \A l \in RamLayers : layer_status[l] = "Loaded" \/ \E k \in 1..Len(todo') : todo'[k] = l
    <3> TAKE l \in RamLayers
    <3>1. CASE \E k \in 1..Len(todo) : todo[k] = l
      <4>1. PICK k \in 1..Len(todo) : todo[k] = l
        BY <3>1
      <4>2. CASE k = 1
        BY <1>1, <1>4, <4>1, <4>2
      <4>3. CASE k # 1
        <5>1. k - 1 \in 1..Len(todo') /\ (k - 1) + 1 = k
          BY <2>2, <4>3
        <5> QED
          BY <2>2, <4>1, <5>1
      <4> QED
        BY <4>2, <4>3
    <3> QED
      BY <1>1, <3>1 DEF IInv, Preloading
  <2>7. Preloading'
    BY <1>1, <1>2, <2>1, <2>6 DEF Preloading
  <2> QED
    BY <2>3, <2>4, <2>5, <2>7 DEF IInv
<1>5. CASE todo # <<>> /\ layer_status[Head(todo)] # "Loaded"
  <2>1. parked' = TRUE /\ UNCHANGED <<layer_status, pool_open, chan, remaining, worker, mem, loaderVars>>
    BY <1>1, <1>5 DEF Park
  <2> QED
    BY <1>1, <2>1, PlainStep
    DEF IInv, LoaderTyped, Flow, Preloading, Inside, CallbackOn, RamLayers, loaderVars
<1> QED
  BY <1>3, <1>4, <1>5

(* The rest of the steps that only move the compute thread on. *)
LEMMA ControlKeeps ==
  ASSUME IInv, residency' = residency,
         StartPass \/ Finish \/ Await \/ Compute \/ Post \/ Advance
  PROVE  IInv'
<1> USE DEF poolVars, IInv
<1>1. RamLayers' = RamLayers
  BY DEF RamLayers
<1>2. CASE StartPass
  <2> USE DEF StartPass
  <2>1. Chunks' /\ LoadingIsLive' /\ PoolState'
    BY <1>2, PlainStep
  <2>2. LoaderTyped'
    <3>1. passes' \in 0..MaxPasses
      BY <1>2, LoaderAssumption DEF LoaderTyped
    <3>2. node' \in 1..NodesPerLayer
      BY <1>2, LoaderAssumption
    <3> QED
      BY <1>2, <3>1, <3>2, ListsOfLayers, LayersAreNumbers DEF LoaderTyped, PCs
  <2>3. Flow'
    BY <1>2 DEF Flow, Inside, CallbackOn
  <2>4. Preloading'
    BY <1>1, <1>2 DEF Preloading
  <2> QED
    BY <2>1, <2>2, <2>3, <2>4
<1>3. CASE Finish
  <2> USE DEF Finish
  <2>1. Chunks' /\ LoadingIsLive' /\ PoolState'
    BY <1>3, PlainStep
  <2> QED
    BY <1>1, <1>3, <2>1 DEF LoaderTyped, PCs, Flow, Inside, CallbackOn, Preloading
<1>4. CASE Await
  <2> USE DEF Await
  <2>1. CASE layer_status[layer] = "Loaded"
    <3>1. Chunks' /\ LoadingIsLive' /\ PoolState'
      BY <1>4, <2>1, PlainStep
    <3> QED
      BY <1>1, <1>4, <2>1, <3>1 DEF LoaderTyped, PCs, Flow, Inside, CallbackOn, Preloading
  <2>2. CASE layer_status[layer] # "Loaded"
    <3>1. parked' = TRUE /\ UNCHANGED <<layer_status, pool_open, chan, remaining, worker, mem, loaderVars>>
      BY <1>4, <2>2 DEF Park
    <3>2. Chunks' /\ LoadingIsLive' /\ PoolState'
      BY <1>4, <3>1, PlainStep DEF loaderVars
    <3> QED
      BY <1>1, <1>4, <3>1, <3>2
      DEF LoaderTyped, Flow, Inside, CallbackOn, Preloading, loaderVars
  <2> QED
    BY <2>1, <2>2
<1>5. CASE Compute
  <2> USE DEF Compute
  <2>1. Chunks' /\ LoadingIsLive' /\ PoolState'
    BY <1>5, PlainStep
  <2> QED
    BY <1>1, <1>5, <2>1 DEF LoaderTyped, PCs, Flow, Inside, CallbackOn, Preloading
<1>6. CASE Post
  <2> USE DEF Post
  <2>1. Chunks' /\ LoadingIsLive' /\ PoolState'
    BY <1>6, PlainStep
  <2>2. CallbackOn(layer) /\ layer_status[layer] = "Loaded"
    BY <1>6 DEF Flow, Inside
  <2>3. LoaderTyped'
    BY <1>6 DEF LoaderTyped, PCs
  <2>4. pc' = "release" => /\ prev' \in Layers /\ prev' < layer' /\ NumParts[prev'] > 0
                           /\ layer_status'[prev'] = "Loaded"
    BY <1>6, LayersAreNumbers DEF LoaderTyped, Flow
  <2>5. Flow'
    BY <1>6, <2>2, <2>4, LayersAreNumbers DEF LoaderTyped, Flow, Inside, CallbackOn
  <2>6. Preloading'
    BY <1>1, <1>6 DEF Preloading
  <2> QED
    BY <2>1, <2>3, <2>5, <2>6
<1>7. CASE Advance
  <2> USE DEF Advance
  <2>1. Chunks' /\ LoadingIsLive' /\ PoolState'
    BY <1>7, PlainStep
  <2>2. LoaderTyped'
    <3>1. node' \in 1..NodesPerLayer
      <4>1. node \in 1..NodesPerLayer /\ NodesPerLayer \in Nat \ {0}
        BY LoaderAssumption DEF LoaderTyped
      <4> QED
        BY <1>7, <4>1
    <3>2. layer' \in Layers
      BY <1>7, LayersAreNumbers DEF LoaderTyped
    <3> QED
      BY <1>7, <3>1, <3>2 DEF LoaderTyped, PCs
  <2>3. Flow'
    BY <1>7 DEF Flow, Inside, CallbackOn
  <2>4. Preloading'
    BY <1>1, <1>7 DEF Preloading
  <2> QED
    BY <2>1, <2>2, <2>3, <2>4
<1> QED
  BY <1>2, <1>3, <1>4, <1>5, <1>6, <1>7

(* The decision to load: only a layer NotLoaded becomes Loading, and its   *)
(* tasks are the next thing the compute thread sends.                      *)
LEMMA SetLoadingKeeps ==
  ASSUME IInv, NEW l \in Layers, SetLoading(l), layer_status[l] = "NotLoaded",
         pc \in {"prefetch", "ask"}, residency' = residency,
         \/ pc' = "submit" /\ layer' = l
         \/ pc' = "prefetch_submit" /\ todo # <<>> /\ Head(todo) = l,
         UNCHANGED <<layer, node, current_layer, prev, todo, ret, passes>>
  PROVE  /\ Chunks' /\ LoadingIsLive' /\ PoolState'
         /\ layer_status' \in [Layers -> LayerStatus]
         /\ \A m \in Layers : layer_status[m] = "Loaded" => layer_status'[m] = "Loaded"
<1>1. Chunks' /\ \A m \in Layers : Underway(m)' <=> Underway(m)
  BY NothingOnLoads DEF IInv, SetLoading
<1>2. /\ layer_status' \in [Layers -> LayerStatus] /\ layer_status'[l] = "Loading"
      /\ \A m \in Layers : m # l => layer_status'[m] = layer_status[m]
  BY DEF IInv, LoaderTyped, SetLoading, LayerStatus
<1>3. \A m \in Layers : ~Submitting(m) /\ (Submitting(m)' <=> m = l)
  BY DEF Submitting
<1>4. ~Underway(l)
  BY DEF IInv, LoadingIsLive
<1>5. LoadingIsLive'
  BY <1>1, <1>2, <1>3, <1>4 DEF IInv, LoadingIsLive
<1>6. PoolState'
  BY DEF IInv, PoolState, SetLoading, AllExited
<1> QED
  BY <1>1, <1>2, <1>5, <1>6

(* request_prefetch's look at the status keeps the invariant. *)
LEMMA RequestPrefetchKeeps ==
  ASSUME IInv, RequestPrefetch, residency' = residency
  PROVE  IInv'
<1> USE DEF RequestPrefetch, RequestUnless
<1> DEFINE l == Head(todo)
<1>1. pc = "prefetch" /\ todo \in Seq(Layers) /\ todo # <<>>
      /\ UNCHANGED <<layer, node, current_layer, prev, ret, passes>>
  BY DEF IInv, LoaderTyped
<1>2. l \in Layers /\ Tail(todo) \in Seq(Layers)
  BY <1>1, HeadTailProperties
<1>3. RamLayers' = RamLayers
  BY DEF RamLayers
<1>4. CASE layer_status[l] \in {"Loaded", "Loading"}
  <2>1. todo' = Tail(todo) /\ UNCHANGED <<pc, poolVars>>
    BY <1>4
  <2>2. Chunks' /\ LoadingIsLive' /\ PoolState'
    BY <1>1, <2>1, PlainStep DEF poolVars
  <2>3. LoaderTyped'
    BY <1>1, <1>2, <2>1 DEF IInv, LoaderTyped, poolVars
  <2>4. Flow' /\ Preloading'
    BY <1>1, <1>3, <2>1 DEF IInv, Flow, Preloading, Inside, CallbackOn, poolVars
  <2> QED
    BY <2>2, <2>3, <2>4 DEF IInv
<1>5. CASE layer_status[l] \notin {"Loaded", "Loading"}
  <2>1. SetLoading(l) /\ pc' = "prefetch_submit" /\ todo' = todo
    BY <1>5
  <2>2. layer_status[l] = "NotLoaded"
    BY <1>2, <1>5 DEF IInv, LoaderTyped, LayerStatus
  <2>3. /\ Chunks' /\ LoadingIsLive' /\ PoolState'
        /\ layer_status' \in [Layers -> LayerStatus]
        /\ \A m \in Layers : layer_status[m] = "Loaded" => layer_status'[m] = "Loaded"
    BY <1>1, <1>2, <2>1, <2>2, SetLoadingKeeps
  <2>4. LoaderTyped'
    BY <1>1, <2>1, <2>3 DEF IInv, LoaderTyped, PCs, SetLoading
  <2>5. Flow'
    BY <1>1, <2>1, <2>3, LayersAreNumbers DEF IInv, LoaderTyped, Flow, Inside, CallbackOn
  <2>6. Preloading'
    BY <1>1, <1>3, <2>1, <2>3 DEF IInv, Preloading, RamLayers
  <2> QED
    BY <2>3, <2>4, <2>5, <2>6 DEF IInv
<1> QED
  BY <1>4, <1>5

(* The callback before a node keeps the invariant. *)
LEMMA AskKeeps ==
  ASSUME IInv, Ask, residency' = residency
  PROVE  IInv'
<1> USE DEF Ask
<1>1. pc = "ask" /\ layer \in Layers
  BY DEF IInv, LoaderTyped
<1>2. RamLayers' = RamLayers
  BY DEF RamLayers
<1>3. CASE CallbackOn(layer) /\ layer_status[layer] = "Loading"
  <2>1. parked' = TRUE /\ UNCHANGED <<layer_status, pool_open, chan, remaining, worker, mem, loaderVars>>
    BY <1>3 DEF Park
  <2>2. Chunks' /\ LoadingIsLive' /\ PoolState'
    BY <1>1, <2>1, PlainStep DEF loaderVars
  <2> QED
    BY <1>1, <1>2, <2>1, <2>2
    DEF IInv, LoaderTyped, Flow, Inside, CallbackOn, Preloading, loaderVars
<1>4. CASE CallbackOn(layer) /\ layer_status[layer] = "NotLoaded"
  <2>1. /\ SetLoading(layer) /\ pc' = "submit"
        /\ UNCHANGED <<layer, node, current_layer, prev, todo, ret, passes>>
    BY <1>4
  <2>2. /\ Chunks' /\ LoadingIsLive' /\ PoolState'
        /\ layer_status' \in [Layers -> LayerStatus]
        /\ \A m \in Layers : layer_status[m] = "Loaded" => layer_status'[m] = "Loaded"
    BY <1>1, <1>4, <2>1, SetLoadingKeeps
  <2>3. LoaderTyped'
    BY <1>1, <2>1, <2>2 DEF IInv, LoaderTyped, PCs, SetLoading
  <2>4. Flow'
    BY <1>1, <1>4, <2>1, <2>2, LayersAreNumbers DEF IInv, LoaderTyped, Flow, Inside, CallbackOn
  <2>5. Preloading'
    BY <1>1, <1>2, <2>1, <2>2 DEF IInv, Preloading, RamLayers
  <2> QED
    BY <2>2, <2>3, <2>4, <2>5 DEF IInv
<1>5. CASE ~CallbackOn(layer) \/ layer_status[layer] = "Loaded"
  <2>1. /\ UNCHANGED poolVars /\ pc' = "compute"
        /\ UNCHANGED <<layer, node, current_layer, prev, todo, ret, passes>>
    BY <1>5
  <2>2. Chunks' /\ LoadingIsLive' /\ PoolState'
    BY <1>1, <2>1, PlainStep DEF poolVars
  <2> QED
    BY <1>1, <1>2, <1>5, <2>1, <2>2
    DEF IInv, LoaderTyped, PCs, Flow, Inside, CallbackOn, Preloading, poolVars
<1> QED
  BY <1>1, <1>3, <1>4, <1>5 DEF IInv, LoaderTyped, LayerStatus

(* submit_layer_load at its two call sites: the layer was set Loading and  *)
(* nothing of it is anywhere, so its chunks are each sent once; a layer    *)
(* without chunks is published at once.                                    *)
LEMMA SubmissionKeeps ==
  ASSUME IInv, NEW l \in Layers, SubmitLayerLoad(l), residency' = residency,
         \/ pc = "submit" /\ layer = l /\ NumParts[l] > 0 /\ pc' = "await" /\ todo' = todo
         \/ pc = "prefetch_submit" /\ Head(todo) = l /\ pc' = "prefetch" /\ todo' = Tail(todo),
         UNCHANGED <<layer, node, current_layer, prev, ret, passes>>
  PROVE  IInv'
<1>1. pool_open /\ NumParts[l] \in Nat
  BY LoaderAssumption DEF IInv, PoolState
<1>2. /\ \A m \in Layers : Submitting(m) <=> m = l
      /\ \A m \in Layers : ~Submitting(m)'
  BY DEF Submitting
<1>3. layer_status[l] = "Loading" /\ ~Underway(l)
  BY <1>2 DEF IInv, LoadingIsLive
<1>4. IdleLoad(l)
  BY <1>3, IdleMeansNowhere DEF IInv, Chunks
<1>5. /\ Chunks' /\ LoadingIsLive' /\ PoolState'
      /\ parked' \in BOOLEAN /\ pool_open' = pool_open /\ mem' = mem
      /\ remaining' \in [Loads -> Nat]
      /\ layer_status' \in [Layers -> LayerStatus]
      /\ \A m \in Layers : layer_status[m] = "Loaded" => layer_status'[m] = "Loaded"
  <2>1. CASE NumParts[l] = 0
    <3>1. /\ layer_status' = [layer_status EXCEPT ![l] = "Loaded"] /\ parked' = FALSE
          /\ UNCHANGED <<pool_open, chan, remaining, worker, mem>>
      BY <2>1 DEF SubmitLayerLoad, PublishLoaded
    <3>2. Chunks' /\ \A m \in Layers : Underway(m)' <=> Underway(m)
      BY <3>1, NothingOnLoads DEF IInv
    <3>3. /\ layer_status' \in [Layers -> LayerStatus] /\ layer_status'[l] = "Loaded"
          /\ \A m \in Layers : m # l => layer_status'[m] = layer_status[m]
      BY <3>1 DEF IInv, LoaderTyped, LayerStatus
    <3>4. LoadingIsLive'
      BY <1>2, <1>3, <3>2, <3>3 DEF IInv, LoadingIsLive
    <3>5. PoolState'
      BY <3>1 DEF IInv, PoolState, AllExited
    <3> QED
      BY <3>1, <3>2, <3>3, <3>4, <3>5 DEF IInv, LoaderTyped
  <2>2. CASE NumParts[l] # 0
    <3>1. UNCHANGED <<layer_status, parked, pool_open, worker, mem>>
      BY <1>1, <2>2 DEF SubmitLayerLoad
    <3>2. /\ Chunks' /\ remaining' \in [Loads -> Nat]
          /\ \A m \in Layers : Underway(m)' <=> m = l \/ Underway(m)
      BY <1>1, <1>4, <2>2, SubmitOnLoads DEF IInv, LoaderTyped
    <3>3. LoadingIsLive'
      BY <1>2, <1>3, <3>1, <3>2 DEF IInv, LoadingIsLive
    <3>4. PoolState'
      BY <1>1, <3>1 DEF IInv, PoolState, AllExited
    <3> QED
      BY <3>1, <3>2, <3>3, <3>4 DEF IInv, LoaderTyped
  <2> QED
    BY <2>1, <2>2
<1>6. LoaderTyped'
  <2>1. todo' \in Seq(Layers)
    BY HeadTailProperties DEF IInv, LoaderTyped, Flow
  <2> QED
    BY <1>5, <2>1 DEF IInv, LoaderTyped, PCs
<1>7. Flow'
  BY <1>5, LayersAreNumbers DEF IInv, LoaderTyped, Flow, Inside, CallbackOn
<1>8. Preloading'
  BY <1>5 DEF IInv, Preloading, RamLayers
<1> QED
  BY <1>5, <1>6, <1>7, <1>8 DEF IInv

(* Sending a layer's tasks, for a wait or a prefetch, keeps the invariant. *)
LEMMA SubmitKeeps ==
  ASSUME IInv, Submit \/ PrefetchSubmit, residency' = residency
  PROVE  IInv'
<1>1. CASE Submit
  <2>1. layer \in Layers /\ NumParts[layer] > 0
    BY <1>1 DEF Submit, IInv, LoaderTyped, Flow, CallbackOn
  <2>2. PICK l \in Layers : l = layer
    BY <2>1
  <2> QED
    BY <1>1, <2>1, <2>2, SubmissionKeeps DEF Submit
<1>2. CASE PrefetchSubmit
  <2>1. Head(todo) \in Layers
    BY <1>2, HeadTailProperties DEF PrefetchSubmit, IInv, LoaderTyped, Flow
  <2>2. PICK l \in Layers : l = Head(todo)
    BY <2>1
  <2> QED
    BY <1>2, <2>2, SubmissionKeeps DEF PrefetchSubmit
<1> QED
  BY <1>1, <1>2

(* release_layer: first the pages, then the status. *)
LEMMA ReleaseKeeps ==
  ASSUME IInv, Release, residency' = residency
  PROVE  IInv'
<1> USE DEF Release, ReleaseOf
<1>1. Chunks' /\ LoadingIsLive' /\ PoolState'
  BY PlainStep
<1>2. mem' \in [Cells -> Data \cup {Empty}]
  BY DEF IInv, LoaderTyped
<1>3. LoaderTyped'
  BY <1>2 DEF IInv, LoaderTyped, PCs
<1>4. Flow'
  BY DEF IInv, Flow, Inside, CallbackOn
<1>5. Preloading'
  BY DEF IInv, Preloading, RamLayers
<1> QED
  BY <1>1, <1>3, <1>4, <1>5 DEF IInv

(* release_layer's reset of the status keeps the invariant. *)
LEMMA UnloadKeeps ==
  ASSUME IInv, Unload, residency' = residency
  PROVE  IInv'
<1> USE DEF Unload
<1>1. /\ pc = "unload" /\ prev \in Layers /\ prev < layer /\ layer_status[prev] = "Loaded"
      /\ layer \in Layers /\ CallbackOn(layer) /\ current_layer = layer
      /\ layer_status[layer] = "Loaded"
  BY DEF IInv, Flow, LoaderTyped, Inside
<1>2. prev # layer
  BY <1>1, LayersAreNumbers
<1>3. /\ layer_status' \in [Layers -> LayerStatus]
      /\ layer_status'[prev] \in {"Loaded", "NotLoaded"}
      /\ \A m \in Layers : m # prev => layer_status'[m] = layer_status[m]
  BY <1>1 DEF IInv, LoaderTyped, LayerStatus
<1>4. Chunks' /\ \A m \in Layers : Underway(m)' <=> Underway(m)
  BY NothingOnLoads DEF IInv
<1>5. \A m \in Layers : ~Submitting(m) /\ ~Submitting(m)'
  BY DEF Submitting
<1>6. ~Underway(prev)
  BY <1>1 DEF IInv, LoadingIsLive
<1>7. LoadingIsLive'
  BY <1>1, <1>3, <1>4, <1>5, <1>6 DEF IInv, LoadingIsLive
<1>8. PoolState'
  BY DEF IInv, PoolState, AllExited
<1>9. LoaderTyped'
  <2>1. todo' \in Seq(Layers)
    <3>1. PICK n \in Lookaheads : todo' = Targets(n)
      OBVIOUS
    <3>2. n \in Int
      BY LoaderAssumption
    <3> QED
      BY <1>1, <3>1, <3>2, ListsOfLayers
  <2> QED
    BY <1>3, <2>1 DEF IInv, LoaderTyped, PCs
<1>10. Flow'
  BY <1>1, <1>2, <1>3 DEF IInv, Flow, Inside, CallbackOn
<1>11. Preloading'
  BY <1>1 DEF IInv, Preloading, CallbackOn
<1> QED
  BY <1>4, <1>7, <1>8, <1>9, <1>10, <1>11 DEF IInv

(* stop_io_pool. *)
LEMMA StopKeeps ==
  ASSUME IInv, Stop \/ Join, residency' = residency
  PROVE  IInv'
<1> USE DEF Stop, Join, CloseChannel, poolVars
<1>1. Chunks' /\ \A m \in Layers : Underway(m)' <=> Underway(m)
  BY NothingOnLoads DEF IInv
<1>2. LoadingIsLive'
  BY <1>1 DEF IInv, LoadingIsLive, Submitting
<1>3. PoolState'
  BY DEF IInv, PoolState, AllExited
<1>4. LoaderTyped'
  BY DEF IInv, LoaderTyped, PCs
<1>5. Flow'
  BY DEF IInv, Flow, Inside, CallbackOn
<1>6. Preloading'
  BY DEF IInv, Preloading, RamLayers
<1> QED
  BY <1>1, <1>2, <1>3, <1>4, <1>5, <1>6 DEF IInv

-----------------------------------------------------------------------------
(* What a worker may change of the statuses: a load under way ends. *)
LEMMA WorkOnLoads ==
  ASSUME IInv, NEW w \in Workers, IoThread(w)
  PROVE  /\ Chunks'
         /\ layer_status' \in [Layers -> LayerStatus] /\ remaining' \in [Loads -> Nat]
         /\ mem' \in [Cells -> Data \cup {Empty}] /\ parked' \in BOOLEAN /\ pool_open' = pool_open
         /\ LoadingIsLive'
         /\ \A l \in Layers : layer_status[l] = "Loaded" => layer_status'[l] = "Loaded"
         /\ worker[w].pc # "exited"
         /\ \A v \in Workers : worker'[v].pc = "exited" =>
              worker[v].pc = "exited" \/ (chan = <<>> /\ ~pool_open)
         /\ chan = <<>> => chan' = <<>>
<1> USE DEF IInv, LoaderTyped
<1>1. \A l \in Layers : Submitting(l)' <=> Submitting(l)
  BY DEF IoThread, loaderVars, Submitting
<1>2. PoolTyped
  BY DEF Chunks
<1>3. CASE Recv(w)
  <2>1. Chunks' /\ \A l \in Layers : Underway(l)' <=> Underway(l)
    BY <1>3, RecvOnLoads
  <2>2. UNCHANGED <<layer_status, parked, pool_open, remaining, mem>> /\ chan # <<>>
        /\ worker[w].pc = "idle" /\ worker' = [worker EXCEPT ![w] = [pc |-> "reading", task |-> Head(chan)]]
    BY <1>3 DEF Recv
  <2>3. worker'[w].pc = "reading" /\ \A v \in Workers : v # w => worker'[v] = worker[v]
    BY <1>2, <2>2, WorkerWritten
  <2>4. LoadingIsLive'
    BY <1>1, <2>1, <2>2 DEF LoadingIsLive
  <2> QED
    BY <2>1, <2>2, <2>3, <2>4
<1>4. CASE Pread(w)
  <2>1. Chunks' /\ \A l \in Layers : Underway(l)' <=> Underway(l)
    BY <1>4, PreadOnLoads
  <2>2. /\ UNCHANGED <<layer_status, parked, pool_open, chan, remaining>>
        /\ worker[w].pc = "reading" /\ worker' = [worker EXCEPT ![w].pc = "counting"]
    BY <1>4 DEF Pread
  <2>3. worker'[w].pc = "counting" /\ \A v \in Workers : v # w => worker'[v] = worker[v]
    BY <1>2, <2>2, StageWritten
  <2>4. LoadingIsLive'
    BY <1>1, <2>1, <2>2 DEF LoadingIsLive
  <2>5. mem' \in [Cells -> Data \cup {Empty}]
    <3>1. PICK done \in SUBSET worker[w].task.writes : mem' = AfterRead(done)
      BY <1>4 DEF Pread
    <3> QED
      BY <3>1 DEF AfterRead
  <2> QED
    BY <2>1, <2>2, <2>3, <2>4, <2>5
<1>5. CASE Count(w)
  <2>1. Chunks' /\ (\A l \in Layers : Underway(l)' <=> Underway(l)) /\ remaining' \in [Loads -> Nat]
    BY <1>5, CountOnLoads
  <2>2. PICK s \in {"idle", "publishing"}, t \in {NoTask, worker[w].task} :
          /\ UNCHANGED <<layer_status, parked, pool_open, chan, mem>>
          /\ worker[w].pc = "counting" /\ worker' = [worker EXCEPT ![w] = [pc |-> s, task |-> t]]
    BY <1>5 DEF Count, CountThen
  <2>3. worker'[w].pc = s /\ \A v \in Workers : v # w => worker'[v] = worker[v]
    BY <1>2, <2>2, WorkerWritten
  <2>4. LoadingIsLive'
    BY <1>1, <2>1, <2>2 DEF LoadingIsLive
  <2> QED
    BY <2>1, <2>2, <2>3, <2>4
<1>6. CASE Publish(w)
  <2>1. Chunks' /\ \E l \in Layers :
          /\ Underway(l) /\ ~Underway(l)'
          /\ \A m \in Layers \ {l} : Underway(m)' <=> Underway(m)
          /\ layer_status' = [layer_status EXCEPT ![l] = "Loaded"]
    BY <1>6, PublishOnLoads
  <2>2. PICK l \in Layers :
          /\ Underway(l) /\ ~Underway(l)'
          /\ \A m \in Layers \ {l} : Underway(m)' <=> Underway(m)
          /\ layer_status' = [layer_status EXCEPT ![l] = "Loaded"]
    BY <2>1
  <2>3. /\ parked' = FALSE /\ UNCHANGED <<pool_open, chan, remaining, mem>>
        /\ worker[w].pc = "publishing" /\ worker' = [worker EXCEPT ![w] = [pc |-> "idle", task |-> NoTask]]
    BY <1>6 DEF Publish, PublishLoaded
  <2>4. worker'[w].pc = "idle" /\ \A v \in Workers : v # w => worker'[v] = worker[v]
    BY <1>2, <2>3, WorkerWritten
  <2>5. /\ layer_status' \in [Layers -> LayerStatus] /\ layer_status'[l] = "Loaded"
        /\ \A m \in Layers : m # l => layer_status'[m] = layer_status[m]
    BY <2>2 DEF LayerStatus
  <2>6. LoadingIsLive'
    BY <1>1, <2>2, <2>5 DEF LoadingIsLive
  <2> QED
    BY <2>1, <2>3, <2>4, <2>5, <2>6
<1>7. CASE Exit(w)
  <2>1. Chunks' /\ \A l \in Layers : Underway(l)' <=> Underway(l)
    BY <1>7, ExitOnLoads
  <2>2. /\ UNCHANGED <<layer_status, parked, pool_open, chan, remaining, mem>>
        /\ chan = <<>> /\ ~pool_open
        /\ worker[w].pc = "idle" /\ worker' = [worker EXCEPT ![w].pc = "exited"]
    BY <1>7 DEF Exit
  <2>3. \A v \in Workers : v # w => worker'[v] = worker[v]
    BY <1>2, <2>2, StageWritten
  <2>4. LoadingIsLive'
    BY <1>1, <2>1, <2>2 DEF LoadingIsLive
  <2> QED
    BY <2>1, <2>2, <2>3, <2>4
<1> QED
  BY <1>3, <1>4, <1>5, <1>6, <1>7 DEF IoThread, Work

(* Every step of an I/O worker keeps the invariant. *)
LEMMA WorkKeeps ==
  ASSUME IInv, NEW w \in Workers, IoThread(w), residency' = residency
  PROVE  IInv'
<1> USE DEF IoThread, loaderVars
<1>1. /\ Chunks' /\ LoadingIsLive'
      /\ layer_status' \in [Layers -> LayerStatus] /\ remaining' \in [Loads -> Nat]
      /\ mem' \in [Cells -> Data \cup {Empty}] /\ parked' \in BOOLEAN /\ pool_open' = pool_open
      /\ \A l \in Layers : layer_status[l] = "Loaded" => layer_status'[l] = "Loaded"
      /\ worker[w].pc # "exited"
      /\ \A v \in Workers : worker'[v].pc = "exited" =>
           worker[v].pc = "exited" \/ (chan = <<>> /\ ~pool_open)
      /\ chan = <<>> => chan' = <<>>
  BY WorkOnLoads
<1>2. LoaderTyped'
  BY <1>1 DEF IInv, LoaderTyped
<1>3. PoolState'
  BY <1>1 DEF IInv, PoolState, AllExited
<1>4. Flow'
  BY <1>1, LayersAreNumbers DEF IInv, LoaderTyped, Flow, Inside, CallbackOn
<1>5. Preloading'
  BY <1>1 DEF IInv, Preloading, RamLayers
<1> QED
  BY <1>1, <1>2, <1>3, <1>4, <1>5 DEF IInv

-----------------------------------------------------------------------------
(* The invariant holds at the start of a generation and every step of      *)
(* every thread keeps it.                                                  *)
LEMMA InitInvariant == Init => IInv
<1> SUFFICES ASSUME Init PROVE IInv
  OBVIOUS
<1> USE DEF Init, PoolInit
<1>1. /\ chan = <<>> /\ Len(chan) = 0
      /\ \A w \in Workers : worker[w].pc = "idle" /\ worker[w].task = NoTask
  BY EmptySeq
<1>2. PoolTyped
  <2> DEFINE idle == [pc |-> "idle", task |-> NoTask]
  <2>1. idle \in [pc: {"idle", "reading", "counting", "publishing", "exited"},
                  task: Tasks \cup {NoTask}]
    OBVIOUS
  <2> HIDE DEF idle
  <2>2. worker = [w \in Workers |-> idle]
    BY DEF idle
  <2> QED
    BY <1>1, <2>1, <2>2, EmptySeq DEF PoolTyped
<1>3. \A l \in Layers : Outstanding(l) = {} /\ \A s : s # "idle" => With(l, s) = {}
  BY <1>1 DEF Outstanding, Waiting, With
<1>4. Chunks
  <2>1. TasksAreParts /\ OneTaskPerPart
    BY <1>1 DEF TasksAreParts, OneTaskPerPart
  <2>2. Counted
    BY <1>3, FS_EmptySet, LoaderAssumption DEF Counted
  <2>3. LastPublishes
    BY <1>3 DEF LastPublishes
  <2> QED
    BY <1>2, <2>1, <2>2, <2>3 DEF Chunks
<1>5. LoadingIsLive
  BY <1>3 DEF LoadingIsLive, Underway, Submitting
<1>6. PoolState
  BY <1>1 DEF PoolState
<1>7. LoaderTyped
  <2>1. todo \in Seq(Layers)
    <3>1. CASE residency = "preloaded"
      <4>1. RamLayers \subseteq Layers /\ IsFiniteSet(RamLayers)
        BY LayersAreNumbers, FS_Subset DEF RamLayers
      <4>2. Cardinality(RamLayers) \in Nat
        BY <4>1, FS_CardinalityType
      <4>3. todo \in [1..Cardinality(RamLayers) -> RamLayers]
        BY <3>1 DEF SetToSeqs
      <4> QED
        BY <4>1, <4>2, <4>3
    <3>2. CASE residency # "preloaded"
      BY <3>2, ListsOfLayers
    <3> QED
      BY <3>1, <3>2
  <2>2. layer \in Layers /\ node \in 1..NodesPerLayer /\ passes \in 0..MaxPasses
    BY LayersAreNumbers, LoaderAssumption
  <2> QED
    BY <2>1, <2>2 DEF LoaderTyped, LayerStatus, PCs
<1>8. Flow
  BY DEF Flow, Inside
<1>9. Preloading
  BY DEF Preloading
<1> QED
  BY <1>4, <1>5, <1>6, <1>7, <1>8, <1>9 DEF IInv

(* The invariant is inductive. *)
LEMMA NextKeeps == IInv /\ [Next]_vars => IInv'
<1> SUFFICES ASSUME IInv, [Next]_vars PROVE IInv'
  OBVIOUS
<1>1. CASE ComputeThread
  <2>1. residency' = residency
    BY <1>1 DEF ComputeThread
  <2> QED
    BY <1>1, <2>1, RequestPrefetchKeeps, PrefetchDoneKeeps, PreloadWaitKeeps, AskKeeps,
       ControlKeeps, SubmitKeeps, ReleaseKeeps, UnloadKeeps, StopKeeps
    DEF ComputeThread
<1>2. ASSUME NEW w \in Workers, IoThread(w) PROVE IInv'
  BY <1>2, WorkKeeps DEF IoThread, loaderVars
<1>3. CASE UNCHANGED vars
  <2> USE DEF vars, poolVars, loaderVars
  <2>1. Chunks' /\ \A l \in Layers : Underway(l)' <=> Underway(l)
    BY <1>3, NothingOnLoads DEF IInv
  <2>2. LoadingIsLive'
    BY <1>3, <2>1 DEF IInv, LoadingIsLive, Submitting
  <2> QED
    BY <1>3, <2>1, <2>2
    DEF IInv, LoaderTyped, PoolState, AllExited, Flow, Inside, CallbackOn, Preloading, RamLayers
<1> QED
  BY <1>1, <1>2, <1>3 DEF Next, Terminated

(* The invariant holds in every state of the specification. *)
LEMMA Invariant == Spec => []IInv
BY InitInvariant, NextKeeps, PTL DEF Spec

(* The type invariant; with it, that IoCompletion.remaining is never       *)
(* decremented below zero.                                                 *)
THEOREM TypeCorrect == Spec => []TypeOK
<1>1. IInv => TypeOK
  BY TypeByParts DEF IInv, Chunks
<1> QED
  BY <1>1, Invariant, PTL

(* When ensure_layer_loaded or request_prefetch has set a layer to Loading *)
(* and is about to submit it, no task of an earlier load of the layer is   *)
(* queued, being read, counted or published.                               *)
THEOREM OneLoad == Spec => []OneLoadPerLayer
<1>1. IInv => OneLoadPerLayer
  <2> SUFFICES ASSUME IInv PROVE OneLoadPerLayer
    OBVIOUS
  <2>1. \A l \in Layers : Submitting(l) => IdleLoad(l)
    BY IdleMeansNowhere DEF IInv, LoadingIsLive, Chunks
  <2>2. pc = "prefetch_submit" => Head(todo) \in Layers
    BY HeadTailProperties DEF IInv, LoaderTyped, Flow
  <2> QED
    BY <2>1, <2>2 DEF OneLoadPerLayer, Submitting, IInv, LoaderTyped
<1> QED
  BY <1>1, Invariant, PTL

(* stop_io_pool returns only after every queued task was read and counted: *)
(* no layer stays Loading, and no worker is left.                          *)
THEOREM StopDrains == Spec => []StoppedIsDrained
<1>1. IInv => StoppedIsDrained
  <2> SUFFICES ASSUME IInv, pc = "done" PROVE StoppedIsDrained
    BY DEF StoppedIsDrained
  <2>1. \A w \in Workers : worker[w].pc = "exited"
    BY DEF IInv, PoolState, AllExited
  <2>2. chan = <<>>
    BY <2>1, LoaderAssumption DEF IInv, PoolState
  <2>3. \A l \in Layers : Outstanding(l) = {} /\ With(l, "publishing") = {}
    BY <2>1, <2>2 DEF Outstanding, Waiting, With
  <2>4. \A l \in Layers : remaining[l] = 0
    BY <2>3, FS_EmptySet DEF IInv, Chunks, Counted
  <2>5. \A l \in Layers : layer_status[l] # "Loading"
    BY <2>3 DEF IInv, LoadingIsLive, Underway, Submitting
  <2> QED
    BY <2>1, <2>2, <2>4, <2>5 DEF StoppedIsDrained
<1> QED
  BY <1>1, Invariant, PTL

(* release_layer frees the pages of a layer the forward pass has left,     *)
(* whose load is published and of which no task is left in any hands.      *)
THEOREM QuietRelease == Spec => ReleaseIsQuiet
<1>1. ASSUME IInv, [Next]_vars
      PROVE  [\A l \in Layers :
                (\E c \in PartsOf(l) : mem[c] # Empty /\ mem'[c] = Empty)
                  => l # layer /\ IdleLoad(l) /\ layer_status[l] = "Loaded"]_vars
  <2> SUFFICES ASSUME NEW l \in Layers, NEW c \in PartsOf(l), mem[c] # Empty, mem'[c] = Empty
               PROVE  l # layer /\ IdleLoad(l) /\ layer_status[l] = "Loaded"
    OBVIOUS
  <2>1. c \in Cells
    BY LoaderAssumption
  <2>2. mem' # mem
    OBVIOUS
  <2>3. ASSUME NEW w \in Workers, Pread(w) PROVE FALSE
    <3>1. PICK done \in SUBSET worker[w].task.writes : mem' = AfterRead(done)
      BY <2>3 DEF Pread
    <3>2. mem'[c] = mem[c] \/ mem'[c] \in Data
      BY <2>1, <3>1 DEF AfterRead
    <3> QED
      BY <3>2, LoaderAssumption
  <2>4. Release
    <3>1. ASSUME ComputeThread PROVE Release
      BY <2>2, <3>1
      DEF ComputeThread, RequestPrefetch, RequestUnless, SetLoading, PrefetchSubmit, Submit,
          SubmitLayerLoad, PublishLoaded, PrefetchDone, PreloadWait, PreloadUntil, Park,
          StartPass, Finish, Ask, Await, Compute, Post, Unload, Advance, Stop, CloseChannel,
          Join, poolVars
    <3>2. ASSUME NEW w \in Workers, IoThread(w) PROVE FALSE
      BY <2>2, <2>3, <3>2 DEF IoThread, Work, Recv, Count, CountThen, Publish, PublishLoaded, Exit
    <3> QED
      BY <1>1, <2>2, <3>1, <3>2 DEF Next, Terminated, vars, poolVars
  <2>5. l = prev
    <3>1. mem'[c] = IF prev \in NvmeLayers /\ c \in PartsOf(prev) THEN Empty ELSE mem[c]
      BY <2>1, <2>4 DEF Release, ReleaseOf
    <3>2. c \in PartsOf(prev)
      BY <3>1
    <3> QED
      BY <3>2 DEF PartsOf
  <2>6. /\ prev \in Layers /\ prev < layer /\ layer_status[prev] = "Loaded" /\ layer \in Layers
        /\ ~Submitting(prev)
    BY <1>1, <2>4 DEF Release, ReleaseOf, IInv, Flow, LoaderTyped, Submitting
  <2>7. ~Underway(prev)
    BY <1>1, <2>6 DEF IInv, LoadingIsLive
  <2> QED
    BY <1>1, <2>5, <2>6, <2>7, IdleMeansNowhere, LayersAreNumbers DEF IInv, Chunks
<1> QED
  BY <1>1, Invariant, PTL DEF Spec, ReleaseIsQuiet

-----------------------------------------------------------------------------
(* What is in the buffer when no read fails or comes up short. *)

(* A layer is present when each of its chunks is in memory. *)
LEMMA PresentByPart ==
  \A l : Present(l) <=> \A i \in Parts(l) : InMemory(l, i)
BY DEF Present, PartsOf, Parts, InMemory

(* A chunk's read fills its cell and no other. *)
LEMMA PreadFills ==
  ASSUME ~IoFaults, Chunks, LoaderTyped, NEW w \in Workers, Pread(w)
  PROVE  \E l \in Layers : \E i \in Parts(l) :
           /\ i \in With(l, "reading") /\ <<l, i>> \in Cells
           /\ mem' = [c \in Cells |-> IF c = <<l, i>> THEN c ELSE mem[c]]
           /\ \A m \in Layers :
                /\ Waiting(m)' = Waiting(m)
                /\ With(m, "reading")' = With(m, "reading") \ Only(m, l, i)
<1>1. PICK l \in Layers : \E j \in Parts(l) :
         /\ worker[w].task = PartTask(l, j) /\ j \in With(l, "reading")
         /\ \A m \in Layers :
              /\ Waiting(m)' = Waiting(m)
              /\ With(m, "reading")' = With(m, "reading") \ Only(m, l, j)
  BY PreadOnLoads
<1>2. PICK i \in Parts(l) :
         /\ worker[w].task = PartTask(l, i) /\ i \in With(l, "reading")
         /\ \A m \in Layers :
              /\ Waiting(m)' = Waiting(m)
              /\ With(m, "reading")' = With(m, "reading") \ Only(m, l, i)
  BY <1>1
<1> DEFINE cell == <<l, i>>
<1>3. mem' = AfterRead({<<cell, cell>>})
  <2>1. PICK done \in SUBSET worker[w].task.writes :
          done = worker[w].task.writes /\ mem' = AfterRead(done)
    BY DEF Pread
  <2>2. worker[w].task.writes = {<<cell, cell>>}
    BY <1>2, PartTaskFacts
  <2> QED
    BY <2>1, <2>2, Zenon
<1>4. cell \in Cells /\ Data = Cells
  BY <1>2, LoaderAssumption DEF Parts, PartsOf
<1> HIDE DEF cell
<1>5. ASSUME NEW c \in Cells
      PROVE  mem'[c] = IF c = cell THEN c ELSE mem[c]
  <2>1. CASE c = cell
    <3>1. \A d \in Data : <<c, d>> \in {<<cell, cell>>} <=> d = c
      BY <2>1
    <3>2. \E d \in Data : <<c, d>> \in {<<cell, cell>>}
      BY <1>4, <2>1, <3>1
    <3>3. mem'[c] = CHOOSE d \in Data : <<c, d>> \in {<<cell, cell>>}
      BY <1>3, <3>2 DEF AfterRead
    <3>4. (CHOOSE d \in Data : <<c, d>> \in {<<cell, cell>>}) = c
      BY <3>1, <3>2, Zenon
    <3> QED
      BY <2>1, <3>3, <3>4
  <2>2. CASE c # cell
    <3>1. ~ \E d \in Data : <<c, d>> \in {<<cell, cell>>}
      BY <2>2
    <3> QED
      BY <1>3, <2>2, <3>1 DEF AfterRead
  <2> QED
    BY <2>1, <2>2
<1>6. mem' = [c \in Cells |-> IF c = cell THEN c ELSE mem[c]]
  BY <1>3, <1>5 DEF AfterRead
<1> QED
  BY <1>2, <1>4, <1>6 DEF cell

(* At first no layer is Loading or Loaded. *)
LEMMA InitInMemory == Init => MemInv
BY DEF Init, PoolInit, MemInv

(* A step that reads, publishes and frees nothing. *)
LEMMA PlainInMemory ==
  ASSUME MemInv, UNCHANGED <<layer_status, chan, worker, mem, remaining>>,
         pc \notin {"submit", "prefetch_submit", "unload"},
         pc' \notin {"submit", "prefetch_submit", "unload"}
  PROVE  MemInv'
<1>1. \A m \in Layers : Waiting(m)' = Waiting(m) /\ With(m, "reading")' = With(m, "reading")
  BY NothingOnLoads
<1>2. \A m \in Layers : Parts(m)' = Parts(m) /\ \A i : InMemory(m, i)' <=> InMemory(m, i)
  BY DEF Parts, InMemory
<1> QED
  BY <1>1, <1>2 DEF MemInv, Submitting

(* No step of the evaluator's thread leaves a layer Loaded without its      *)
(* bytes.                                                                   *)
LEMMA ComputeInMemory ==
  ASSUME IInv, MemInv, ComputeThread
  PROVE  MemInv'
<1> USE DEF IInv
<1>1. \A m \in Layers : Parts(m)' = Parts(m)
  BY DEF Parts
<1>2. CASE Park /\ pc \in {"preload_wait", "ask", "await"}
  BY <1>2, PlainInMemory DEF Park, loaderVars
<1>3. ASSUME NEW l \in Layers, SetLoading(l), pc \in {"prefetch", "ask"},
             layer_status[l] # "Loading",
             \/ pc' = "submit" /\ layer' = l
             \/ pc' = "prefetch_submit" /\ Head(todo') = l
      PROVE  MemInv'
  <2>1. \A m \in Layers : Waiting(m)' = Waiting(m) /\ With(m, "reading")' = With(m, "reading")
    BY <1>3, NothingOnLoads DEF SetLoading
  <2>2. layer_status'[l] = "Loading" /\ \A m \in Layers : m # l => layer_status'[m] = layer_status[m]
    BY <1>3 DEF SetLoading, LoaderTyped
  <2>3. \A m \in Layers : \A i : InMemory(m, i)' <=> InMemory(m, i)
    BY <1>3 DEF SetLoading, InMemory
  <2>4. \A m \in Layers : ~Submitting(m)
    BY <1>3 DEF Submitting
  <2>5. Submitting(l)' /\ pc # "unload" /\ pc' # "unload"
    BY <1>3 DEF Submitting
  <2> QED
    BY <1>1, <2>1, <2>2, <2>3, <2>4, <2>5 DEF MemInv
<1>4. ASSUME NEW l \in Layers, SubmitLayerLoad(l),
             \/ pc = "submit" /\ layer = l /\ pc' = "await"
             \/ pc = "prefetch_submit" /\ Head(todo) = l /\ pc' = "prefetch"
      PROVE  MemInv'
  <2>1. \A m \in Layers : (Submitting(m) <=> m = l) /\ ~Submitting(m)'
    BY <1>4 DEF Submitting
  <2>2. \A m \in Layers : \A i : InMemory(m, i)' <=> InMemory(m, i)
    BY <1>4 DEF SubmitLayerLoad, InMemory
  <2>3. layer_status[l] = "Loading" /\ ~Underway(l)
    BY <2>1 DEF LoadingIsLive
  <2>4. pool_open /\ NumParts[l] \in Nat
    BY <1>4, LoaderAssumption DEF PoolState
  <2>5. CASE NumParts[l] = 0
    <3>1. /\ layer_status' = [layer_status EXCEPT ![l] = "Loaded"]
          /\ UNCHANGED <<chan, remaining, worker>>
      BY <1>4, <2>5 DEF SubmitLayerLoad, PublishLoaded
    <3>2. \A m \in Layers : Waiting(m)' = Waiting(m) /\ With(m, "reading")' = With(m, "reading")
      BY <3>1, NothingOnLoads
    <3>3. \A m \in Layers : m # l => layer_status'[m] = layer_status[m]
      BY <3>1 DEF LoaderTyped
    <3>4. Parts(l) = {}
      BY <2>5 DEF Parts
    <3> QED
      BY <1>1, <1>4, <2>1, <2>2, <3>2, <3>3, <3>4 DEF MemInv
  <2>6. CASE NumParts[l] # 0
    <3>1. /\ \A m \in Layers : Waiting(m)' = IF m = l THEN Parts(l) ELSE Waiting(m)
          /\ \A m \in Layers : With(m, "reading")' = With(m, "reading")
      BY <1>4, <2>3, <2>4, <2>6, IdleMeansNowhere, SubmitOnLoads DEF LoaderTyped, Chunks
    <3>2. layer_status' = layer_status
      BY <1>4, <2>4, <2>6 DEF SubmitLayerLoad
    <3> QED
      BY <1>1, <1>4, <2>1, <2>2, <2>3, <3>1, <3>2 DEF MemInv
  <2> QED
    BY <2>5, <2>6
<1>5. CASE RequestPrefetch
  <2>1. Head(todo) \in Layers
    BY <1>5, HeadTailProperties DEF RequestPrefetch, RequestUnless, LoaderTyped
  <2>2. PICK l \in Layers : l = Head(todo)
    BY <2>1
  <2>3. CASE layer_status[l] \in {"Loaded", "Loading"}
    BY <1>5, <2>2, <2>3, PlainInMemory DEF RequestPrefetch, RequestUnless, poolVars
  <2>4. CASE layer_status[l] \notin {"Loaded", "Loading"}
    BY <1>3, <1>5, <2>2, <2>4 DEF RequestPrefetch, RequestUnless
  <2> QED
    BY <2>3, <2>4
<1>6. CASE Ask
  <2>1. PICK l \in Layers : l = layer
    BY DEF LoaderTyped
  <2>2. CASE CallbackOn(layer) /\ layer_status[layer] = "Loading"
    BY <1>2, <1>6, <2>2 DEF Ask
  <2>3. CASE CallbackOn(layer) /\ layer_status[layer] = "NotLoaded"
    BY <1>3, <1>6, <2>1, <2>3 DEF Ask
  <2>4. CASE ~CallbackOn(layer) \/ layer_status[layer] \notin {"Loading", "NotLoaded"}
    BY <1>6, <2>4, PlainInMemory DEF Ask, poolVars
  <2> QED
    BY <2>2, <2>3, <2>4
<1>7. CASE PrefetchSubmit
  <2>1. Head(todo) \in Layers
    BY <1>7, HeadTailProperties DEF PrefetchSubmit, LoaderTyped, Flow
  <2>2. PICK l \in Layers : l = Head(todo)
    BY <2>1
  <2> QED
    BY <1>4, <1>7, <2>2 DEF PrefetchSubmit
<1>8. CASE Submit
  <2>1. PICK l \in Layers : l = layer
    BY DEF LoaderTyped
  <2> QED
    BY <1>4, <1>8, <2>1 DEF Submit
<1>9. CASE Release
  <2> USE <1>9 DEF Release, ReleaseOf
  <2>1. \A m \in Layers : Waiting(m)' = Waiting(m) /\ With(m, "reading")' = With(m, "reading")
    BY NothingOnLoads
  <2>2. \A m \in Layers : ~Submitting(m) /\ ~Submitting(m)'
    BY DEF Submitting
  <2>3. prev \in Layers /\ layer_status[prev] = "Loaded" /\ pc' = "unload" /\ prev' = prev
        /\ layer_status' = layer_status
    BY DEF Flow
  <2>4. ASSUME NEW m \in Layers, NEW i \in Parts(m), ~ (m = prev /\ m \in NvmeLayers)
        PROVE  InMemory(m, i)' <=> InMemory(m, i)
    <3>1. <<m, i>> \in Cells
      BY LoaderAssumption DEF Parts, PartsOf
    <3>2. <<m, i>> \in PartsOf(prev) => m = prev
      BY DEF PartsOf
    <3>3. mem'[<<m, i>>] = mem[<<m, i>>]
      BY <2>4, <3>1, <3>2
    <3> QED
      BY <3>3 DEF InMemory
  <2>5. ASSUME NEW m \in Layers, NEW i \in Parts(m)
        PROVE  /\ layer_status[m] = "Loading" => InMemory(m, i)' \/ i \in Waiting(m) \cup With(m, "reading")
               /\ layer_status[m] = "Loaded" /\ ~ (prev = m /\ m \in NvmeLayers) => InMemory(m, i)'
    BY <2>2, <2>3, <2>4 DEF MemInv
  <2> QED
    BY <1>1, <2>1, <2>2, <2>3, <2>5 DEF MemInv
<1>10. CASE Unload
  <2> USE <1>10 DEF Unload
  <2>1. \A m \in Layers : Waiting(m)' = Waiting(m) /\ With(m, "reading")' = With(m, "reading")
    BY NothingOnLoads
  <2>2. \A m \in Layers : ~Submitting(m) /\ ~Submitting(m)'
    BY DEF Submitting
  <2>3. prev \in Layers /\ layer_status[prev] = "Loaded" /\ NumParts[prev] > 0
    BY DEF Flow
  <2>4. /\ layer_status'[prev] = IF prev \in NvmeLayers THEN "NotLoaded" ELSE "Loaded"
        /\ \A m \in Layers : m # prev => layer_status'[m] = layer_status[m]
    BY <2>3 DEF LoaderTyped
  <2>5. \A m \in Layers : \A i : InMemory(m, i)' <=> InMemory(m, i)
    BY DEF InMemory
  <2> QED
    BY <1>1, <2>1, <2>2, <2>3, <2>4, <2>5 DEF MemInv
<1>11. CASE PreloadWait
  BY <1>2, <1>11, PlainInMemory DEF PreloadWait, PreloadUntil, poolVars
<1>12. CASE Await
  BY <1>2, <1>12, PlainInMemory DEF Await, poolVars
<1>13. CASE PrefetchDone
  <2>1. ret \notin {"submit", "prefetch_submit", "unload"}
    BY DEF LoaderTyped
  <2> QED
    BY <1>13, <2>1, PlainInMemory DEF PrefetchDone, poolVars
<1>14. CASE StartPass \/ Finish \/ Compute \/ Post \/ Advance
  BY <1>14, PlainInMemory DEF StartPass, Finish, Compute, Post, Advance, poolVars
<1>15. CASE Stop \/ Join
  BY <1>15, PlainInMemory DEF Stop, CloseChannel, Join, poolVars
<1> QED
  BY <1>5, <1>6, <1>7, <1>8, <1>9, <1>10, <1>11, <1>12, <1>13, <1>14, <1>15 DEF ComputeThread

(* Nor does a step of a worker, if no read fails: what is counted was read. *)
LEMMA WorkInMemory ==
  ASSUME ~IoFaults, IInv, MemInv, NEW w \in Workers, IoThread(w)
  PROVE  MemInv'
<1> USE DEF IInv, IoThread, loaderVars
<1>1. \A m \in Layers : Parts(m)' = Parts(m) /\ (Submitting(m)' <=> Submitting(m))
  BY DEF Parts, Submitting
<1>2. ASSUME mem' = mem, layer_status' = layer_status,
             \A m \in Layers :
               (Waiting(m) \cup With(m, "reading"))' = Waiting(m) \cup With(m, "reading")
      PROVE  MemInv'
  <2>1. \A m \in Layers : \A i : InMemory(m, i)' <=> InMemory(m, i)
    BY <1>2 DEF InMemory
  <2> QED
    BY <1>1, <1>2, <2>1 DEF MemInv
<1>3. CASE Recv(w)
  <2>1. \E l \in Layers : \E i \in Waiting(l) : \A m \in Layers :
          /\ Waiting(m)' = Waiting(m) \ Only(m, l, i)
          /\ With(m, "reading")' = With(m, "reading") \cup Only(m, l, i)
    BY <1>3, RecvMoves DEF Chunks
  <2>2. \A m \in Layers :
          (Waiting(m) \cup With(m, "reading"))' = Waiting(m) \cup With(m, "reading")
    BY <2>1 DEF Only
  <2> QED
    BY <1>2, <1>3, <2>2 DEF Recv
<1>4. CASE Pread(w)
  <2>1. PICK l \in Layers : \E j \in Parts(l) :
           /\ j \in With(l, "reading") /\ <<l, j>> \in Cells
           /\ mem' = [c \in Cells |-> IF c = <<l, j>> THEN c ELSE mem[c]]
           /\ \A m \in Layers :
                /\ Waiting(m)' = Waiting(m)
                /\ With(m, "reading")' = With(m, "reading") \ Only(m, l, j)
    BY <1>4, PreadFills
  <2>2. PICK i \in Parts(l) :
           /\ i \in With(l, "reading") /\ <<l, i>> \in Cells
           /\ mem' = [c \in Cells |-> IF c = <<l, i>> THEN c ELSE mem[c]]
           /\ \A m \in Layers :
                /\ Waiting(m)' = Waiting(m)
                /\ With(m, "reading")' = With(m, "reading") \ Only(m, l, i)
    BY <2>1
  <2>3. ASSUME NEW m \in Layers, NEW j \in Parts(m)
        PROVE  /\ InMemory(m, j) => InMemory(m, j)'
               /\ m = l /\ j = i => InMemory(m, j)'
    <3>1. <<m, j>> \in Cells
      BY LoaderAssumption DEF Parts, PartsOf
    <3> QED
      BY <2>2, <3>1 DEF InMemory
  <2>4. layer_status' = layer_status
    BY <1>4 DEF Pread
  <2>5. ASSUME NEW m \in Layers, NEW j \in Waiting(m) \cup With(m, "reading"), j \in Parts(m)
        PROVE  InMemory(m, j)' \/ j \in Waiting(m)' \cup With(m, "reading")'
    BY <2>2, <2>3, <2>5 DEF Only
  <2> QED
    BY <1>1, <2>3, <2>4, <2>5 DEF MemInv
<1>5. CASE Count(w)
  <2>1. \A m \in Layers : Waiting(m)' = Waiting(m) /\ With(m, "reading")' = With(m, "reading")
    BY <1>5, CountOnLoads DEF LoaderTyped
  <2> QED
    BY <1>2, <1>5, <2>1 DEF Count, CountThen
<1>6. CASE Publish(w)
  <2>1. \A m \in Layers : Waiting(m)' = Waiting(m) /\ With(m, "reading")' = With(m, "reading")
    BY <1>6, PublishOnLoads
  <2>2. PICK l \in Layers :
          /\ Underway(l) /\ Outstanding(l) = {}
          /\ layer_status' = [layer_status EXCEPT ![l] = "Loaded"]
    BY <1>6, PublishOnLoads
  <2>3. layer_status[l] = "Loading" /\ ~Submitting(l)
    BY <2>2 DEF LoadingIsLive
  <2>4. \A i \in Parts(l) : InMemory(l, i)
    BY <2>2, <2>3 DEF MemInv, Outstanding
  <2>5. \A m \in Layers : \A i : InMemory(m, i)' <=> InMemory(m, i)
    BY <1>6 DEF Publish, InMemory
  <2>6. layer_status'[l] = "Loaded" /\ \A m \in Layers : m # l => layer_status'[m] = layer_status[m]
    BY <2>2 DEF LoaderTyped
  <2> QED
    BY <1>1, <2>1, <2>4, <2>5, <2>6 DEF MemInv
<1>7. CASE Exit(w)
  <2>1. \A m \in Layers : Waiting(m)' = Waiting(m) /\ With(m, "reading")' = With(m, "reading")
    BY <1>7, ExitOnLoads
  <2> QED
    BY <1>2, <1>7, <2>1 DEF Exit
<1> QED
  BY <1>3, <1>4, <1>5, <1>6, <1>7 DEF Work

(* The memory invariant is inductive together with IInv. *)
LEMMA NextInMemory ==
  ASSUME ~IoFaults, IInv, MemInv, [Next]_vars
  PROVE  MemInv'
<1>1. CASE ComputeThread
  BY <1>1, ComputeInMemory
<1>2. ASSUME NEW w \in Workers, IoThread(w) PROVE MemInv'
  BY <1>2, WorkInMemory
<1>3. CASE UNCHANGED vars
  <2> USE DEF vars, poolVars, loaderVars
  <2>1. \A m \in Layers : Waiting(m)' = Waiting(m) /\ With(m, "reading")' = With(m, "reading")
    BY <1>3, NothingOnLoads
  <2>2. \A m \in Layers : /\ Parts(m)' = Parts(m) /\ (Submitting(m)' <=> Submitting(m))
                          /\ \A i : InMemory(m, i)' <=> InMemory(m, i)
    BY <1>3 DEF Parts, InMemory, Submitting
  <2> QED
    BY <1>3, <2>1, <2>2 DEF MemInv
<1> QED
  BY <1>1, <1>2, <1>3 DEF Next, Terminated

(* Both hold in every state, if no read fails. *)
LEMMA MemoryInvariant ==
  ASSUME ~IoFaults
  PROVE  Spec => [](IInv /\ MemInv)
<1>1. Init => MemInv
  BY InitInMemory
<1>2. IInv /\ MemInv /\ [Next]_vars => MemInv'
  BY NextInMemory
<1> QED
  BY <1>1, <1>2, InitInvariant, NextKeeps, PTL DEF Spec

(* A layer that is Loaded, and not between its release's two steps, is      *)
(* present.                                                                 *)
LEMMA LoadedIsPresent ==
  ASSUME MemInv, NEW l \in Layers, layer_status[l] = "Loaded", ~ (pc = "unload" /\ prev = l)
  PROVE  Present(l)
BY PresentByPart DEF MemInv

(* Inside a layer, the layer is Loaded and is not the one being released. *)
LEMMA InsideIsPresent == IInv /\ MemInv => InsideMeansPresent
<1> SUFFICES ASSUME IInv, MemInv, Inside PROVE Present(layer)
  BY DEF InsideMeansPresent
<1>1. layer \in Layers /\ layer_status[layer] = "Loaded"
  BY DEF IInv, LoaderTyped, Flow
<1>2. ~ (pc = "unload" /\ prev = layer)
  BY <1>1, LayersAreNumbers DEF IInv, LoaderTyped, Flow
<1>3. PICK l \in Layers : l = layer
  BY <1>1
<1> QED
  BY <1>1, <1>2, <1>3, LoadedIsPresent

(* Whenever the forward pass is inside a layer, every chunk of the layer   *)
(* is in the buffer (ensure_layer_loaded), provided no read fails.         *)
THEOREM PresentInside ==
  ASSUME ~IoFaults
  PROVE  Spec => []InsideMeansPresent
BY InsideIsPresent, MemoryInvariant, PTL

(* Once preload_ram_layers has returned, every RAM layer is in the buffer  *)
(* for the rest of the generation, provided no read fails.                 *)
THEOREM PreloadedPresent ==
  ASSUME ~IoFaults
  PROVE  Spec => []Preloaded
<1>1. IInv /\ MemInv => Preloaded
  <2> SUFFICES ASSUME IInv, MemInv, residency = "preloaded", passes > 0, NEW l \in RamLayers
               PROVE  Present(l)
    BY DEF Preloaded
  <2>1. ret # "preload_wait"
    BY DEF IInv, Preloading
  <2>2. layer_status[l] = "Loaded" /\ l \in Layers
    BY <2>1 DEF IInv, Preloading, RamLayers
  <2>3. pc # "unload"
    BY DEF IInv, Flow, CallbackOn
  <2> QED
    BY <2>2, <2>3, LoadedIsPresent
<1> QED
  BY <1>1, MemoryInvariant, PTL

-----------------------------------------------------------------------------
(* The loader implements LayerStore. *)

(* Memory changes by a release of the evaluator or the read of one worker. *)
LEMMA OnlyReadsAndReleasesTouchMemory ==
  ASSUME IInv, [Next]_vars
  PROVE  \/ mem' = mem
         \/ Release /\ residency' = residency
         \/ \E w \in Workers : Pread(w) /\ UNCHANGED loaderVars
<1>1. ASSUME ComputeThread PROVE mem' = mem \/ Release
  BY <1>1
  DEF ComputeThread, RequestPrefetch, RequestUnless, SetLoading, PrefetchSubmit, Submit,
      SubmitLayerLoad, PublishLoaded, PrefetchDone, PreloadWait, PreloadUntil, Park,
      StartPass, Finish, Ask, Await, Compute, Post, Unload, Advance, Stop, CloseChannel,
      Join, poolVars
<1>2. ASSUME NEW w \in Workers, IoThread(w) PROVE mem' = mem \/ (Pread(w) /\ UNCHANGED loaderVars)
  BY <1>2 DEF IoThread, Work, Recv, Count, CountThen, Publish, PublishLoaded, Exit
<1> QED
  BY <1>1, <1>2 DEF Next, Terminated, vars, poolVars, ComputeThread

(* The forward pass goes from one layer it is inside to another only by    *)
(* leaving the first.                                                      *)
LEMMA InsideStaysInLayer ==
  ASSUME IInv, [Next]_vars, Inside, Inside'
  PROVE  layer' = layer
<1>1. ASSUME ComputeThread PROVE layer' = layer
  <2>1. CASE StartPass
    BY <2>1 DEF StartPass, Inside
  <2>2. CASE Advance
    BY <2>2 DEF Advance, Inside
  <2> QED
    BY <1>1, <2>1, <2>2
    DEF ComputeThread, RequestPrefetch, RequestUnless, PrefetchSubmit, Submit, PrefetchDone,
        PreloadWait, PreloadUntil, Park, Finish, Ask, Await, Compute, Post, Release, ReleaseOf,
        Unload, Stop, Join, loaderVars
<1>2. ASSUME NEW w \in Workers, IoThread(w) PROVE layer' = layer
  BY <1>2 DEF IoThread, loaderVars
<1> QED
  BY <1>1, <1>2 DEF Next, Terminated, vars, loaderVars

(* Every step of the loader is a step of the store or leaves it unchanged: *)
(* a worker's read may complete a layer (Load), a release evicts the layer *)
(* left behind (Evict), and the compute thread enters a layer only when    *)
(* its data is there.                                                      *)
LEMMA StoreStep ==
  ASSUME ~IoFaults, IInv, MemInv, [Next]_vars
  PROVE  [Store!Next]_Store!vars
<1> DEFINE using == IF Inside THEN layer ELSE None
<1>1. IInv' /\ MemInv'
  BY NextKeeps, NextInMemory
<1>2. InsideMeansPresent /\ InsideMeansPresent'
  <2>1. InsideMeansPresent
    BY InsideIsPresent
  <2>2. (IInv /\ MemInv => InsideMeansPresent)'
    BY InsideIsPresent, PTL
  <2> QED
    BY <1>1, <2>1, <2>2
<1>3. /\ layer \in Layers /\ layer' \in Layers
      /\ \A l \in Layers : l # None
  BY <1>1, LayersAreNumbers DEF IInv, LoaderTyped, None
<1>4. CASE mem' = mem
  <2>1. Resident' = Resident
    BY <1>4 DEF Resident, Present, PartsOf
  <2>2. CASE Inside /\ Inside'
    <3>1. layer' = layer
      BY <2>2, InsideStaysInLayer
    <3> QED
      BY <2>1, <2>2, <3>1 DEF Store!vars
  <2>3. CASE ~Inside /\ ~Inside'
    BY <2>1, <2>3 DEF Store!vars, None
  <2>4. CASE Inside /\ ~Inside'
    BY <2>1, <2>4 DEF Store!Next, Store!Leave, None
  <2>5. CASE ~Inside /\ Inside'
    <3>1. layer' \in Resident'
      BY <1>2, <1>3, <2>5 DEF InsideMeansPresent, Resident, Inside, CallbackOn
    <3>2. Store!Enter(layer')
      BY <2>1, <2>5, <3>1 DEF Store!Enter, None
    <3> QED
      BY <1>3, <3>2 DEF Store!Next
  <2> QED
    BY <2>2, <2>3, <2>4, <2>5
<1>5. CASE Release /\ residency' = residency
  <2> USE <1>5 DEF Release, ReleaseOf
  <2>1. /\ prev \in Layers /\ prev < layer /\ NumParts[prev] > 0
        /\ Inside /\ Inside' /\ layer' = layer
    BY DEF IInv, Flow, Inside, CallbackOn
  <2>2. prev # layer
    BY <1>3, <2>1, LayersAreNumbers
  <2>3. CASE prev \notin NvmeLayers
    <3>1. mem' = mem
      BY <2>3 DEF IInv, LoaderTyped
    <3> QED
      BY <1>4, <3>1
  <2>4. CASE prev \in NvmeLayers
    <3>1. ASSUME NEW l \in Layers, l # prev
          PROVE  Present(l)' <=> Present(l)
      <4>1. \A c \in PartsOf(l) : c \in Cells /\ c \notin PartsOf(prev)
        BY <3>1, LoaderAssumption DEF PartsOf
      <4>2. \A c \in PartsOf(l) : mem'[c] = mem[c]
        BY <4>1
      <4> QED
        BY <4>2 DEF Present, PartsOf
    <3>2. ~Present(prev)'
      <4>1. <<prev, 1>> \in PartsOf(prev)
        BY <2>1, LoaderAssumption DEF PartsOf
      <4>2. PICK c \in PartsOf(prev) : c \in Cells
        BY <2>1, <4>1, LoaderAssumption
      <4>3. mem'[c] = Empty
        BY <2>4, <4>2
      <4>4. c # Empty
        BY <4>2, LoaderAssumption
      <4> QED
        BY <4>2, <4>3, <4>4 DEF Present, PartsOf
    <3>3. Resident' = Resident \ {prev}
      BY <2>1, <3>1, <3>2 DEF Resident
    <3>4. Store!Evict(prev)
      BY <2>1, <2>2, <3>3 DEF Store!Evict, None
    <3> QED
      BY <2>1, <3>4 DEF Store!Next
  <2> QED
    BY <2>3, <2>4
<1>6. ASSUME NEW w \in Workers, Pread(w), UNCHANGED loaderVars
      PROVE  [Store!Next]_Store!vars
  <2>1. PICK l \in Layers : \E j \in Parts(l) :
           mem' = [c \in Cells |-> IF c = <<l, j>> THEN c ELSE mem[c]]
    BY <1>6, PreadFills DEF IInv
  <2>2. PICK i \in Parts(l) :
           mem' = [c \in Cells |-> IF c = <<l, i>> THEN c ELSE mem[c]]
    BY <2>1
  <2>3. ASSUME NEW m \in Layers
        PROVE  /\ Present(m) => Present(m)'
               /\ m # l => (Present(m)' <=> Present(m))
    <3>1. \A c \in PartsOf(m) : c \in Cells /\ (m # l => c # <<l, i>>)
      BY LoaderAssumption DEF PartsOf
    <3>2. \A c \in PartsOf(m) : mem'[c] = IF c = <<l, i>> THEN c ELSE mem[c]
      BY <2>2, <3>1
    <3> QED
      BY <3>1, <3>2 DEF Present, PartsOf
  <2>4. Resident' = Resident \/ Resident' = Resident \cup {l}
    BY <2>3 DEF Resident
  <2>5. (Inside' <=> Inside) /\ layer' = layer
    BY <1>6 DEF loaderVars, Inside, CallbackOn
  <2>6. CASE Resident' = Resident
    BY <2>5, <2>6 DEF Store!vars, None
  <2>7. CASE Resident' = Resident \cup {l}
    <3>1. Store!Load(l)
      BY <2>5, <2>7 DEF Store!Load, None
    <3> QED
      BY <3>1 DEF Store!Next
  <2> QED
    BY <2>4, <2>6, <2>7
<1> QED
  BY <1>4, <1>5, <1>6, OnlyReadsAndReleasesTouchMemory

(* Layer streaming keeps the promise of LayerStore: a layer is computed    *)
(* only while all of its data is in the buffer, and never loses data while *)
(* it is in use, provided no read fails.                                   *)
THEOREM ImplementsStore ==
  ASSUME ~IoFaults
  PROVE  Spec => StoreSpec
<1>1. Init => Store!Init
  <2> SUFFICES ASSUME Init PROVE Store!Init
    OBVIOUS
  <2>1. ~Inside
    BY DEF Init, Inside
  <2>2. ASSUME NEW l \in Layers, NumParts[l] > 0, Present(l)
        PROVE  FALSE
    <3>1. <<l, 1>> \in PartsOf(l)
      BY <2>2, LoaderAssumption DEF PartsOf
    <3>2. PICK c \in PartsOf(l) : c \in Cells
      BY <3>1, LoaderAssumption
    <3>3. mem[c] = Empty /\ c # Empty
      BY <3>2, LoaderAssumption DEF Init, PoolInit
    <3> QED
      BY <2>2, <3>2, <3>3 DEF Present
  <2> QED
    BY <2>1, <2>2 DEF Store!Init, Resident, None
<1>2. IInv /\ MemInv /\ [Next]_vars => [Store!Next]_Store!vars
  BY StoreStep
<1> QED
  BY <1>1, <1>2, MemoryInvariant, PTL DEF Spec, StoreSpec, Store!Spec

-----------------------------------------------------------------------------
(* IoCompletion.remaining is the number of tasks of the load still queued  *)
(* or in a worker's hands, so that exactly one fetch_sub sees 1: the       *)
(* chunks outstanding and the tasks that carry them are as many.           *)
THEOREM RemainingExact == Spec => []RemainingIsExact
<1>1. IInv => RemainingIsExact
  <2> SUFFICES ASSUME IInv, NEW l \in Layers
               PROVE  remaining[l] = Cardinality({k \in 1..Len(chan) : chan[k].load = l})
                        + Cardinality({w \in Workers : Held(w) /\ worker[w].task.load = l})
    BY LoaderAssumption DEF RemainingIsExact
  <2> USE DEF IInv, Chunks
  <2> DEFINE Q == {k \in 1..Len(chan) : chan[k].load = l}
             H == {w \in Workers : Held(w) /\ worker[w].task.load = l}
             B == With(l, "reading") \cup With(l, "counting")
             place == [i \in Waiting(l) |-> CHOOSE k \in 1..Len(chan) : chan[k] = PartTask(l, i)]
             holder == [i \in B |-> CHOOSE w \in Workers : Held(w) /\ worker[w].task = PartTask(l, i)]
  <2>1. Cardinality(Q) = Cardinality(Waiting(l))
    <3>1. \A i \in Waiting(l) : i \in Parts(l) /\ place[i] \in 1..Len(chan)
                                /\ chan[place[i]] = PartTask(l, i)
      BY DEF Waiting
    <3> HIDE DEF place
    <3>2. \A i \in Waiting(l) : place[i] \in Q
      BY <3>1, PartTaskFacts
    <3>3. \A i, j \in Waiting(l) : place[i] = place[j] => i = j
      BY <3>1, PartTaskFacts
    <3>4. ASSUME NEW k \in Q PROVE \E i \in Waiting(l) : place[i] = k
      <4>1. PICK m \in Layers : \E j \in Parts(m) : chan[k] = PartTask(m, j)
        BY DEF TasksAreParts
      <4>2. PICK i \in Parts(m) : chan[k] = PartTask(m, i)
        BY <4>1
      <4>3. m = l
        BY <4>2, PartTaskFacts
      <4>4. i \in Waiting(l)
        BY <4>2, <4>3 DEF Waiting
      <4>5. chan[place[i]] = chan[k]
        BY <3>1, <4>2, <4>3, <4>4
      <4> QED
        BY <3>1, <4>4, <4>5 DEF OneTaskPerPart
    <3>5. place \in [Waiting(l) -> Q]
      BY <3>2 DEF place
    <3>6. place \in Bijection(Waiting(l), Q)
      BY <3>3, <3>4, <3>5, Fun_IsBij
    <3>7. IsFiniteSet(Waiting(l))
      BY OutstandingIsFinite, FS_Subset DEF Outstanding
    <3> HIDE DEF Q
    <3> QED
      BY <3>6, <3>7, FS_Bijection DEF ExistsBijection
  <2>2. Cardinality(H) = Cardinality(B)
    <3>1. \A i \in B : i \in Parts(l) /\ holder[i] \in Workers /\ Held(holder[i])
                       /\ worker[holder[i]].task = PartTask(l, i)
      BY DEF With, Held
    <3> HIDE DEF holder
    <3>2. \A i \in B : holder[i] \in H
      BY <3>1, PartTaskFacts DEF With
    <3>3. \A i, j \in B : holder[i] = holder[j] => i = j
      BY <3>1, PartTaskFacts DEF With
    <3>4. ASSUME NEW w \in H PROVE \E i \in B : holder[i] = w
      <4>1. worker[w].pc \in {"reading", "counting"} /\ w \in Workers /\ worker[w].task.load = l
        BY DEF Held
      <4>2. PICK m \in Layers : \E j \in Parts(m) :
              worker[w].task = PartTask(m, j) /\ j \in With(m, worker[w].pc)
        BY <4>1, SoleHolder
      <4>3. PICK i \in Parts(m) : worker[w].task = PartTask(m, i) /\ i \in With(m, worker[w].pc)
        BY <4>2
      <4>4. m = l /\ PartTask(m, i) # NoTask
        BY <4>1, <4>3, PartTaskFacts
      <4>5. i \in B
        BY <4>1, <4>3, <4>4
      <4>6. worker[holder[i]].task = worker[w].task /\ holder[i] \in Workers
        BY <3>1, <4>3, <4>4, <4>5
      <4> QED
        BY <4>1, <4>3, <4>4, <4>5, <4>6 DEF OneTaskPerPart
    <3>5. holder \in [B -> H]
      BY <3>2 DEF holder
    <3>6. IsFiniteSet(B)
      <4>1. B \subseteq Outstanding(l)
        BY DEF Outstanding
      <4> QED
        BY <4>1, OutstandingIsFinite, FS_Subset
    <3> HIDE DEF B, H
    <3>7. holder \in Bijection(B, H)
      BY <3>3, <3>4, <3>5, Fun_IsBij
    <3> QED
      BY <3>6, <3>7, FS_Bijection DEF ExistsBijection
  <2>3. /\ Outstanding(l) = Waiting(l) \cup B /\ Waiting(l) \cap B = {}
        /\ IsFiniteSet(Waiting(l)) /\ IsFiniteSet(B)
    <3>1. Outstanding(l) = Waiting(l) \cup B
      BY DEF Outstanding
    <3>2. Waiting(l) \cap B = {}
      BY OnePlace
    <3> HIDE DEF B
    <3>3. Waiting(l) \in SUBSET Outstanding(l) /\ B \in SUBSET Outstanding(l)
      BY <3>1
    <3> QED
      BY <3>1, <3>2, <3>3, OutstandingIsFinite, FS_Subset
  <2> HIDE DEF Q, H, B
  <2>4. /\ Cardinality(Waiting(l)) \in Nat /\ Cardinality(B) \in Nat
        /\ Cardinality(Waiting(l) \cap B) = 0
    BY <2>3, FS_CardinalityType, FS_EmptySet
  <2>5. Cardinality(Outstanding(l)) = Cardinality(Waiting(l)) + Cardinality(B)
    <3>1. Cardinality(Waiting(l) \cup B)
            = Cardinality(Waiting(l)) + Cardinality(B) - Cardinality(Waiting(l) \cap B)
      BY <2>3, FS_Union
    <3> QED
      BY <2>3, <2>4, <3>1
  <2>6. remaining[l] = Cardinality(Outstanding(l))
    BY DEF Counted
  <2> QED
    BY <2>1, <2>2, <2>5, <2>6 DEF Q, H
<1> QED
  BY <1>1, Invariant, PTL
=============================================================================
