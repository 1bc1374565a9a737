------------------------------- MODULE IoPool -------------------------------
(***************************************************************************)
(* The multi-threaded I/O pool of src/compute/nvme_backend.rs: an mpsc     *)
(* channel of IoPoolTasks, the worker threads that pull from it, the       *)
(* IoCompletion counter the tasks of one load share, the layer_status map  *)
(* the last task publishes to, and the layer_notify condition variable a   *)
(* waiter sleeps on.                                                       *)
(*                                                                         *)
(* The module has no Next of its own: the loaders that submit work and     *)
(* wait for it (LayerLoader, DenseFfn, ExpertStream) EXTEND it, so that    *)
(* they share its variables the way the code shares one PrefetchState.     *)
(*                                                                         *)
(* Data is abstracted to who may see it.  A cell is a piece of memory one  *)
(* task writes (a chunk of a layer's regions, a pool slot); its content is *)
(* the datum last read into it, or Empty after MADV_FREE.                  *)
(***************************************************************************)
EXTENDS Naturals, Sequences, FiniteSets

CONSTANTS
  Layers,     \* layer indices
  Workers,    \* I/O threads: "hypura-io-0", ...
  Loads,      \* identities of the Arc<IoCompletion> alive at one time
  Cells,      \* pieces of the destination memory
  Data,       \* what the model file can deliver to a cell
  Empty,      \* content of a cell that was never read or was MADV_FREEd
  NoTask,     \* an idle worker's task
  IoFaults    \* whether a pread may fail or come up short

VARIABLES
  layer_status,  \* Mutex<HashMap<u32, LayerStatus>>
  parked,        \* the compute thread sleeps in layer_notify.wait
  pool_open,     \* the io_pool holds a sender (tx is Some)
  chan,          \* tasks sent and not yet received
  remaining,     \* IoCompletion.remaining
  worker,        \* what each worker thread is doing
  mem            \* content of the memory the tasks read into

poolVars == <<layer_status, parked, pool_open, chan, remaining, worker, mem>>

LayerStatus == {"NotLoaded", "Loading", "Loaded"}

(* IoPoolTask: the completion it shares, and the cells it reads into. *)
Task(c, l, update, writes) ==
  [load |-> c, layer |-> l, update_status |-> update, writes |-> writes]

PoolInit ==
  /\ layer_status = [l \in Layers |-> "NotLoaded"]
  /\ parked = FALSE
  /\ pool_open = TRUE
  /\ chan = <<>>
  /\ remaining = [c \in Loads |-> 0]
  /\ worker = [w \in Workers |-> [pc |-> "idle", task |-> NoTask]]
  /\ mem = [c \in Cells |-> Empty]

(* A task some worker still has to read or to count. *)
Held(w) == worker[w].pc \in {"reading", "counting"}

(* No task, queued or in a worker's hands, refers to the completion. *)
IdleLoad(c) ==
  /\ \A k \in 1..Len(chan) : chan[k].load # c
  /\ \A w \in Workers : worker[w].task # NoTask => worker[w].task.load # c

(* Arc::new(IoCompletion): an identity no live task uses.  An instance     *)
(* must give enough of them: TLC stops on a CHOOSE with no choice.         *)
FreshLoad == CHOOSE c \in Loads : IdleLoad(c)

-----------------------------------------------------------------------------
(* What a submitting thread does. *)

(* Mutant: the counter starts one short. *)
SendOneShort(c, tasks) ==
  /\ remaining' = [remaining EXCEPT ![c] = Len(tasks) - 1]
  /\ chan' = chan \o tasks

(* IoCompletion::remaining starts at the number of tasks; every task is    *)
(* sent while the io_pool lock is held, so the sends are one step.         *)
Send(c, tasks) ==
  /\ remaining' = [remaining EXCEPT ![c] = Len(tasks)]
  /\ chan' = chan \o tasks

(* Mutant: no notify_all. *)
PublishSilently(l) ==
  /\ layer_status' = [layer_status EXCEPT ![l] = "Loaded"]
  /\ UNCHANGED parked

(* status.insert(layer, Loaded); layer_notify.notify_all() *)
PublishLoaded(l) ==
  /\ layer_status' = [layer_status EXCEPT ![l] = "Loaded"]
  /\ parked' = FALSE

-----------------------------------------------------------------------------
(* io_worker *)

Recv(w) ==
  /\ worker[w].pc = "idle"
  /\ chan # <<>>
  /\ worker' = [worker EXCEPT ![w] = [pc |-> "reading", task |-> Head(chan)]]
  /\ chan' = Tail(chan)
  /\ UNCHANGED <<layer_status, parked, pool_open, remaining, mem>>

(* The content of memory after the cells in "done" were read. *)
AfterRead(done) ==
  [c \in Cells |-> IF \E d \in Data : <<c, d>> \in done
                     THEN CHOOSE d \in Data : <<c, d>> \in done
                     ELSE mem[c]]

(* pread_region for every region of the task.  pread returning n <= 0 ends *)
(* the region's loop with a break: the worker goes on as if it had read.   *)
Pread(w) ==
  /\ worker[w].pc = "reading"
  /\ \E done \in SUBSET worker[w].task.writes :
       /\ ~IoFaults => done = worker[w].task.writes
       /\ mem' = AfterRead(done)
  /\ worker' = [worker EXCEPT ![w].pc = "counting"]
  /\ UNCHANGED <<layer_status, parked, pool_open, chan, remaining>>

CountThen(w, publishes) ==
  LET t == worker[w].task
  IN /\ worker[w].pc = "counting"
     /\ remaining' = [remaining EXCEPT ![t.load] = @ - 1]
     /\ worker' = [worker EXCEPT ![w] =
          IF publishes
            THEN [pc |-> "publishing", task |-> t]
            ELSE [pc |-> "idle", task |-> NoTask]]
     /\ UNCHANGED <<layer_status, parked, pool_open, chan, mem>>

(* Mutants: every task publishes; the task after the last one publishes;   *)
(* a speculative load publishes too.                                       *)
CountAny(w) == CountThen(w, worker[w].task.update_status)
CountAtZero(w) ==
  CountThen(w, worker[w].task.update_status /\ remaining[worker[w].task.load] = 0)
CountSpeculative(w) == CountThen(w, remaining[worker[w].task.load] = 1)

(* remaining.fetch_sub(1): the last task of a load goes on to publish, if  *)
(* the load is to update the status at all.                                *)
Count(w) ==
  CountThen(w, worker[w].task.update_status /\ remaining[worker[w].task.load] = 1)

Publish(w) ==
  /\ worker[w].pc = "publishing"
  /\ PublishLoaded(worker[w].task.layer)
  /\ worker' = [worker EXCEPT ![w] = [pc |-> "idle", task |-> NoTask]]
  /\ UNCHANGED <<pool_open, chan, remaining, mem>>

(* Mutant: leaves tasks in the channel. *)
ExitAtOnce(w) ==
  /\ worker[w].pc = "idle"
  /\ ~pool_open
  /\ worker' = [worker EXCEPT ![w].pc = "exited"]
  /\ UNCHANGED <<layer_status, parked, pool_open, chan, remaining, mem>>

(* recv() fails once the sender is gone and the channel is drained. *)
Exit(w) ==
  /\ worker[w].pc = "idle"
  /\ chan = <<>>
  /\ ~pool_open
  /\ worker' = [worker EXCEPT ![w].pc = "exited"]
  /\ UNCHANGED <<layer_status, parked, pool_open, chan, remaining, mem>>

Work(w) == Recv(w) \/ Pread(w) \/ Count(w) \/ Publish(w) \/ Exit(w)

-----------------------------------------------------------------------------
(* IoPool::drop, as stop_io_pool runs it: close the channel, then join.    *)

CloseChannel ==
  /\ pool_open' = FALSE
  /\ UNCHANGED <<layer_status, parked, chan, remaining, worker, mem>>

AllExited == \A w \in Workers : worker[w].pc = "exited"

-----------------------------------------------------------------------------
(* IoCompletion.remaining counts the tasks not yet counted, so that        *)
(* fetch_sub never goes below zero and exactly one task of a load sees 1.  *)
RemainingIsExact ==
  \A c \in Loads :
    remaining[c] = Cardinality({k \in 1..Len(chan) : chan[k].load = c})
                 + Cardinality({w \in Workers : Held(w) /\ worker[w].task.load = c})
=============================================================================
