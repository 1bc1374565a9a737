--------------------------- MODULE Server_proofs ---------------------------
(***************************************************************************)
(* One generation at a time, no more chunks under way than the channel     *)
(* holds, every token in its place and honest counts, for any requests,    *)
(* any channel and any limits.  TypeOK is not inductive: that a chunk fits *)
(* depends on the task having one token in hand, and that a request starts *)
(* at zero on nothing having been done for it before it arrives.  Nor is   *)
(* TokensInOrder: it is about the client and the chunks, and the tokens on *)
(* their way through the channel and the task must go on counting where    *)
(* the chunks stop, up to what the worker has sent.                        *)
(***************************************************************************)
EXTENDS Server, SequenceTheorems, TLAPS

Holding == Generating \cup {"ok", "unlock", "failed", "panicked"}

\* The functions the actions update.
Shapes ==
  /\ worker \in [Requests -> Holding \cup {"none", "waiting", "drop", "done"}]
  /\ limit \in [Requests -> Limits \cup {0}] /\ sent \in [Requests -> Nat]
  /\ task \in [Requests -> {"none", "recv", "send", "result", "final", "done"}]
  /\ stream \in [Requests -> BOOLEAN]
  /\ client \in [Requests -> {"none", "open", "answered", "gone"}]
  /\ tokens \in [Requests -> Seq(Int)] /\ held \in [Requests -> Seq(Int)]
  /\ chunks \in [Requests -> Seq(Int)]

\* The mutex against the workers: from lock() until the guard is dropped.
LockAgrees ==
  /\ lock \in Requests \cup {Free, Poisoned}
  /\ \A r \in Requests : lock = r <=> worker[r] \in Holding

\* Nothing is done for a request before it arrives.
Untouched ==
  \A r \in Requests : client[r] = "none" =>
    worker[r] = "none" /\ task[r] = "none" /\ sent[r] = 0 /\ held[r] = <<>>

WithinLimit == \A r \in Requests : sent[r] <= limit[r]

\* A streaming task has one token in hand while it sends, none while it waits.
OneInHand ==
  \A r \in Requests :
    /\ task[r] = "send" => stream[r] /\ Len(held[r]) = 1
    /\ task[r] = "recv" /\ stream[r] => held[r] = <<>>

ChunksFit == \A r \in Requests : Len(chunks[r]) <= Cap

Inv == Shapes /\ LockAgrees /\ Untouched /\ WithinLimit /\ OneInHand /\ ChunksFit

\* No request has arrived.
LEMMA InvInit == Init => Inv
<1> SUFFICES ASSUME Init PROVE Inv
  OBVIOUS
<1> USE ServerAssumption DEF Init, All
<1>1. Shapes
  BY DEF Shapes, Holding
<1>2. LockAgrees
  BY DEF LockAgrees, Holding, Generating
<1>3. Untouched /\ WithinLimit /\ OneInHand /\ ChunksFit
  BY DEF Untouched, WithinLimit, OneInHand, ChunksFit
<1> QED
  BY <1>1, <1>2, <1>3 DEF Inv

\* The worker moves the mutex and the count; it has no hand in the chunks.
LEMMA WorkerStep ==
  ASSUME Inv, NEW r \in Requests, Worker(r)
  PROVE  Inv'
<1> USE ServerAssumption DEF Inv, taskVars, clientVars, Goto
<1>1. Shapes'
  <2> USE DEF Shapes, Holding, Generating
  <2>1. CASE Sample(r)
    <3>1. Append(tokens[r], sent'[r]) \in Seq(Int) /\ sent'[r] \in Nat
      BY <2>1 DEF Sample
    <3>2. tokens' \in [Requests -> Seq(Int)] /\ sent' \in [Requests -> Nat]
      BY <2>1, <3>1 DEF Sample
    <3>3. worker' \in [Requests -> Holding \cup {"none", "waiting", "drop", "done"}]
      BY <2>1 DEF Sample
    <3> QED
      BY <2>1, <3>2, <3>3 DEF Sample
  <2>2. CASE Unlock(r)
    BY <2>2 DEF Unlock
  <2>3. CASE Lock(r) \/ LockPoisoned(r) \/ Prompt(r) \/ Exhausted(r) \/ Decode(r)
    BY <2>3 DEF Lock, LockPoisoned, Prompt, Exhausted, Decode
  <2>4. CASE Fail(r) \/ Panic(r) \/ SendResult(r) \/ DropResult(r)
    BY <2>4 DEF Fail, Panic, SendResult, DropResult
  <2> QED
    BY <2>1, <2>2, <2>3, <2>4 DEF Worker
<1>2. LockAgrees'
  <2> USE DEF Shapes, LockAgrees, Holding, Generating
  <2>1. CASE Lock(r)
    BY <2>1 DEF Lock
  <2>2. CASE Unlock(r)
    <3>1. lock = r /\ lock' \in {Free, Poisoned}
      BY <2>2 DEF Unlock
    <3>2. worker' = [worker EXCEPT ![r] = worker'[r]] /\ worker'[r] \in {"done", "drop"}
      BY <2>2 DEF Unlock
    <3>3. \A s \in Requests : lock' # s /\ worker'[s] \notin Holding
      <4>1. lock' \notin Requests
        BY <3>1
      <4>2. ASSUME NEW s \in Requests, s # r PROVE worker'[s] \notin Holding
        <5>1. worker[s] \notin Holding
          BY <3>1, <4>2
        <5>2. worker'[s] = worker[s]
          BY <3>2, <4>2
        <5> QED
          BY <5>1, <5>2
      <4>3. worker'[r] \notin Holding
        BY <3>2
      <4> QED
        BY <4>1, <4>2, <4>3, Zenon
    <3> QED
      BY <3>1, <3>3
  <2>3. CASE Sample(r)
    BY <2>3 DEF Sample
  <2>4. CASE \/ LockPoisoned(r) \/ Prompt(r) \/ Exhausted(r) \/ Decode(r) \/ Fail(r)
             \/ Panic(r) \/ SendResult(r) \/ DropResult(r)
    BY <2>4 DEF LockPoisoned, Prompt, Exhausted, Decode, Fail, Panic, SendResult, DropResult
  <2> QED
    BY <2>1, <2>2, <2>3, <2>4 DEF Worker
<1>3. worker[r] # "none"
  BY DEF Worker, Lock, LockPoisoned, Prompt, Sample, Exhausted, Decode, Fail, Panic,
         SendResult, Unlock, DropResult, Generating
<1>4. /\ worker' = [worker EXCEPT ![r] = worker'[r]]
      /\ UNCHANGED <<limit, task, stream, held, chunks, client>>
      /\ sent' = sent \/ (sent[r] < limit[r] /\ sent' = [sent EXCEPT ![r] = @ + 1])
  BY DEF Worker, Lock, LockPoisoned, Prompt, Sample, Exhausted, Decode, Fail, Panic,
         SendResult, Unlock, DropResult, Shapes
<1>5. Untouched'
  BY <1>3, <1>4 DEF Untouched, Shapes
<1>6. WithinLimit'
  <2>1. CASE sent' = sent
    BY <1>4, <2>1 DEF WithinLimit
  <2>2. CASE sent[r] < limit[r] /\ sent' = [sent EXCEPT ![r] = @ + 1]
    <3>1. limit[r] \in Nat /\ sent[r] \in Nat
      <4>1. limit[r] \in Limits \cup {0} /\ sent[r] \in Nat
        BY DEF Shapes
      <4>2. CASE limit[r] \in Limits
        BY <4>1, <4>2, Zenon
      <4>3. CASE limit[r] = 0
        BY <4>1, <4>3
      <4> QED
        BY <4>1, <4>2, <4>3, Zenon
    <3>2. sent'[r] <= limit[r] /\ \A s \in Requests \ {r} : sent'[s] = sent[s]
      BY <2>2, <3>1 DEF Shapes
    <3> QED
      BY <1>4, <3>2 DEF WithinLimit
  <2> QED
    BY <1>4, <2>1, <2>2
<1>7. OneInHand' /\ ChunksFit'
  BY <1>4 DEF OneInHand, ChunksFit
<1> QED
  BY <1>1, <1>2, <1>5, <1>6, <1>7

\* The task moves tokens to chunks, one at a time.
LEMMA TaskStep ==
  ASSUME Inv, NEW r \in Requests, Task(r)
  PROVE  Inv'
<1> USE ServerAssumption DEF Inv, workerVars, clientVars
<1>1. task[r] # "none" /\ client[r] # "none"
  BY DEF Task, Receive, Drained, SendChunk, Answer, SendFinal, SendFails, Untouched
<1>2. UNCHANGED workerVars
  BY DEF Task, Receive, Drained, SendChunk, Answer, SendFinal, SendFails
<1>3. LockAgrees' /\ WithinLimit'
  BY <1>2 DEF LockAgrees, WithinLimit
<1>4. CASE Receive(r)
  <2>1. Len(tokens[r]) > 0 /\ Head(tokens[r]) \in Int /\ Tail(tokens[r]) \in Seq(Int)
    BY <1>4 DEF Receive, Shapes
  <2>2. Append(held[r], Head(tokens[r])) \in Seq(Int)
    BY <2>1 DEF Shapes
  <2>3. Shapes'
    BY <1>2, <1>4, <2>1, <2>2 DEF Receive, Shapes
  <2>4. stream[r] => Len(held'[r]) = 1
    BY <1>4, <2>1 DEF Receive, Shapes, OneInHand
  <2>5. OneInHand'
    BY <1>4, <2>4 DEF Receive, Shapes, OneInHand
  <2>6. Untouched' /\ ChunksFit'
    BY <1>1, <1>2, <1>4 DEF Receive, Shapes, Untouched, ChunksFit
  <2> QED
    BY <1>3, <2>3, <2>5, <2>6
<1>5. CASE SendChunk(r)
  <2>1. /\ chunks[r] \o held[r] \in Seq(Int)
        /\ Len(chunks[r] \o held[r]) = Len(chunks[r]) + 1
    <3>1. chunks[r] \in Seq(Int) /\ held[r] \in Seq(Int) /\ Len(held[r]) = 1
      BY <1>5 DEF SendChunk, Shapes, OneInHand
    <3>2. chunks[r] \o held[r] \in Seq(Int)
      BY <3>1, ConcatProperties, ZenonT(30)
    <3>3. Len(chunks[r] \o held[r]) = Len(chunks[r]) + Len(held[r])
      BY <3>1, ConcatProperties, ZenonT(30)
    <3> QED
      BY <3>1, <3>2, <3>3
  <2>2. Shapes'
    BY <1>2, <1>5, <2>1 DEF SendChunk, Shapes
  <2>3. ChunksFit'
    BY <1>5, <2>1 DEF SendChunk, Shapes, ChunksFit
  <2>4. OneInHand' /\ Untouched'
    BY <1>1, <1>2, <1>5 DEF SendChunk, Shapes, OneInHand, Untouched
  <2> QED
    BY <1>3, <2>2, <2>3, <2>4
<1>6. CASE SendFinal(r)
  <2>1. Append(chunks[r], Done) \in Seq(Int) /\ Len(Append(chunks[r], Done)) = Len(chunks[r]) + 1
    BY DEF Shapes, Done
  <2>2. Shapes'
    BY <1>2, <1>6, <2>1 DEF SendFinal, Shapes
  <2>3. ChunksFit'
    BY <1>6, <2>1 DEF SendFinal, Shapes, ChunksFit
  <2>4. OneInHand' /\ Untouched'
    BY <1>1, <1>2, <1>6 DEF SendFinal, Shapes, OneInHand, Untouched
  <2> QED
    BY <1>3, <2>2, <2>3, <2>4
<1>7. CASE Drained(r) \/ Answer(r) \/ SendFails(r)
  <2>1. Shapes'
    BY <1>2, <1>7 DEF Drained, Answer, SendFails, Shapes
  <2>2. OneInHand' /\ Untouched' /\ ChunksFit'
    BY <1>1, <1>2, <1>7, SMTT(30) DEF Drained, Answer, SendFails, Shapes, OneInHand, Untouched, ChunksFit
  <2> QED
    BY <1>3, <2>1, <2>2
<1> QED
  BY <1>4, <1>5, <1>6, <1>7 DEF Task

\* A request arrives, takes a chunk or goes away.
LEMMA ClientStep ==
  ASSUME Inv, NEW r \in Requests, Arrive(r) \/ Take(r) \/ Leave(r)
  PROVE  Inv'
<1> USE ServerAssumption DEF Inv, workerVars, taskVars
<1>1. CASE Arrive(r)
  <2>1. worker[r] = "none" /\ task[r] = "none" /\ sent[r] = 0 /\ held[r] = <<>>
    BY <1>1 DEF Arrive, Untouched
  <2>2. PICK s \in BOOLEAN, n \in Limits :
          stream' = [stream EXCEPT ![r] = s] /\ limit' = [limit EXCEPT ![r] = n]
    BY <1>1 DEF Arrive
  <2>3. Shapes'
    BY <1>1, <2>2 DEF Arrive, Shapes
  <2>4. LockAgrees'
    BY <1>1, <2>1 DEF Arrive, Shapes, LockAgrees, Holding, Generating
  <2>5. WithinLimit'
    BY <1>1, <2>1, <2>2 DEF Arrive, Shapes, WithinLimit
  <2>6. OneInHand' /\ Untouched' /\ ChunksFit'
    <3>1. OneInHand'
      BY <1>1, <2>1, <2>2 DEF Arrive, Shapes, OneInHand
    <3>2. Untouched'
      BY <1>1, <2>1 DEF Arrive, Shapes, Untouched
    <3>3. ChunksFit'
      BY <1>1 DEF Arrive, ChunksFit
    <3> QED
      BY <3>1, <3>2, <3>3
  <2> QED
    BY <2>3, <2>4, <2>5, <2>6
<1>2. CASE Take(r)
  <2>1. Len(chunks[r]) > 0
    BY <1>2 DEF Take, Shapes
  <2>2. Tail(chunks[r]) \in Seq(Int) /\ Len(Tail(chunks[r])) = Len(chunks[r]) - 1
    BY <2>1 DEF Shapes
  <2>3. Shapes'
    BY <1>2, <2>2 DEF Take, Shapes
  <2>4. ChunksFit'
    BY <1>2, <2>2 DEF Take, Shapes, ChunksFit
  <2>5. Untouched'
    BY <1>2 DEF Take, Shapes, Untouched
  <2>6. LockAgrees' /\ WithinLimit' /\ OneInHand'
    BY <1>2 DEF Take, LockAgrees, WithinLimit, OneInHand
  <2> QED
    BY <2>3, <2>4, <2>5, <2>6
<1>3. CASE Leave(r)
  <2>1. Shapes'
    BY <1>3 DEF Leave, Shapes
  <2>2. OneInHand' /\ Untouched'
    BY <1>3 DEF Leave, Shapes, OneInHand, Untouched
  <2>3. LockAgrees' /\ WithinLimit' /\ ChunksFit'
    BY <1>3 DEF Leave, LockAgrees, WithinLimit, ChunksFit
  <2> QED
    BY <2>1, <2>2, <2>3
<1> QED
  BY <1>1, <1>2, <1>3

\* Every step keeps the invariant.
LEMMA InvNext == Inv /\ [Next]_vars => Inv'
<1> SUFFICES ASSUME Inv, [Next]_vars PROVE Inv'
  OBVIOUS
<1>1. ASSUME NEW r \in Requests, Worker(r) PROVE Inv'
  BY <1>1, WorkerStep
<1>2. ASSUME NEW r \in Requests, Task(r) PROVE Inv'
  BY <1>2, TaskStep
<1>3. ASSUME NEW r \in Requests, Arrive(r) \/ Take(r) \/ Leave(r) PROVE Inv'
  BY <1>3, ClientStep
<1>4. CASE UNCHANGED vars
  BY <1>4 DEF vars, workerVars, taskVars, clientVars, Inv, Shapes, LockAgrees, Untouched,
              WithinLimit, OneInHand, ChunksFit
<1>5. CASE Quiet
  BY <1>4, <1>5 DEF Quiet
<1> QED
  BY <1>1, <1>2, <1>3, <1>4, <1>5 DEF Next

\* The mutex is held by the request that generates and by no other; no answer is
\* longer than asked for, and no chunk is sent without room.
THEOREM OneGeneration == Spec => []TypeOK
<1>1. Inv => TypeOK
  <2> SUFFICES ASSUME Inv PROVE TypeOK
    OBVIOUS
  <2> SUFFICES ASSUME NEW r \in Requests
               PROVE  /\ (lock = r) <=> worker[r] \in Holding
                      /\ sent[r] \in 0 .. limit[r] /\ limit[r] \in Limits \cup {0}
                      /\ Len(chunks[r]) <= Cap
                      /\ task[r] \in {"none", "recv", "send", "result", "final", "done"}
                      /\ client[r] \in {"none", "open", "answered", "gone"}
    BY DEF TypeOK, Inv, LockAgrees, Holding
  <2>1. sent[r] \in 0 .. limit[r]
    BY ServerAssumption DEF Inv, Shapes, WithinLimit
  <2> QED
    BY <2>1 DEF Inv, Shapes, LockAgrees, ChunksFit
<1> QED
  BY <1>1, InvInit, InvNext, PTL DEF Spec

-----------------------------------------------------------------------------
(* The tokens, one after the other. *)

ResultShapes == result \in [Requests -> Seq(Int)] /\ got \in [Requests -> Seq(Int)]

\* Nothing is under way before the request arrives.
Blank(r) ==
  client[r] = "none" =>
    tokens[r] = <<>> /\ chunks[r] = <<>> /\ got[r] = <<>> /\ result[r] = <<>>

\* The tokens among the chunks, and those the task has in hand.
Shown(r) == IF task[r] = "done" THEN Len(chunks[r]) - 1 ELSE Len(chunks[r])
InHand(r) == IF task[r] = "done" THEN 0 ELSE Len(held[r])

\* Each place goes on counting where the one before it stopped.
Flow(r) ==
  /\ \A i \in 1 .. Len(got[r]) : got[r][i] = i
  /\ \A i \in 1 .. Shown(r) : chunks[r][i] = Len(got[r]) + i
  /\ \A i \in 1 .. InHand(r) : held[r][i] = Len(got[r]) + Shown(r) + i
  /\ \A i \in 1 .. Len(tokens[r]) : tokens[r][i] = Len(got[r]) + Shown(r) + InHand(r) + i
  /\ sent[r] = Len(got[r]) + Shown(r) + InHand(r) + Len(tokens[r])

\* What the task has seen when it is where it is, while its client stays.
Stage(r) ==
  /\ task[r] # "none" /\ worker[r] # "none"
  /\ task[r] \in {"send", "final", "done"} => stream[r]
  /\ task[r] = "done" => chunks[r] # <<>> /\ chunks[r][Len(chunks[r])] = Done
  /\ stream[r] /\ task[r] # "send" => held[r] = <<>>
  /\ ~stream[r] => chunks[r] = <<>> /\ got[r] = <<>>
  /\ task[r] \in {"result", "final", "done"} => tokens[r] = <<>> /\ Closed(r)
  /\ task[r] \in {"final", "done"} => result[r] # <<>>

\* A result comes when no token follows, and says how many there were.
Outcome(r) ==
  /\ result[r] # <<>> => \/ result[r] = <<NoCounts>> /\ worker[r] = "done"
                         \/ result[r] = <<sent[r]>> /\ worker[r] \in {"unlock", "done"}
  /\ client[r] = "answered" => /\ result[r] # <<>>
                               /\ result[r] # <<NoCounts>> => Len(got[r]) = sent[r]
  /\ client[r] \in {"answered", "gone"} /\ ~stream[r] => task[r] = "done"

FlowInv ==
  /\ ResultShapes
  /\ \A r \in Requests : Blank(r) /\ (client[r] = "open" => Flow(r) /\ Stage(r)) /\ Outcome(r)

\* The elements of two sequences one after the other.
LEMMA Concatenation ==
  ASSUME NEW s \in Seq(Int), NEW t \in Seq(Int)
  PROVE  /\ s \o t \in Seq(Int)
         /\ Len(s \o t) = Len(s) + Len(t)
         /\ \A i \in 1 .. Len(s) + Len(t) :
              (s \o t)[i] = IF i <= Len(s) THEN s[i] ELSE t[i - Len(s)]
  BY ConcatProperties, ZenonT(30)

\* A sequence that goes on counting where another stops.
LEMMA CountsOn ==
  ASSUME NEW s \in Seq(Int), NEW t \in Seq(Int),
         \A i \in 1 .. Len(s) : s[i] = i, \A i \in 1 .. Len(t) : t[i] = Len(s) + i
  PROVE  /\ s \o t \in Seq(Int)
         /\ Len(s \o t) = Len(s) + Len(t)
         /\ \A i \in 1 .. Len(s \o t) : (s \o t)[i] = i
<1>1. /\ s \o t \in Seq(Int)
      /\ Len(s \o t) = Len(s) + Len(t)
      /\ \A i \in 1 .. Len(s) + Len(t) :
           (s \o t)[i] = IF i <= Len(s) THEN s[i] ELSE t[i - Len(s)]
  BY Concatenation
<1>2. ASSUME NEW i \in 1 .. Len(s) + Len(t)
      PROVE  (s \o t)[i] = i
  <2>1. Len(s) \in Nat /\ Len(t) \in Nat
    OBVIOUS
  <2>2. CASE i <= Len(s)
    <3>1. i \in 1 .. Len(s) /\ (s \o t)[i] = s[i]
      BY <1>1, <2>1, <2>2
    <3> QED
      BY <3>1
  <2>3. CASE ~(i <= Len(s))
    <3>1. i - Len(s) \in 1 .. Len(t) /\ (s \o t)[i] = t[i - Len(s)]
      BY <1>1, <2>1, <2>3
    <3>2. t[i - Len(s)] = Len(s) + (i - Len(s))
      BY <3>1
    <3> QED
      BY <2>1, <3>1, <3>2
  <2> QED
    BY <2>2, <2>3
<1> QED
  BY <1>1, <1>2

\* Nothing has happened yet.
LEMMA FlowInit == Init => FlowInv
  BY DEF Init, All, FlowInv, ResultShapes, Blank, Outcome

\* What a request sees of a step of another: nothing.
Same(s) ==
  /\ worker'[s] = worker[s] /\ sent'[s] = sent[s] /\ tokens'[s] = tokens[s]
  /\ result'[s] = result[s] /\ task'[s] = task[s] /\ stream'[s] = stream[s]
  /\ held'[s] = held[s] /\ chunks'[s] = chunks[s] /\ client'[s] = client[s] /\ got'[s] = got[s]

\* The invariant of a request.
Kept(r) == Blank(r) /\ (client[r] = "open" => Flow(r) /\ Stage(r)) /\ Outcome(r)

\* A request that sees nothing of a step keeps its part of the invariant.
LEMMA SameKeeps ==
  ASSUME NEW s \in Requests, Same(s), Kept(s)
  PROVE  Kept(s)'
<1> USE DEF Same
<1>1. Shown(s)' = Shown(s) /\ InHand(s)' = InHand(s) /\ Closed(s)' = Closed(s)
  BY DEF Shown, InHand, Closed
<1>2. Flow(s) => Flow(s)'
  BY <1>1 DEF Flow
<1>3. Stage(s) => Stage(s)'
  BY <1>1 DEF Stage
<1>4. Blank(s)' /\ Outcome(s)'
  BY DEF Kept, Blank, Outcome
<1> QED
  BY <1>2, <1>3, <1>4 DEF Kept

\* The requests keep apart.
LEMMA OthersSame ==
  ASSUME Shapes, ResultShapes, NEW r \in Requests,
         Arrive(r) \/ Worker(r) \/ Task(r) \/ Take(r) \/ Leave(r), NEW s \in Requests \ {r}
  PROVE  Same(s)
<1> USE DEF Same, Shapes, ResultShapes, workerVars, taskVars, clientVars, Goto
<1>1. CASE Worker(r)
  <2>1. CASE Lock(r) \/ LockPoisoned(r) \/ Prompt(r) \/ Exhausted(r) \/ Decode(r)
    BY <2>1 DEF Lock, LockPoisoned, Prompt, Exhausted, Decode
  <2>2. CASE Fail(r) \/ Panic(r) \/ SendResult(r) \/ Unlock(r) \/ DropResult(r)
    BY <2>2 DEF Fail, Panic, SendResult, Unlock, DropResult
  <2>3. CASE Sample(r)
    BY <2>3 DEF Sample
  <2> QED
    BY <1>1, <2>1, <2>2, <2>3 DEF Worker
<1>2. CASE Task(r)
  <2>1. CASE Receive(r) \/ Drained(r) \/ SendChunk(r)
    BY <2>1, SMTT(30) DEF Receive, Drained, SendChunk
  <2>2. CASE Answer(r) \/ SendFinal(r) \/ SendFails(r)
    BY <2>2 DEF Answer, SendFinal, SendFails
  <2> QED
    BY <1>2, <2>1, <2>2 DEF Task
<1>3. CASE Arrive(r)
  BY <1>3 DEF Arrive
<1>4. CASE Take(r) \/ Leave(r)
  BY <1>4, SMTT(30) DEF Take, Leave
<1> QED
  BY <1>1, <1>2, <1>3, <1>4

\* The results and what the clients have keep their shapes.
LEMMA ResultShapesNext ==
  ASSUME Shapes, ResultShapes, NEW r \in Requests,
         Arrive(r) \/ Worker(r) \/ Task(r) \/ Take(r) \/ Leave(r)
  PROVE  ResultShapes'
<1> USE DEF Shapes, ResultShapes, workerVars, taskVars, clientVars, Goto
<1>1. CASE Worker(r)
  <2>1. <<sent[r]>> \in Seq(Int) /\ <<NoCounts>> \in Seq(Int)
    BY DEF NoCounts
  <2>2. got' = got
    BY <1>1 DEF Worker, Lock, LockPoisoned, Prompt, Sample, Exhausted, Decode, Fail, Panic,
                SendResult, Unlock, DropResult
  <2>3. \/ result' = result
        \/ result' = [result EXCEPT ![r] = <<sent[r]>>]
        \/ result' = [result EXCEPT ![r] = <<NoCounts>>]
    BY <1>1 DEF Worker, Lock, LockPoisoned, Prompt, Sample, Exhausted, Decode, Fail, Panic,
                SendResult, Unlock, DropResult
  <2> QED
    BY <2>1, <2>2, <2>3
<1>2. CASE Task(r)
  <2>1. CASE Answer(r)
    <3>1. result' = result /\ (got' = got \/ got' = [got EXCEPT ![r] = held[r]])
      BY <2>1 DEF Answer
    <3> QED
      BY <3>1
  <2>2. CASE ~Answer(r)
    <3>1. result' = result /\ got' = got
      BY <1>2, <2>2 DEF Task, Receive, Drained, SendChunk, SendFinal, SendFails
    <3> QED
      BY <3>1
  <2> QED
    BY <2>1, <2>2
<1>3. CASE Arrive(r) \/ Leave(r)
  BY <1>3 DEF Arrive, Leave
<1>4. CASE Take(r)
  <2>1. chunks[r] # <<>> => Append(got[r], Head(chunks[r])) \in Seq(Int)
    OBVIOUS
  <2> QED
    BY <1>4, <2>1 DEF Take
<1> QED
  BY <1>1, <1>2, <1>3, <1>4

\* The worker counts the tokens it sends and reports the count.
LEMMA WorkerKeeps ==
  ASSUME Inv, ResultShapes, NEW r \in Requests, Kept(r), Worker(r)
  PROVE  Kept(r)'
<1> USE DEF Inv, Shapes, ResultShapes, taskVars, clientVars, Goto, Kept
<1>1. client[r] # "none"
  BY DEF Worker, Lock, LockPoisoned, Prompt, Sample, Exhausted, Decode, Fail, Panic,
         SendResult, Unlock, DropResult, Generating, Untouched
<1>2. client' = client
  BY DEF Worker, Lock, LockPoisoned, Prompt, Sample, Exhausted, Decode, Fail, Panic,
         SendResult, Unlock, DropResult
<1>3. CASE Sample(r)
  <2>1. /\ worker[r] = "sample" /\ sent'[r] = sent[r] + 1 /\ worker'[r] \in {"ok", "decode"}
        /\ UNCHANGED <<result, task, stream, held, chunks, got>>
        /\ tokens'[r] = IF Receives(r) THEN Append(tokens[r], sent[r] + 1) ELSE tokens[r]
    BY <1>3 DEF Sample
  <2>2. result[r] = <<>>
    BY <2>1 DEF Outcome
  <2>3. ASSUME client[r] = "open"
        PROVE  Flow(r)' /\ Stage(r)'
    <3>1. task[r] \notin {"result", "final", "done"}
      BY <2>1, <2>3 DEF Stage, Closed, Generating
    <3>2. tokens'[r] = Append(tokens[r], sent[r] + 1)
      BY <2>1, <3>1 DEF Receives
    <3>3. Stage(r)'
      BY <2>1, <2>3, <3>1 DEF Stage
    <3>4. /\ Len(tokens'[r]) = Len(tokens[r]) + 1 /\ Len(tokens[r]) \in Nat
          /\ tokens'[r][Len(tokens[r]) + 1] = sent[r] + 1
          /\ \A i \in 1 .. Len(tokens[r]) : tokens'[r][i] = tokens[r][i]
      BY <3>2
    <3>5. Shown(r)' = Shown(r) /\ InHand(r)' = InHand(r) /\ Shown(r) \in Int /\ InHand(r) \in Int
          /\ Len(got[r]) \in Nat
      BY <2>1 DEF Shown, InHand
    <3>6. Flow(r)
      BY <2>3
    <3>7. sent[r] = Len(got[r]) + Shown(r) + InHand(r) + Len(tokens[r])
      BY <3>6 DEF Flow
    <3>8. \A i \in 1 .. Len(tokens'[r]) :
             tokens'[r][i] = Len(got[r]) + Shown(r) + InHand(r) + i
      <4> SUFFICES ASSUME NEW i \in 1 .. Len(tokens[r]) + 1
                   PROVE  tokens'[r][i] = Len(got[r]) + Shown(r) + InHand(r) + i
        BY <3>4
      <4>1. CASE i \in 1 .. Len(tokens[r])
        BY <3>4, <3>6, <4>1 DEF Flow
      <4>2. CASE i = Len(tokens[r]) + 1
        <5>1. tokens'[r][i] = sent[r] + 1
          BY <3>4, <4>2
        <5> DEFINE a == Len(got[r])
                   b == Shown(r)
                   c == InHand(r)
                   n == Len(tokens[r])
                   k == sent[r]
        <5>2. a \in Int /\ b \in Int /\ c \in Int /\ sent[r] = a + b + c + Len(tokens[r])
          BY <3>5, <3>7
        <5>3. n \in Nat /\ i = n + 1
          BY <3>4, <4>2
        <5>4. k = a + b + c + n
          BY <5>2
        <5> HIDE DEF a, b, c, n, k
        <5>5. k + 1 = a + b + c + i
          BY <5>2, <5>3, <5>4
        <5> QED
          BY <5>1, <5>5 DEF a, b, c, k
      <4> QED
        BY <3>4, <4>1, <4>2
    <3>9. sent'[r] = Len(got[r]) + Shown(r) + InHand(r) + Len(tokens'[r])
      BY <2>1, <3>4, <3>5, <3>7, SMTT(30)
    <3> HIDE DEF Shown, InHand
    <3>10. Flow(r)'
      BY <2>1, <3>5, <3>6, <3>8, <3>9 DEF Flow
    <3> QED
      BY <3>3, <3>10
  <2>4. Outcome(r)'
    BY <1>2, <2>1, <2>2 DEF Outcome
  <2> QED
    BY <1>1, <1>2, <2>3, <2>4 DEF Blank
<1>4. CASE ~Sample(r)
  <2>1. UNCHANGED <<sent, tokens, task, stream, held, chunks, got>>
    <3>1. CASE Lock(r) \/ LockPoisoned(r) \/ Prompt(r) \/ Exhausted(r) \/ Decode(r)
      BY <3>1 DEF Lock, LockPoisoned, Prompt, Exhausted, Decode
    <3>2. CASE Fail(r) \/ Panic(r) \/ SendResult(r) \/ Unlock(r) \/ DropResult(r)
      BY <3>2 DEF Fail, Panic, SendResult, Unlock, DropResult
    <3> QED
      BY <1>4, <3>1, <3>2 DEF Worker
  <2>2. Flow(r) => Flow(r)'
    BY <2>1 DEF Flow, Shown, InHand
  <2>3. worker'[r] # "none" /\ (Closed(r) => Closed(r)') /\ (result[r] # <<>> => result'[r] # <<>>)
    <3> USE DEF Closed, Generating
    <3>1. CASE Lock(r) \/ LockPoisoned(r) \/ Prompt(r) \/ Exhausted(r) \/ Decode(r)
      BY <3>1 DEF Lock, LockPoisoned, Prompt, Exhausted, Decode
    <3>2. CASE Fail(r) \/ Panic(r) \/ Unlock(r)
      BY <3>2 DEF Fail, Panic, Unlock
    <3>3. CASE SendResult(r)
      BY <3>3 DEF SendResult
    <3>4. CASE DropResult(r)
      BY <3>4 DEF DropResult
    <3> QED
      BY <1>4, <3>1, <3>2, <3>3, <3>4 DEF Worker
  <2>4. Stage(r) => Stage(r)'
    BY <2>1, <2>3 DEF Stage
  <2>5. Outcome(r)'
    <3>1. CASE result' = result
      BY <1>2, <1>4, <2>1, <3>1 DEF Worker, Lock, LockPoisoned, Prompt, Exhausted, Decode, Fail, Panic,
                SendResult, Unlock, DropResult, Outcome, Generating
    <3>2. CASE SendResult(r)
      BY <1>2, <2>1, <3>2 DEF SendResult, Outcome
    <3>3. CASE DropResult(r)
      BY <1>2, <2>1, <3>3 DEF DropResult, Outcome
    <3> QED
      BY <1>4, <3>1, <3>2, <3>3 DEF Worker, Lock, LockPoisoned, Prompt, Exhausted, Decode, Fail, Panic, Unlock
  <2> QED
    BY <1>1, <1>2, <2>2, <2>4, <2>5 DEF Blank
<1> QED
  BY <1>3, <1>4

\* The task moves tokens on, one at a time, and answers with all of them.
LEMMA TaskKeeps ==
  ASSUME Inv, ResultShapes, NEW r \in Requests, Kept(r), Task(r)
  PROVE  Kept(r)'
<1> USE DEF Inv, Shapes, ResultShapes, workerVars, Kept
<1>1. client[r] # "none" /\ client'[r] # "none" /\ UNCHANGED <<worker, sent, result, stream>>
  BY DEF Task, Receive, Drained, SendChunk, Answer, SendFinal, SendFails, Untouched, workerVars, clientVars
<1>2. Blank(r)'
  BY <1>1 DEF Blank
<1>3. CASE Receive(r)
  <2>1. /\ task[r] = "recv" /\ tokens[r] # <<>> /\ task'[r] \in {"send", "recv"}
        /\ task'[r] = "send" <=> stream[r]
        /\ tokens'[r] = Tail(tokens[r]) /\ held'[r] = Append(held[r], Head(tokens[r]))
        /\ UNCHANGED <<chunks, client, got>>
    BY <1>3 DEF Receive, clientVars
  <2>2. ASSUME client[r] = "open"
        PROVE  Flow(r)' /\ Stage(r)'
    <3>1. Stage(r)'
      BY <1>1, <2>1, <2>2 DEF Stage
    <3> DEFINE base == Len(got[r]) + Len(chunks[r])
    <3>2. Shown(r) = Len(chunks[r]) /\ Shown(r)' = Len(chunks[r])
          /\ InHand(r) = Len(held[r]) /\ InHand(r)' = Len(held'[r])
      BY <2>1 DEF Shown, InHand
    <3>3. /\ \A i \in 1 .. Len(got[r]) : got[r][i] = i
          /\ \A i \in 1 .. Len(chunks[r]) : chunks[r][i] = Len(got[r]) + i
          /\ \A i \in 1 .. Len(held[r]) : held[r][i] = base + i
          /\ \A i \in 1 .. Len(tokens[r]) : tokens[r][i] = base + Len(held[r]) + i
          /\ sent[r] = base + Len(held[r]) + Len(tokens[r])
      BY <2>2, <3>2 DEF Flow
    <3>4. /\ Len(tokens[r]) \in Nat /\ Len(tokens[r]) > 0 /\ Len(held[r]) \in Nat /\ base \in Nat
          /\ Head(tokens[r]) = tokens[r][1]
          /\ Len(tokens'[r]) = Len(tokens[r]) - 1
          /\ \A i \in 1 .. Len(tokens'[r]) : tokens'[r][i] = tokens[r][i + 1]
      BY <2>1
    <3>5. /\ Len(held'[r]) = Len(held[r]) + 1
          /\ held'[r][Len(held[r]) + 1] = tokens[r][1]
          /\ \A i \in 1 .. Len(held[r]) : held'[r][i] = held[r][i]
      BY <2>1, <3>4
    <3> HIDE DEF base, Inv, Shapes, ResultShapes, workerVars, Kept
    <3>6. \A i \in 1 .. Len(held'[r]) : held'[r][i] = base + i
      <4>1. tokens[r][1] = base + Len(held[r]) + 1
        BY <3>3, <3>4, SMTT(30)
      <4> SUFFICES ASSUME NEW i \in 1 .. Len(held[r]) + 1
                   PROVE  held'[r][i] = base + i
        BY <3>5
      <4>2. CASE i \in 1 .. Len(held[r])
        BY <3>3, <3>5, <4>2
      <4>3. CASE i = Len(held[r]) + 1
        <5>1. held'[r][i] = base + Len(held[r]) + 1
          BY <3>5, <4>1, <4>3
        <5> QED
          BY <3>4, <4>3, <5>1
      <4> QED
        BY <3>4, <4>2, <4>3
    <3>7. \A i \in 1 .. Len(tokens'[r]) : tokens'[r][i] = base + Len(held'[r]) + i
      <4>1. \A i \in 1 .. Len(tokens'[r]) : i + 1 \in 1 .. Len(tokens[r])
        BY <3>4
      <4> QED
        BY <3>3, <3>4, <3>5, <4>1
    <3>8. sent[r] = base + Len(held'[r]) + Len(tokens'[r])
      <4> DEFINE h == Len(held[r])
                 k == Len(tokens[r])
      <4>1. sent[r] = base + h + k /\ Len(held'[r]) = h + 1 /\ Len(tokens'[r]) = k - 1
        BY <3>3, <3>4, <3>5
      <4>2. h \in Nat /\ k \in Nat /\ base \in Nat
        BY <3>4
      <4> HIDE DEF h, k
      <4>3. base + (h + 1) + (k - 1) = base + h + k
        BY <4>2
      <4> QED
        BY <4>1, <4>3
    <3>9. Flow(r)'
      BY <1>1, <2>1, <3>2, <3>3, <3>6, <3>7, <3>8 DEF Flow, base
    <3> QED
      BY <3>1, <3>9
  <2>3. Outcome(r)'
    BY <1>1, <2>1 DEF Outcome
  <2> QED
    BY <1>2, <2>1, <2>2, <2>3
<1>4. CASE Drained(r)
  <2>1. /\ task[r] = "recv" /\ tokens[r] = <<>> /\ Closed(r) /\ task'[r] = "result"
        /\ UNCHANGED <<tokens, held, chunks, client, got>>
    BY <1>4 DEF Drained, clientVars
  <2>2. Flow(r) => Flow(r)'
    BY <1>1, <2>1 DEF Flow, Shown, InHand
  <2>3. Stage(r) => Stage(r)'
    BY <1>1, <2>1 DEF Stage, Closed
  <2>4. Outcome(r)'
    BY <1>1, <2>1 DEF Outcome
  <2> QED
    BY <1>2, <2>1, <2>2, <2>3, <2>4
<1>5. CASE SendChunk(r)
  <2>1. /\ task[r] = "send" /\ task'[r] = "recv"
        /\ chunks'[r] = chunks[r] \o held[r] /\ held'[r] = <<>>
        /\ UNCHANGED <<tokens, client, got>>
    BY <1>5 DEF SendChunk, clientVars
  <2>2. ASSUME client[r] = "open"
        PROVE  Flow(r)' /\ Stage(r)'
    <3>1. Stage(r)'
      BY <1>1, <2>1, <2>2 DEF Stage
    <3>2. Shown(r) = Len(chunks[r]) /\ Shown(r)' = Len(chunks'[r])
          /\ InHand(r) = Len(held[r]) /\ InHand(r)' = Len(held'[r])
      BY <2>1 DEF Shown, InHand
    <3>3. /\ \A i \in 1 .. Len(got[r]) : got[r][i] = i
          /\ \A i \in 1 .. Len(chunks[r]) : chunks[r][i] = Len(got[r]) + i
          /\ \A i \in 1 .. Len(held[r]) : held[r][i] = Len(got[r]) + Len(chunks[r]) + i
          /\ \A i \in 1 .. Len(tokens[r]) : tokens[r][i] = Len(got[r]) + Len(chunks[r]) + Len(held[r]) + i
          /\ sent[r] = Len(got[r]) + Len(chunks[r]) + Len(held[r]) + Len(tokens[r])
      BY <2>2, <3>2 DEF Flow
    <3>4. chunks[r] \in Seq(Int) /\ held[r] \in Seq(Int)
      OBVIOUS
    <3>5. /\ Len(chunks'[r]) = Len(chunks[r]) + Len(held[r])
          /\ \A i \in 1 .. Len(chunks[r]) + Len(held[r]) :
               chunks'[r][i] = IF i <= Len(chunks[r]) THEN chunks[r][i] ELSE held[r][i - Len(chunks[r])]
      BY <2>1, <3>4, Concatenation
    <3>6. Len(chunks[r]) \in Nat /\ Len(held[r]) \in Nat /\ Len(got[r]) \in Nat /\ Len(held'[r]) = 0
          /\ Len(tokens[r]) \in Nat
      BY <2>1
    <3>7. \A i \in 1 .. Len(chunks'[r]) : chunks'[r][i] = Len(got[r]) + i
      <4> SUFFICES ASSUME NEW i \in 1 .. Len(chunks[r]) + Len(held[r])
                   PROVE  chunks'[r][i] = Len(got[r]) + i
        BY <3>5
      <4>1. CASE i <= Len(chunks[r])
        <5>1. i \in 1 .. Len(chunks[r]) /\ chunks'[r][i] = chunks[r][i]
          BY <3>5, <3>6, <4>1
        <5> QED
          BY <3>3, <5>1
      <4>2. CASE ~(i <= Len(chunks[r]))
        <5>1. i - Len(chunks[r]) \in 1 .. Len(held[r])
          BY <3>6, <4>2
        <5>2. chunks'[r][i] = held[r][i - Len(chunks[r])]
          BY <3>5, <4>2
        <5>3. held[r][i - Len(chunks[r])] = Len(got[r]) + Len(chunks[r]) + (i - Len(chunks[r]))
          BY <3>3, <5>1
        <5> QED
          BY <3>6, <5>2, <5>3
      <4> QED
        BY <4>1, <4>2
    <3>8. \A i \in 1 .. Len(tokens[r]) :
            tokens[r][i] = Len(got[r]) + Len(chunks'[r]) + Len(held'[r]) + i
      <4> SUFFICES ASSUME NEW i \in 1 .. Len(tokens[r])
                   PROVE  tokens[r][i] = Len(got[r]) + Len(chunks'[r]) + Len(held'[r]) + i
        OBVIOUS
      <4>1. tokens[r][i] = Len(got[r]) + Len(chunks[r]) + Len(held[r]) + i
        BY <3>3
      <4> QED
        BY <3>5, <3>6, <4>1
    <3>9. sent[r] = Len(got[r]) + Len(chunks'[r]) + Len(held'[r]) + Len(tokens[r])
      <4>1. sent[r] = Len(got[r]) + Len(chunks[r]) + Len(held[r]) + Len(tokens[r])
        BY <3>3
      <4> QED
        BY <3>5, <3>6, <4>1
    <3>10. Flow(r)'
      BY <1>1, <2>1, <3>2, <3>3, <3>6, <3>7, <3>8, <3>9 DEF Flow
    <3> QED
      BY <3>1, <3>10
  <2>3. Outcome(r)'
    BY <1>1, <2>1 DEF Outcome
  <2> QED
    BY <1>2, <2>1, <2>2, <2>3
<1>6. CASE Answer(r)
  <2>1. task[r] = "result" /\ result[r] # <<>> /\ UNCHANGED <<tokens, held, chunks>>
    BY <1>6 DEF Answer
  <2>2. CASE stream[r]
    <3>1. task'[r] = "final" /\ UNCHANGED <<client, got>>
      BY <1>6, <2>2 DEF Answer, clientVars
    <3>2. Flow(r) => Flow(r)'
      BY <1>1, <2>1, <3>1 DEF Flow, Shown, InHand
    <3>3. Stage(r) => Stage(r)'
      BY <1>1, <2>1, <2>2, <3>1 DEF Stage, Closed
    <3>4. Outcome(r)'
      BY <1>1, <2>2, <3>1 DEF Outcome
    <3> QED
      BY <1>2, <3>1, <3>2, <3>3, <3>4
  <2>3. CASE ~stream[r]
    <3>1. task'[r] = "done" /\ client'[r] = "answered" /\ got'[r] = held[r]
      BY <1>6, <2>3 DEF Answer
    <3>2. ASSUME client[r] = "open"
          PROVE  Len(held[r]) = sent[r]
      <4>1. chunks[r] = <<>> /\ got[r] = <<>> /\ tokens[r] = <<>>
        BY <2>1, <2>3, <3>2 DEF Stage
      <4>2. Shown(r) = 0 /\ InHand(r) = Len(held[r]) /\ Len(held[r]) \in Nat
        BY <2>1, <4>1 DEF Shown, InHand
      <4> QED
        BY <3>2, <4>1, <4>2 DEF Flow
    <3>3. client[r] = "open"
      BY <1>1, <2>1, <2>3 DEF Outcome
    <3>4. Outcome(r)'
      BY <1>1, <2>1, <3>1, <3>2, <3>3 DEF Outcome
    <3> QED
      BY <1>2, <3>1, <3>4
  <2> QED
    BY <2>2, <2>3
<1>7. CASE SendFinal(r)
  <2>1. /\ task[r] = "final" /\ task'[r] = "done" /\ chunks'[r] = Append(chunks[r], Done)
        /\ UNCHANGED <<tokens, held, client, got>>
    BY <1>7 DEF SendFinal, clientVars
  <2>2. /\ Len(chunks[r]) \in Nat /\ Len(chunks'[r]) = Len(chunks[r]) + 1
        /\ chunks'[r][Len(chunks'[r])] = Done /\ chunks'[r] # <<>>
        /\ \A i \in 1 .. Len(chunks[r]) : chunks'[r][i] = chunks[r][i]
    <3>1. chunks[r] \in Seq(Int) /\ Done \in Int
      BY DEF Done
    <3>2. /\ Len(chunks[r]) \in Nat /\ Len(chunks'[r]) = Len(chunks[r]) + 1
          /\ \A i \in 1 .. Len(chunks[r]) : chunks'[r][i] = chunks[r][i]
          /\ chunks'[r][Len(chunks[r]) + 1] = Done
      BY <2>1, <3>1
    <3>3. chunks'[r] # <<>>
      <4>1. Len(chunks'[r]) # 0
        BY <3>2
      <4> QED
        BY <4>1
    <3> QED
      BY <3>2, <3>3
  <2>3. ASSUME client[r] = "open"
        PROVE  Flow(r)' /\ Stage(r)'
    <3>1. Stage(r)' /\ held[r] = <<>>
      BY <1>1, <2>1, <2>2, <2>3 DEF Stage, Closed
    <3>2. Shown(r) = Len(chunks[r]) /\ Shown(r)' = Len(chunks[r]) /\ InHand(r) = 0 /\ InHand(r)' = 0
      BY <2>1, <2>2, <3>1 DEF Shown, InHand
    <3>3. Flow(r)'
      BY <1>1, <2>1, <2>2, <2>3, <3>2 DEF Flow
    <3> QED
      BY <3>1, <3>3
  <2>4. Outcome(r)'
    <3>1. client[r] \in {"answered", "gone"} => stream[r]
      BY <2>1 DEF Outcome
    <3> QED
      BY <1>1, <2>1, <3>1 DEF Outcome
  <2> QED
    BY <1>2, <2>1, <2>3, <2>4
<1>8. CASE SendFails(r)
  <2>1. client[r] = "gone" /\ UNCHANGED <<client, got>> /\ task'[r] = "done"
    BY <1>8 DEF SendFails, clientVars
  <2>2. Outcome(r)'
    BY <1>1, <2>1 DEF Outcome
  <2> QED
    BY <1>2, <2>1, <2>2
<1> QED
  BY <1>3, <1>4, <1>5, <1>6, <1>7, <1>8 DEF Task

\* A request starts with nothing, the client takes the tokens in order, and the
\* chunk with the counts is the last.
LEMMA ClientKeeps ==
  ASSUME Inv, ResultShapes, NEW r \in Requests, Kept(r), Arrive(r) \/ Take(r) \/ Leave(r)
  PROVE  Kept(r)'
<1> USE DEF Inv, Shapes, ResultShapes, workerVars, taskVars, Kept
<1>1. CASE Arrive(r)
  <2>1. /\ client[r] = "none" /\ client'[r] = "open"
        /\ worker'[r] = "waiting" /\ task'[r] = "recv"
        /\ UNCHANGED <<sent, tokens, result, held, chunks, got>>
    BY <1>1 DEF Arrive
  <2>2. /\ sent[r] = 0 /\ held[r] = <<>> /\ tokens[r] = <<>> /\ chunks[r] = <<>>
        /\ got[r] = <<>> /\ result[r] = <<>>
    BY <2>1 DEF Untouched, Blank
  <2>3. Flow(r)'
    BY <2>1, <2>2 DEF Flow, Shown, InHand
  <2>4. Stage(r)' /\ Outcome(r)' /\ Blank(r)'
    BY <2>1, <2>2 DEF Stage, Outcome, Blank
  <2> QED
    BY <2>3, <2>4
<1>2. CASE Take(r)
  <2>1. /\ client[r] = "open" /\ chunks[r] # <<>> /\ chunks'[r] = Tail(chunks[r])
        /\ UNCHANGED <<worker, sent, tokens, result, task, stream, held>>
    BY <1>2 DEF Take
  <2>2. Flow(r) /\ Stage(r) /\ stream[r]
    BY <2>1 DEF Stage
  <2>3. /\ chunks[r] \in Seq(Int) /\ Len(chunks[r]) \in Nat /\ Len(chunks[r]) > 0
        /\ Head(chunks[r]) = chunks[r][1]
        /\ Tail(chunks[r]) \in Seq(Int)
        /\ Len(Tail(chunks[r])) = Len(chunks[r]) - 1
        /\ \A i \in 1 .. Len(Tail(chunks[r])) : Tail(chunks[r])[i] = chunks[r][i + 1]
    BY <2>1
  <2>4. Len(got[r]) \in Nat /\ InHand(r) \in Int /\ Shown(r) \in Int /\ InHand(r)' = InHand(r)
        /\ Len(tokens[r]) \in Nat /\ sent[r] \in Nat
    BY <2>1, <2>3 DEF InHand, Shown
  <2>5. CASE Head(chunks[r]) = Done
    <3>1. client'[r] = "answered" /\ got' = got
      BY <1>2, <2>5 DEF Take
    <3>2. Shown(r) = 0 /\ task[r] = "done"
      <4>1. ~ (1 \in 1 .. Shown(r))
        <5>1. 1 \in 1 .. Shown(r) => chunks[r][1] = Len(got[r]) + 1
          BY <2>2 DEF Flow
        <5> QED
          BY <2>3, <2>4, <2>5, <5>1 DEF Done
      <4>2. Shown(r) < 1
        BY <2>4, <4>1
      <4>3. CASE task[r] = "done"
        BY <2>3, <4>2, <4>3 DEF Shown
      <4>4. CASE task[r] # "done"
        BY <2>3, <4>2, <4>4 DEF Shown
      <4> QED
        BY <4>3, <4>4
    <3>3. InHand(r) = 0 /\ tokens[r] = <<>> /\ result[r] # <<>>
      BY <2>2, <3>2 DEF InHand, Stage
    <3>4. Len(got[r]) = sent[r]
      <4>1. sent[r] = Len(got[r]) + Shown(r) + InHand(r) + Len(tokens[r]) /\ Len(tokens[r]) = 0
        BY <2>2, <3>3 DEF Flow
      <4> QED
        BY <2>4, <3>2, <3>3, <4>1
    <3>5. Outcome(r)'
      BY <2>1, <2>2, <3>1, <3>3, <3>4 DEF Outcome
    <3> QED
      BY <3>1, <3>5 DEF Blank
  <2>6. CASE Head(chunks[r]) # Done
    <3>1. client' = client /\ got'[r] = Append(got[r], chunks[r][1])
      BY <1>2, <2>3, <2>6 DEF Take
    <3>2. task[r] = "done" => Len(chunks[r]) > 1
      <4>1. task[r] = "done" => chunks[r][Len(chunks[r])] = Done
        BY <2>2 DEF Stage
      <4> QED
        BY <2>3, <2>6, <4>1
    <3>3. /\ Shown(r)' = Shown(r) - 1 /\ 1 \in 1 .. Shown(r)
          /\ Len(chunks'[r]) = Len(chunks[r]) - 1 /\ Shown(r) <= Len(chunks[r])
      BY <2>1, <2>3, <3>2 DEF Shown
    <3>4. chunks[r][1] = Len(got[r]) + 1
      BY <2>2, <3>3 DEF Flow
    <3>5. /\ Len(got'[r]) = Len(got[r]) + 1
          /\ got'[r][Len(got[r]) + 1] = Len(got[r]) + 1
          /\ \A i \in 1 .. Len(got[r]) : got'[r][i] = got[r][i]
      <4>1. got[r] \in Seq(Int) /\ chunks[r][1] \in Int
        BY <2>3
      <4> QED
        BY <3>1, <3>4, <4>1
    <3> HIDE DEF Inv, Shapes, ResultShapes, workerVars, taskVars, Kept
    <3>6. \A i \in 1 .. Len(got'[r]) : got'[r][i] = i
      <4>1. \A i \in 1 .. Len(got[r]) : got[r][i] = i
        BY <2>2 DEF Flow
      <4> SUFFICES ASSUME NEW i \in 1 .. Len(got[r]) + 1
                   PROVE  got'[r][i] = i
        BY <3>5
      <4>2. CASE i \in 1 .. Len(got[r])
        BY <3>5, <4>1, <4>2
      <4>3. CASE i = Len(got[r]) + 1
        BY <3>5, <4>3
      <4> QED
        BY <2>4, <4>2, <4>3
    <3> DEFINE a == Len(got[r])
               b == Shown(r)
               c == InHand(r)
    <3>7. /\ \A i \in 1 .. b : chunks[r][i] = a + i
          /\ \A i \in 1 .. c : held[r][i] = a + b + i
          /\ \A i \in 1 .. Len(tokens[r]) : tokens[r][i] = a + b + c + i
          /\ sent[r] = a + b + c + Len(tokens[r])
      BY <2>2 DEF Flow
    <3>8. a \in Nat /\ b \in Int /\ c \in Int /\ Len(got'[r]) = a + 1 /\ Shown(r)' = b - 1 /\ InHand(r)' = c
      BY <2>4, <3>3, <3>5
    <3>9. \A i \in 1 .. b - 1 : chunks'[r][i] = chunks[r][i + 1] /\ i + 1 \in 1 .. b
      BY <2>1, <2>3, <3>3, <3>8
    <3> HIDE DEF a, b, c
    <3>10. \A i \in 1 .. b - 1 : chunks'[r][i] = (a + 1) + i
      <4> SUFFICES ASSUME NEW i \in 1 .. b - 1
                   PROVE  chunks'[r][i] = (a + 1) + i
        OBVIOUS
      <4>1. chunks'[r][i] = a + (i + 1)
        BY <3>7, <3>9
      <4> QED
        BY <3>8, <4>1
    <3>11. \A i \in 1 .. c : held[r][i] = (a + 1) + (b - 1) + i
      BY <3>7, <3>8
    <3>12. \A i \in 1 .. Len(tokens[r]) : tokens[r][i] = (a + 1) + (b - 1) + c + i
      BY <3>7, <3>8
    <3>13. sent[r] = (a + 1) + (b - 1) + c + Len(tokens[r])
      <4> DEFINE k == Len(tokens[r])
      <4>1. sent[r] = a + b + c + k
        BY <3>7
      <4>2. k \in Nat
        BY DEF Inv, Shapes
      <4> HIDE DEF k
      <4>3. (a + 1) + (b - 1) + c + k = a + b + c + k
        BY <3>8, <4>2
      <4>4. sent[r] = (a + 1) + (b - 1) + c + k
        BY <4>1, <4>3
      <4> QED
        BY <4>4 DEF k
    <3>14. Flow(r)'
      <4> HIDE DEF Shown, InHand
      <4> QED BY <2>1, <3>6, <3>8, <3>10, <3>11, <3>12, <3>13 DEF Flow
    <3>15. Stage(r)'
      <4>1. task[r] = "done" => chunks'[r] # <<>> /\ chunks'[r][Len(chunks'[r])] = Done
        <5> SUFFICES ASSUME task[r] = "done"
                     PROVE  chunks'[r] # <<>> /\ chunks'[r][Len(chunks'[r])] = Done
          OBVIOUS
        <5>1. chunks[r][Len(chunks[r])] = Done /\ Len(chunks[r]) > 1
          BY <2>2, <3>2 DEF Stage
        <5>2. Len(chunks'[r]) = Len(chunks[r]) - 1 /\ Len(chunks'[r]) \in 1 .. Len(Tail(chunks[r]))
          BY <2>1, <2>3, <5>1
        <5>3. chunks'[r][Len(chunks'[r])] = chunks[r][(Len(chunks[r]) - 1) + 1]
          <6> DEFINE n == Len(chunks'[r])
          <6>1. n \in 1 .. Len(Tail(chunks[r])) /\ n = Len(chunks[r]) - 1
            BY <5>2
          <6>2. Tail(chunks[r])[n] = chunks[r][n + 1]
            <7> HIDE DEF n
            <7> QED BY <2>3, <6>1
          <6> QED
            BY <2>1, <6>1, <6>2
        <5>4. (Len(chunks[r]) - 1) + 1 = Len(chunks[r])
          BY <2>3
        <5>5. chunks'[r] # <<>>
          <6> DEFINE n == Len(chunks'[r])
          <6> DEFINE m == Len(chunks[r])
          <6>1. n = m - 1 /\ m > 1 /\ m \in Nat
            BY <2>3, <5>1, <5>2
          <6>2. n # 0
            <7> HIDE DEF n, m
            <7> QED BY <6>1
          <6>3. Len(chunks'[r]) # 0
            BY <6>2
          <6> QED
            BY <6>3
        <5> QED
          BY <5>1, <5>3, <5>4, <5>5
      <4> QED
        BY <2>1, <2>2, <4>1 DEF Stage, Closed
    <3>16. Outcome(r)' /\ Blank(r)'
      BY <2>1, <3>1 DEF Outcome, Blank, Kept, Inv, Shapes, ResultShapes, workerVars, taskVars
    <3> QED
      BY <3>14, <3>15, <3>16 DEF Kept
  <2> QED
    BY <2>5, <2>6
<1>3. CASE Leave(r)
  <2>1. /\ client[r] = "open" /\ client'[r] = "gone"
        /\ task'[r] = IF stream[r] THEN task[r] ELSE "done"
        /\ UNCHANGED <<worker, sent, result, stream>>
    BY <1>3 DEF Leave
  <2>2. Blank(r)' /\ Outcome(r)'
    BY <2>1 DEF Blank, Outcome
  <2> QED
    BY <2>1, <2>2
<1> QED
  BY <1>1, <1>2, <1>3

\* Every step keeps what every request has.
LEMMA FlowNext == Inv /\ FlowInv /\ [Next]_vars => FlowInv'
<1> SUFFICES ASSUME Inv, FlowInv, [Next]_vars PROVE FlowInv'
  OBVIOUS
<1>1. Shapes /\ ResultShapes /\ \A r \in Requests : Kept(r)
  BY DEF Inv, FlowInv, Kept
<1>2. ASSUME NEW r \in Requests, Arrive(r) \/ Worker(r) \/ Task(r) \/ Take(r) \/ Leave(r)
      PROVE  FlowInv'
  <2>1. ResultShapes'
    BY <1>1, <1>2, ResultShapesNext
  <2>2. Kept(r)'
    BY <1>1, <1>2, WorkerKeeps, TaskKeeps, ClientKeeps
  <2>3. ASSUME NEW s \in Requests \ {r}
        PROVE  Kept(s)'
    BY <1>1, <1>2, OthersSame, SameKeeps
  <2>4. \A s \in Requests : Kept(s)'
    BY <2>2, <2>3
  <2> QED
    BY <2>1, <2>4 DEF FlowInv, Kept
<1>3. CASE UNCHANGED vars
  <2>1. ResultShapes' /\ \A s \in Requests : Same(s)
    BY <1>1, <1>3 DEF vars, workerVars, taskVars, clientVars, Same, ResultShapes
  <2>2. \A s \in Requests : Kept(s)'
    BY <1>1, <2>1, SameKeeps
  <2> QED
    BY <2>1, <2>2 DEF FlowInv, Kept
<1> QED
  BY <1>2, <1>3 DEF Next, Quiet

\* What the client has and what is on its way to it are the tokens generated, in
\* order: no channel, task or response loses, repeats or overtakes one
\* (ndjson_generate_stream, collect_generate).
THEOREM InOrder == Spec => []TokensInOrder
<1>1. ASSUME Inv, FlowInv, NEW r \in Requests, client[r] = "open"
      PROVE  got[r] \o TokensAmong(chunks[r])
                    \o (IF task[r] = "done" THEN <<>> ELSE held[r]) \o tokens[r]
               = [i \in 1 .. sent[r] |-> i]
  <2> DEFINE g == got[r]
             c == TokensAmong(chunks[r])
             h == IF task[r] = "done" THEN <<>> ELSE held[r]
             t == tokens[r]
  <2>1. Flow(r) /\ Stage(r)
    BY <1>1 DEF FlowInv
  <2>2. chunks[r] \in Seq(Int) /\ held[r] \in Seq(Int) /\ g \in Seq(Int) /\ t \in Seq(Int)
        /\ Len(chunks[r]) \in Nat /\ sent[r] \in Nat
    BY <1>1 DEF Inv, Shapes, FlowInv, ResultShapes
  <2>3. /\ c \in Seq(Int) /\ Len(c) = Shown(r)
        /\ \A i \in 1 .. Shown(r) : c[i] = chunks[r][i]
    <3>1. CASE task[r] = "done"
      <4>1. chunks[r] # <<>> /\ chunks[r][Len(chunks[r])] = Done
        BY <2>1, <3>1 DEF Stage
      <4>2. c = SubSeq(chunks[r], 1, Len(chunks[r]) - 1)
        BY <4>1 DEF TokensAmong
      <4>3. Shown(r) = Len(chunks[r]) - 1 /\ Len(chunks[r]) > 0
        BY <2>2, <3>1, <4>1 DEF Shown
      <4> HIDE DEF c
      <4> QED
        BY <2>2, <4>2, <4>3
    <3>2. CASE task[r] # "done"
      <4>1. Shown(r) = Len(chunks[r])
        BY <3>2 DEF Shown
      <4>2. chunks[r] # <<>> => chunks[r][Len(chunks[r])] # Done
        <5> SUFFICES ASSUME chunks[r] # <<>> PROVE chunks[r][Len(chunks[r])] # Done
          OBVIOUS
        <5>1. Len(chunks[r]) \in 1 .. Shown(r) /\ Len(g) \in Nat
          BY <2>2, <4>1
        <5>2. chunks[r][Len(chunks[r])] = Len(g) + Len(chunks[r])
          BY <2>1, <5>1 DEF Flow
        <5>3. Len(chunks[r]) > 0
          BY <2>2, <4>1, <5>1
        <5> DEFINE n == Len(chunks[r])
                   k == Len(g)
                   last == chunks[r][Len(chunks[r])]
        <5>4. n \in Nat /\ n > 0 /\ k \in Nat /\ last = k + n
          BY <2>2, <5>1, <5>2, <5>3
        <5> HIDE DEF n, k, last
        <5>5. last # 0
          BY <5>4
        <5> QED
          BY <5>5 DEF last, Done
      <4>3. c = chunks[r]
        BY <4>2 DEF TokensAmong
      <4> QED
        BY <2>2, <4>1, <4>3
    <3> QED
      BY <3>1, <3>2
  <2>4. h \in Seq(Int) /\ Len(h) = InHand(r) /\ \A i \in 1 .. InHand(r) : h[i] = held[r][i]
    BY <2>2 DEF InHand
  <2>5. /\ \A i \in 1 .. Len(g) : g[i] = i
        /\ \A i \in 1 .. Len(c) : c[i] = Len(g) + i
        /\ \A i \in 1 .. Len(h) : h[i] = Len(g) + Len(c) + i
        /\ \A i \in 1 .. Len(t) : t[i] = Len(g) + Len(c) + Len(h) + i
        /\ sent[r] = Len(g) + Len(c) + Len(h) + Len(t)
    <3> HIDE DEF c, h, TokensAmong
    <3> QED BY <2>1, <2>3, <2>4 DEF Flow
  <2> HIDE DEF g, c, h, t
  <2>6. g \o c \in Seq(Int) /\ Len(g \o c) = Len(g) + Len(c)
        /\ \A i \in 1 .. Len(g \o c) : (g \o c)[i] = i
    BY <2>2, <2>3, <2>5, CountsOn
  <2>7. (g \o c) \o h \in Seq(Int) /\ Len((g \o c) \o h) = Len(g) + Len(c) + Len(h)
        /\ \A i \in 1 .. Len((g \o c) \o h) : ((g \o c) \o h)[i] = i
    <3> DEFINE gc == g \o c
    <3>1. \A i \in 1 .. Len(h) : h[i] = Len(gc) + i
      BY <2>5, <2>6
    <3>2. gc \in Seq(Int) /\ Len(gc) = Len(g) + Len(c) /\ \A i \in 1 .. Len(gc) : gc[i] = i
      BY <2>6
    <3> HIDE DEF gc
    <3>3. gc \o h \in Seq(Int) /\ Len(gc \o h) = Len(gc) + Len(h)
          /\ \A i \in 1 .. Len(gc \o h) : (gc \o h)[i] = i
      BY <2>4, <3>1, <3>2, CountsOn
    <3> QED
      BY <3>2, <3>3 DEF gc
  <2>8. ((g \o c) \o h) \o t \in Seq(Int)
        /\ Len(((g \o c) \o h) \o t) = Len(g) + Len(c) + Len(h) + Len(t)
        /\ \A i \in 1 .. Len(((g \o c) \o h) \o t) : (((g \o c) \o h) \o t)[i] = i
    <3> DEFINE gch == (g \o c) \o h
    <3>1. \A i \in 1 .. Len(t) : t[i] = Len(gch) + i
      BY <2>5, <2>7
    <3>2. gch \in Seq(Int) /\ Len(gch) = Len(g) + Len(c) + Len(h) /\ \A i \in 1 .. Len(gch) : gch[i] = i
      BY <2>7
    <3> HIDE DEF gch
    <3>3. gch \o t \in Seq(Int) /\ Len(gch \o t) = Len(gch) + Len(t)
          /\ \A i \in 1 .. Len(gch \o t) : (gch \o t)[i] = i
      BY <2>2, <3>1, <3>2, CountsOn
    <3> QED
      BY <3>2, <3>3 DEF gch
  <2>9. ((g \o c) \o h) \o t = [i \in 1 .. sent[r] |-> i]
    <3> DEFINE all == ((g \o c) \o h) \o t
    <3>1. all \in Seq(Int) /\ Len(all) = sent[r] /\ \A i \in 1 .. Len(all) : all[i] = i
      BY <2>5, <2>8
    <3> HIDE DEF all
    <3>2. all = [i \in 1 .. sent[r] |-> i]
      BY <3>1
    <3> QED
      BY <3>2 DEF all
  <2> QED
    BY <2>9 DEF g, c, h, t
<1>2. Inv /\ FlowInv => TokensInOrder
  BY <1>1 DEF TokensInOrder
<1>3. Spec => [](Inv /\ FlowInv)
  BY InvInit, InvNext, FlowInit, FlowNext, PTL DEF Spec
<1> QED
  BY <1>2, <1>3, PTL

\* An answer's counts are those of the whole generation, and an answer without
\* counts comes from one that failed (result_rx.await.ok()).
THEOREM HonestCounts == Spec => []CountsTrue
<1>1. Inv /\ FlowInv => CountsTrue
  <2> SUFFICES ASSUME Inv, FlowInv, NEW r \in Requests, client[r] = "answered"
               PROVE  \/ result[r] = <<NoCounts>> /\ worker[r] = "done"
                      \/ result[r] = <<Len(got[r])>> /\ Len(got[r]) = sent[r]
    BY DEF CountsTrue
  <2>1. Outcome(r) /\ sent[r] \in Nat
    BY DEF FlowInv, Inv, Shapes
  <2>2. <<sent[r]>> # <<NoCounts>>
    BY <2>1 DEF NoCounts
  <2> QED
    BY <2>1, <2>2 DEF Outcome
<1>2. Spec => [](Inv /\ FlowInv)
  BY InvInit, InvNext, FlowInit, FlowNext, PTL DEF Spec
<1> QED
  BY <1>1, <1>2, PTL
=============================================================================
