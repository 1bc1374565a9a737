------------------------------- MODULE Server -------------------------------
(***************************************************************************)
(* hypura serve: src/server/routes.rs and streaming.rs on top of           *)
(* generate_from_loaded.  A request has a worker thread, which waits for   *)
(* the one loaded model, generates and sends every token into an unbounded *)
(* channel; a task, which takes them out and answers the client, either    *)
(* chunk by chunk through a channel of Cap chunks or with one response at  *)
(* the end; and the client, which may be slow, or leave.                   *)
(*                                                                         *)
(* /api/generate and /api/chat differ in wording only.  The tokens of a    *)
(* request are 1, 2, ...; a response is the tokens received and the counts *)
(* that come with "done".  The channels' and the mutex's own behaviour is  *)
(* tokio's and std's: a mutex whose holder panicked is poisoned for good.  *)
(***************************************************************************)
EXTENDS Integers, Sequences

CONSTANTS
  Requests,
  Cap,        \* chunks the response channel holds (64)
  Limits,     \* bound: values of num_predict
  Free, Poisoned  \* states of the model's mutex when nobody holds it

ASSUME ServerAssumption ==
  /\ Cap \in Nat \ {0} /\ Limits \subseteq Nat
  /\ Free \notin Requests /\ Poisoned \notin Requests /\ Free # Poisoned

VARIABLES
  lock,    \* loaded_model: who holds it
  worker,  \* spawn_blocking's closure: where it is
  limit,   \* sampling.max_tokens
  sent,    \* n_generated
  tokens,  \* the token channel
  result,  \* the oneshot: <<>>, <<n>>, or <<NoCounts>> when its sender is gone
  task,    \* the streaming task, or the handler that collects
  stream,  \* req.stream
  held,    \* what the task has in hand: one token, or all of them
  chunks,  \* the response channel
  client,  \* the connection
  got      \* tokens the client has

workerVars == <<lock, worker, limit, sent>>
taskVars == <<task, stream, held>>
clientVars == <<client, got>>
vars == <<workerVars, tokens, result, taskVars, chunks, clientVars>>

NoCounts == -1
Done == 0        \* the chunk with done = true
Generating == {"prompt", "sample", "decode"}

All(v) == [r \in Requests |-> v]

Init ==
  /\ lock = Free
  /\ worker = All("none") /\ limit = All(0) /\ sent = All(0)
  /\ tokens = All(<<>>) /\ result = All(<<>>)
  /\ task = All("none") /\ stream = All(FALSE) /\ held = All(<<>>)
  /\ chunks = All(<<>>)
  /\ client = All("none") /\ got = All(<<>>)

\* generate_handler, chat_handler.
Arrive(r) ==
  /\ client[r] = "none"
  /\ client' = [client EXCEPT ![r] = "open"]
  /\ \E s \in BOOLEAN, n \in Limits :
       stream' = [stream EXCEPT ![r] = s] /\ limit' = [limit EXCEPT ![r] = n]
  /\ worker' = [worker EXCEPT ![r] = "waiting"]
  /\ task' = [task EXCEPT ![r] = "recv"]
  /\ UNCHANGED <<lock, sent, tokens, result, held, chunks, got>>

-----------------------------------------------------------------------------
(* The worker. *)

Goto(r, from, to) == worker[r] \in from /\ worker' = [worker EXCEPT ![r] = to]

\* Mutant: a lock that several hold.
LockShared(r) ==
  /\ Goto(r, {"waiting"}, "prompt")
  /\ lock # Poisoned /\ lock' = r
  /\ UNCHANGED <<limit, sent, tokens, result, taskVars, chunks, clientVars>>

\* loaded.lock() ...
Lock(r) ==
  /\ Goto(r, {"waiting"}, "prompt")
  /\ lock = Free /\ lock' = r
  /\ UNCHANGED <<limit, sent, tokens, result, taskVars, chunks, clientVars>>

\* ... and its unwrap(): the closure panics and drops both senders.
LockPoisoned(r) ==
  /\ Goto(r, {"waiting"}, "drop")
  /\ lock = Poisoned
  /\ UNCHANGED <<lock, limit, sent, tokens, result, taskVars, chunks, clientVars>>

\* The context is made, the prompt decoded.
Prompt(r) ==
  /\ Goto(r, {"prompt"}, "sample")
  /\ UNCHANGED <<lock, limit, sent, tokens, result, taskVars, chunks, clientVars>>

Receives(r) == task[r] # "done"

\* Mutant: the end-of-generation token is counted but not sent.
SampleQuietEnd(r) ==
  /\ worker[r] = "sample" /\ sent[r] < limit[r]
  /\ sent' = [sent EXCEPT ![r] = @ + 1]
  /\ \E eog \in BOOLEAN :
       /\ tokens' = IF Receives(r) /\ ~eog THEN [tokens EXCEPT ![r] = Append(@, sent'[r])] ELSE tokens
       /\ worker' = [worker EXCEPT ![r] = IF eog \/ ~Receives(r) THEN "ok" ELSE "decode"]
  /\ UNCHANGED <<lock, limit, result, taskVars, chunks, clientVars>>

\* A token is sampled, counted and sent; it may be the last, or nobody takes it.
Sample(r) ==
  /\ worker[r] = "sample" /\ sent[r] < limit[r]
  /\ sent' = [sent EXCEPT ![r] = @ + 1]
  /\ tokens' = IF Receives(r) THEN [tokens EXCEPT ![r] = Append(@, sent'[r])] ELSE tokens
  /\ \E eog \in BOOLEAN :
       worker' = [worker EXCEPT ![r] = IF eog \/ ~Receives(r) THEN "ok" ELSE "decode"]
  /\ UNCHANGED <<lock, limit, result, taskVars, chunks, clientVars>>

\* max_tokens.
Exhausted(r) ==
  /\ Goto(r, {"sample"}, "ok")
  /\ sent[r] = limit[r]
  /\ UNCHANGED <<lock, limit, sent, tokens, result, taskVars, chunks, clientVars>>

Decode(r) ==
  /\ Goto(r, {"decode"}, "sample")
  /\ UNCHANGED <<lock, limit, sent, tokens, result, taskVars, chunks, clientVars>>

\* No context, an empty prompt, a decode that fails: the error is logged.
Fail(r) ==
  /\ Goto(r, {"prompt", "decode"}, "failed")
  /\ UNCHANGED <<lock, limit, sent, tokens, result, taskVars, chunks, clientVars>>

Panic(r) ==
  /\ Goto(r, Generating, "panicked")
  /\ UNCHANGED <<lock, limit, sent, tokens, result, taskVars, chunks, clientVars>>

\* The token channel is closed when generate_from_loaded is left, however it is.
Closed(r) == worker[r] \notin {"waiting"} \cup Generating

\* result_tx.send, with the model still locked.
SendResult(r) ==
  /\ Goto(r, {"ok"}, "unlock")
  /\ result' = [result EXCEPT ![r] = <<sent[r]>>]
  /\ UNCHANGED <<lock, limit, sent, tokens, taskVars, chunks, clientVars>>

\* Mutant: the model is locked until the response is out.
UnlockAnswered(r) ==
  /\ \/ Goto(r, {"unlock"}, "done") /\ lock' = Free /\ task[r] = "done"
     \/ Goto(r, {"failed"}, "drop") /\ lock' = Free
     \/ Goto(r, {"panicked"}, "drop") /\ lock' = Poisoned
  /\ UNCHANGED <<limit, sent, tokens, result, taskVars, chunks, clientVars>>

\* The guard goes with the closure's locals; a panic poisons the mutex.
Unlock(r) ==
  /\ \/ Goto(r, {"unlock"}, "done") /\ lock' = Free
     \/ Goto(r, {"failed"}, "drop") /\ lock' = Free
     \/ Goto(r, {"panicked"}, "drop") /\ lock' = Poisoned
  /\ UNCHANGED <<limit, sent, tokens, result, taskVars, chunks, clientVars>>

\* Mutant: an error keeps result_tx.
DropNothing(r) ==
  /\ Goto(r, {"drop"}, "done")
  /\ UNCHANGED <<lock, limit, sent, tokens, result, taskVars, chunks, clientVars>>

\* The closure's captures go after its locals: result_tx without a result.
DropResult(r) ==
  /\ Goto(r, {"drop"}, "done")
  /\ result' = [result EXCEPT ![r] = <<NoCounts>>]
  /\ UNCHANGED <<lock, limit, sent, tokens, taskVars, chunks, clientVars>>

Worker(r) ==
  \/ Lock(r) \/ LockPoisoned(r) \/ Prompt(r) \/ Sample(r) \/ Exhausted(r) \/ Decode(r)
  \/ Fail(r) \/ Panic(r) \/ SendResult(r) \/ Unlock(r) \/ DropResult(r)

-----------------------------------------------------------------------------
(* The task. *)

\* token_rx.recv()
Receive(r) ==
  /\ task[r] = "recv" /\ tokens[r] # <<>>
  /\ tokens' = [tokens EXCEPT ![r] = Tail(@)]
  /\ held' = [held EXCEPT ![r] = Append(@, Head(tokens[r]))]
  /\ task' = [task EXCEPT ![r] = IF stream[r] THEN "send" ELSE "recv"]
  /\ UNCHANGED <<workerVars, result, stream, chunks, clientVars>>

\* Nothing left and nothing to come.
Drained(r) ==
  /\ task[r] = "recv" /\ tokens[r] = <<>> /\ Closed(r)
  /\ task' = [task EXCEPT ![r] = "result"]
  /\ UNCHANGED <<workerVars, tokens, result, stream, held, chunks, clientVars>>

\* Mutant: a chunk that finds no room is dropped.
TrySendChunk(r) ==
  /\ task[r] = "send" /\ client[r] # "gone"
  /\ chunks' = IF Len(chunks[r]) < Cap THEN [chunks EXCEPT ![r] = @ \o held[r]] ELSE chunks
  /\ held' = [held EXCEPT ![r] = <<>>]
  /\ task' = [task EXCEPT ![r] = "recv"]
  /\ UNCHANGED <<workerVars, tokens, result, stream, clientVars>>

\* tx.send(chunk).await waits for room.
SendChunk(r) ==
  /\ task[r] = "send" /\ client[r] # "gone" /\ Len(chunks[r]) < Cap
  /\ chunks' = [chunks EXCEPT ![r] = @ \o held[r]]
  /\ held' = [held EXCEPT ![r] = <<>>]
  /\ task' = [task EXCEPT ![r] = "recv"]
  /\ UNCHANGED <<workerVars, tokens, result, stream, clientVars>>

\* result_rx.await.ok(): the last chunk, or the whole response.
Answer(r) ==
  /\ task[r] = "result" /\ result[r] # <<>>
  /\ IF stream[r]
     THEN task' = [task EXCEPT ![r] = "final"] /\ UNCHANGED clientVars
     ELSE /\ task' = [task EXCEPT ![r] = "done"]
          /\ client' = [client EXCEPT ![r] = "answered"]
          /\ got' = [got EXCEPT ![r] = held[r]]
  /\ UNCHANGED <<workerVars, tokens, result, stream, held, chunks>>

SendFinal(r) ==
  /\ task[r] = "final" /\ client[r] # "gone" /\ Len(chunks[r]) < Cap
  /\ chunks' = [chunks EXCEPT ![r] = Append(@, Done)]
  /\ task' = [task EXCEPT ![r] = "done"]
  /\ UNCHANGED <<workerVars, tokens, result, stream, held, clientVars>>

\* The send that finds the body dropped ends the task, and token_rx with it.
SendFails(r) ==
  /\ task[r] \in {"send", "final"} /\ client[r] = "gone"
  /\ task' = [task EXCEPT ![r] = "done"]
  /\ UNCHANGED <<workerVars, tokens, result, stream, held, chunks, clientVars>>

Task(r) ==
  \/ Receive(r) \/ Drained(r) \/ SendChunk(r) \/ Answer(r) \/ SendFinal(r) \/ SendFails(r)

-----------------------------------------------------------------------------
(* The client. *)

\* The body's stream yields the next chunk.
Take(r) ==
  /\ client[r] = "open" /\ chunks[r] # <<>>
  /\ chunks' = [chunks EXCEPT ![r] = Tail(@)]
  /\ IF Head(chunks[r]) = Done
     THEN client' = [client EXCEPT ![r] = "answered"] /\ UNCHANGED got
     ELSE got' = [got EXCEPT ![r] = Append(@, Head(chunks[r]))] /\ UNCHANGED client
  /\ UNCHANGED <<workerVars, tokens, result, taskVars>>

\* The connection is closed: the body is dropped, or the handler itself.
Leave(r) ==
  /\ client[r] = "open"
  /\ client' = [client EXCEPT ![r] = "gone"]
  /\ task' = IF stream[r] THEN task ELSE [task EXCEPT ![r] = "done"]
  /\ UNCHANGED <<workerVars, tokens, result, stream, held, chunks, got>>

Quiet ==
  /\ \A r \in Requests : worker[r] = "done" /\ task[r] = "done" /\ client[r] # "open"
  /\ UNCHANGED vars

Next ==
  \/ \E r \in Requests : Arrive(r) \/ Worker(r) \/ Task(r) \/ Take(r) \/ Leave(r)
  \/ Quiet

\* Threads and tasks are scheduled; nothing is assumed of clients.
Fairness == \A r \in Requests : WF_vars(Worker(r)) /\ WF_vars(Task(r))

Spec == Init /\ [][Next]_vars
FairSpec == Spec /\ Fairness

-----------------------------------------------------------------------------
(* Properties *)

\* Types of the variables; the mutex is held by the request that generates.
TypeOK ==
  /\ lock \in Requests \cup {Free, Poisoned}
  /\ \A r \in Requests :
       /\ (lock = r) <=> worker[r] \in Generating \cup {"ok", "unlock", "failed", "panicked"}
       /\ sent[r] \in 0 .. limit[r] /\ limit[r] \in Limits \cup {0}
       /\ Len(chunks[r]) <= Cap
       /\ task[r] \in {"none", "recv", "send", "result", "final", "done"}
       /\ client[r] \in {"none", "open", "answered", "gone"}

\* The tokens among chunks that "done" may end.
TokensAmong(c) == IF c # <<>> /\ c[Len(c)] = Done THEN SubSeq(c, 1, Len(c) - 1) ELSE c

\* Between the sampler and the client no token is lost, repeated or overtaken:
\* what the client has, what is under way to it and what is queued are the tokens
\* generated, in order, as long as it stays.
TokensInOrder ==
  \A r \in Requests : client[r] = "open" =>
    got[r] \o TokensAmong(chunks[r])
           \o (IF task[r] = "done" THEN <<>> ELSE held[r]) \o tokens[r]
      = [i \in 1 .. sent[r] |-> i]

\* An answer with counts is the whole of a generation that succeeded, and one
\* without is not: "stop" and an empty answer to a request that failed can be told
\* apart from an empty generation by the missing counts alone.
CountsTrue ==
  \A r \in Requests : client[r] = "answered" =>
    \/ result[r] = <<NoCounts>> /\ worker[r] = "done"
    \/ result[r] = <<Len(got[r])>> /\ Len(got[r]) = sent[r]

\* A client that stays and goes on reading is answered, also when its generation
\* fails or panics, or an earlier one has poisoned the mutex.
Answered ==
  \A r \in Requests :
    WF_vars(Take(r)) => (client[r] = "open" ~> client[r] \in {"answered", "gone"})

\* The model is given back whatever the clients do: a slow or silent reader never
\* keeps the requests behind it waiting.
ModelReturned == \A r \in Requests : worker[r] = "waiting" ~> worker[r] = "done"
=============================================================================
