------------------------------ MODULE KvCache ------------------------------
(***************************************************************************)
(* The KV cache of one generation and the manager that keeps a window of   *)
(* it: src/cache/kv_cache.rs, driven by the token loop of                  *)
(* generate_with_nvme_scheduling.                                          *)
(*                                                                         *)
(* llama.cpp holds the positions lo .. hi-1 in at most NCtx cells; a batch *)
(* that finds no cell fails the generation.  The manager is told the       *)
(* length of the prompt, counts one position per token before that token   *)
(* is decoded, and at every Interval-th token removes what lies before the *)
(* hot window.                                                             *)
(***************************************************************************)
EXTENDS Integers

CONSTANTS
  NCtx,       \* cells of the context
  NBatch,     \* tokens per prompt batch
  Hot,        \* hot_window_tokens
  Managed,    \* the plan has a warm window, so there is a manager
  Interval,   \* compact_interval
  Prompts,    \* lengths of prompts
  MaxTokens   \* sampling.max_tokens

ASSUME KvAssumption ==
  /\ NCtx \in Nat \ {0} /\ NBatch \in Nat \ {0} /\ Interval \in Nat \ {0}
  /\ Hot \in Nat /\ Managed \in BOOLEAN
  /\ Prompts \subseteq Nat \ {0}
  /\ MaxTokens \in Nat

VARIABLES
  phase,   \* where the generation is
  prompt,  \* tokens of the prompt
  lo, hi,  \* the positions in the cache
  pos,     \* KvCacheManager.current_pos
  since    \* KvCacheManager.tokens_since_check

kvVars == <<phase, prompt, lo, hi, pos, since>>

Cells == hi - lo
Fits(n) == Cells + n <= NCtx

\* No generation: no context, no manager.
KvInit ==
  /\ phase = "idle" /\ prompt = 0
  /\ lo = 0 /\ hi = 0 /\ pos = 0 /\ since = 0

\* A new context and a new manager.
KvStart(n) ==
  /\ phase = "idle"
  /\ phase' = "prompt" /\ prompt' = n
  /\ UNCHANGED <<lo, hi, pos, since>>

\* ctx.decode(chunk)?; after the last chunk, set_position.
DecodeChunk ==
  \E n \in 1 .. NBatch :
    /\ phase = "prompt" /\ Fits(n)
    /\ n = NBatch \/ hi + n = prompt
    /\ hi + n <= prompt
    /\ hi' = hi + n
    /\ IF hi' = prompt
       THEN phase' = "sample" /\ pos' = IF Managed THEN prompt ELSE 0
       ELSE phase' = "prompt" /\ pos' = pos
    /\ UNCHANGED <<prompt, lo, since>>

\* Mutant: the token about to be decoded is not counted to the window.
KeptOneLess(p) == IF Hot > 0 /\ p > Hot /\ lo < p - Hot THEN p - Hot + 1 ELSE lo

\* check_and_compact: the first position that stays.
Kept(p) == IF Hot > 0 /\ p > Hot /\ lo < p - Hot THEN p - Hot ELSE lo

\* Mutant: one token late.
DueLate == since + 1 > Interval

\* advance: time to look at the cache.
Due == since + 1 >= Interval

\* The token is sampled and sent, and the manager advances.
Sample ==
  /\ phase = "sample" /\ hi - prompt < MaxTokens
  /\ phase' = "decode"
  /\ IF ~Managed
     THEN UNCHANGED <<lo, pos, since>>
     ELSE /\ pos' = pos + 1
          /\ IF Due
             THEN since' = 0 /\ lo' = Kept(pos')
             ELSE since' = since + 1 /\ lo' = lo
  /\ UNCHANGED <<prompt, hi>>

\* ctx.decode(&[token_id])?.
DecodeToken ==
  /\ phase = "decode" /\ Fits(1)
  /\ phase' = "sample"
  /\ hi' = hi + 1
  /\ UNCHANGED <<prompt, lo, pos, since>>

\* "KV cache full": the error leaves the generation.
NoRoom ==
  /\ \/ phase = "prompt" /\ \E n \in 1 .. NBatch :
          /\ n = NBatch \/ hi + n = prompt
          /\ hi + n <= prompt
          /\ ~Fits(n)
     \/ phase = "decode" /\ ~Fits(1)
  /\ phase' = "full"
  /\ UNCHANGED <<prompt, lo, hi, pos, since>>

\* End of generation, receiver gone or max_tokens.
Stop ==
  /\ phase = "sample"
  /\ phase' = "ended"
  /\ UNCHANGED <<prompt, lo, hi, pos, since>>

\* The context is freed with the frame that made it.
KvFree ==
  /\ phase' = "idle" /\ prompt' = 0
  /\ lo' = 0 /\ hi' = 0 /\ pos' = 0 /\ since' = 0

Free == phase \in {"full", "ended"} /\ KvFree

KvNext ==
  \/ \E n \in Prompts : KvStart(n)
  \/ DecodeChunk \/ Sample \/ DecodeToken \/ NoRoom \/ Stop \/ Free

KvSpec == KvInit /\ [][KvNext]_kvVars

-----------------------------------------------------------------------------
Longer(a, b) == IF a > b THEN a ELSE b

\* Types of the variables.
KvTypeOK ==
  /\ phase \in {"idle", "prompt", "sample", "decode", "full", "ended"}
  /\ {prompt, lo, hi, pos, since} \subseteq Nat

\* Compaction removes only what the hot window no longer needs: whatever the
\* prompt's length and the phase of the counter, the positions of the last Hot
\* tokens, the one about to be decoded included, are never removed.
WindowKept == lo <= Longer(0, hi + 1 - Hot)

\* kv_cache.rs:5-8 promises a bounded cache. What the code keeps to is the
\* longer of prompt and hot window plus one compaction interval.
CacheBounded == Managed /\ Hot > 0 => Cells < Longer(prompt, Hot) + Interval

\* So with a manager a generation can run out of cells only when the context
\* has no room for that.
FullOnlyBeyond ==
  phase = "full" /\ Managed /\ Hot > 0 => Longer(prompt, Hot) + Interval > NCtx
=============================================================================
