---------------------------- MODULE MCPlacement ----------------------------
(* Models and machines for Placement: some for every strategy and its edges. *)
EXTENDS Placement

Model(l, ex, us, em, at, ff, k, tr) ==
  [layers |-> l, experts |-> ex, used |-> us, embd |-> em, attn |-> at, ffn |-> ff,
   kv |-> k, trained |-> tr]

\* The solver's models, two to four layers.
Tiny == Model(2, 1, 1, 5, 10, 15, 2, 8)      \* fits all but the smallest machine
Deep == Model(4, 1, 1, 10, 5, 30, 2, 8)      \* its pool does not fit
Embd == Model(2, 1, 1, 160, 20, 10, 0, 8)    \* the embedding overflows a small machine
Attn == Model(3, 8, 2, 5, 60, 30, 2, 8)      \* no room for a pool beside the attention
Cached == Model(2, 1, 1, 5, 10, 40, 12, 16)  \* the KV cache outweighs the tensors

\* The streaming modes' models.
Mixtral == Model(16, 8, 2, 10, 2, 10, 2, 32)
Short == Model(16, 8, 2, 10, 2, 4, 4, 4)     \* trained on a short context
Fine == Model(16, 64, 4, 10, 5, 20, 2, 8)    \* sparse MoE
Dense == Model(16, 1, 1, 10, 2, 12, 2, 8)
Huge == Model(60, 1, 1, 10, 1, 21, 2, 8)     \* resident layers on a large machine
Edge == Model(4, 1, 1, 37, 20, 1, 2, 8)      \* some of the attention is planned for RAM
Slight == Model(3, 1, 1, 1, 1, 1, 2, 8)      \* no GPU budget beside the KV cache

MCModels == {Tiny, Deep, Embd, Attn, Cached, Mixtral, Short, Fine, Dense, Huge, Edge, Slight}

On(ms, sizes) == {[model |-> m, ram |-> z[1], vram |-> z[2]] : m \in ms, z \in sizes}
MCDeployments ==
  On({Tiny, Embd, Attn, Cached}, {<<60, 40>>, <<160, 110>>, <<160, 0>>, <<320, 220>>})
    \cup On({Deep}, {<<160, 110>>, <<320, 220>>})
    \cup On({Mixtral, Short}, {<<160, 110>>})
    \cup On({Fine}, {<<160, 140>>, <<320, 220>>, <<1280, 1000>>})
    \cup On({Dense, Mixtral}, {<<320, 220>>})
    \cup On({Huge}, {<<2560, 2000>>}) \cup On({Edge}, {<<160, 160>>}) \cup On({Slight}, {<<41, 41>>})
MCContexts == {4, 8, 16}
=============================================================================
