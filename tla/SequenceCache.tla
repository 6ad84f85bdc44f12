---------------------------- MODULE SequenceCache ----------------------------
(***************************************************************************)
(* The batched KV cache of src/hf_cache_bridge.py, driven by the two calls *)
(* of src/model_runner.py.  Each sequence keeps a cache of its own between *)
(* ticks; a decode step pads them to one length, runs one forward pass and *)
(* splits the result again.                                                *)
(*                                                                         *)
(* A token is named by its sequence and its place in the text, the prompt  *)
(* first.  A cache column holds a token's key and value, and with them the *)
(* position the key was rotated for.  The layers are alike, so there is    *)
(* one.  The language model is external: it continues a text rightly when  *)
(* it attends to that text and to nothing else, and otherwise it does not. *)
(***************************************************************************)
EXTENDS Integers, SequencesExt, FiniteSetsExt

CONSTANTS NSequences,     \* bound: the sequences there are
          PromptLengths,  \* the lengths a prompt may have
          MaxNew,         \* bound: tokens generated for a sequence
          MaxBatchSize, Checkpoint

ASSUME CacheAssumption ==
    /\ NSequences \in Nat /\ MaxNew \in Nat /\ MaxBatchSize \in Nat /\ Checkpoint \in Nat
    /\ PromptLengths \subseteq Nat \ {0}

Ids == 1..NSequences

Token(s, k) == [of |-> s, at |-> k]
Column(token, pos) == [token |-> token, pos |-> pos]
NoToken == Token(0, 0)
Zeros == Column(NoToken, 0)  \* what a row is padded with

VARIABLES
    kv, seq_len,  \* _cache and _seq_len, empty and 0 for a sequence not kept
    prompt_len,   \* len(prompt_ids)
    generated,    \* generated_ids
    position,     \* GenerationRequest.position
    judged,       \* the token whose hidden state routing_decision is about
    order,        \* the keys of the scheduler's active, in order
    step,         \* how far run_decode_step is: "idle", "built", "forwarded"
    batch,        \* the padded batch, and what the forward pass added to it
    last          \* LayerActivationCapture.last: the token of each row

vars == <<kv, seq_len, prompt_len, generated, position, judged, order, step, batch, last>>

\* The columns the cache of the first n tokens of a text has.
History(s, n) == [k \in 1..n |-> Column(Token(s, k), k - 1)]

NoBatch == [rows |-> <<>>, mask |-> <<>>, position_ids |-> <<>>, max_len |-> 0, next |-> <<>>]

Init ==
    /\ kv = [s \in Ids |-> <<>>] /\ seq_len = [s \in Ids |-> 0]
    /\ prompt_len \in [Ids -> PromptLengths]
    /\ generated = [s \in Ids |-> <<>>] /\ position = [s \in Ids |-> 0]
    /\ judged = [s \in Ids |-> NoToken]
    /\ order = <<>> /\ step = "idle" /\ batch = NoBatch /\ last = <<>>

\* The language model: what follows a token it is fed at a position, when it
\* attends to some columns of a row.  Keys carry their positions, so their
\* order in the row is of no matter; that none counts twice is.
Continuation(row, attended, token, pos) ==
    IF /\ {row[k] : k \in attended} = ToSet(History(token.of, token.at - 1))
       /\ Cardinality(attended) = token.at - 1
       /\ pos = token.at - 1
    THEN Token(token.of, token.at + 1)
    ELSE NoToken

-----------------------------------------------------------------------------
\* run_prefill, and the admission to the batch that follows it.
Prefill(s) ==
    LET n == prompt_len[s]
    IN  /\ step = "idle"
        /\ s \notin ToSet(order) /\ Len(order) < MaxBatchSize
        /\ kv' = [kv EXCEPT ![s] = History(s, n)]
        /\ seq_len' = [seq_len EXCEPT ![s] = n]
        /\ position' = [position EXCEPT ![s] = n]
        /\ generated' = [generated EXCEPT ![s] =
              Append(@, Continuation(History(s, n), 1..n - 1, Token(s, n), n - 1))]
        /\ last' = <<Token(s, n)>>
        /\ order' = Append(order, s)
        /\ UNCHANGED <<prompt_len, judged, step, batch>>

\* BatchedSequenceCache.evict, one of its two dictionaries.
EvictFrom(dict, empty, s) == [dict EXCEPT ![s] = empty]

\* A sequence leaves the batch.  The reset is _preempt's; a completed sequence
\* is not looked at again, a preempted one comes back and is prefilled anew.
Evict(s) ==
    /\ step = "idle"
    /\ \E i \in DOMAIN order : order[i] = s /\ order' = RemoveAt(order, i)
    /\ kv' = EvictFrom(kv, <<>>, s) /\ seq_len' = EvictFrom(seq_len, 0, s)
    /\ generated' = [generated EXCEPT ![s] = <<>>]
    /\ position' = [position EXCEPT ![s] = 0]
    /\ judged' = [judged EXCEPT ![s] = NoToken]
    /\ UNCHANGED <<prompt_len, step, batch, last>>

-----------------------------------------------------------------------------
(* build_batch *)

\* Zeros on the left bring a row to the length of the longest.
Padded(columns, max_len) == [k \in 1..max_len - Len(columns) |-> Zeros] \o columns

\* The operators named with an underscore are wrong on purpose: each shows that
\* a property notices a change of the operator below it.
MaskRow_OffByOne(length, max_len) ==
    [k \in 1..max_len + 1 |-> IF k >= max_len - length THEN 1 ELSE 0]

\* Over the padded history and the slot of the new token.
MaskRow(length, max_len) == [k \in 1..max_len + 1 |-> IF k > max_len - length THEN 1 ELSE 0]

\* Unaffected by how much padding the row needed.
PositionId(s, max_len) == seq_len[s]

BuildBatch ==
    LET max_len == Max({seq_len[s] : s \in ToSet(order)})
    IN  /\ step = "idle" /\ order # <<>>
        /\ \A s \in ToSet(order) : Len(generated[s]) < MaxNew
        /\ batch' = [rows |-> [i \in DOMAIN order |-> Padded(kv[order[i]], max_len)],
                     mask |-> [i \in DOMAIN order |-> MaskRow(seq_len[order[i]], max_len)],
                     position_ids |-> [i \in DOMAIN order |-> PositionId(order[i], max_len)],
                     max_len |-> max_len,
                     next |-> <<>>]
        /\ step' = "built"
        /\ UNCHANGED <<kv, seq_len, prompt_len, generated, position, judged, order, last>>

-----------------------------------------------------------------------------
(* The forward pass: a column for the token each row is fed, its hidden    *)
(* state in the hook, and a next token.                                    *)

Fed(i) == Last(generated[order[i]])
Attended(i) == {k \in 1..batch.max_len : batch.mask[i][k] = 1}

Forward ==
    /\ step = "built"
    /\ batch' = [batch EXCEPT
          !.rows = [i \in DOMAIN order |->
                       Append(batch.rows[i], Column(Fed(i), batch.position_ids[i]))],
          !.next = [i \in DOMAIN order |->
                       Continuation(batch.rows[i], Attended(i), Fed(i), batch.position_ids[i])]]
    /\ last' = [i \in DOMAIN order |-> Fed(i)]
    /\ step' = "forwarded"
    /\ UNCHANGED <<kv, seq_len, prompt_len, generated, position, judged, order>>

-----------------------------------------------------------------------------
(* scatter_updated_batch, and run_decode_step's loop over the requests. *)

Trimmed_FromLeft(row, n) == SubSeq(row, 1, n)

\* The slice [-n:] of a row.
Trimmed(row, n) == SubSeq(row, Len(row) - n + 1, Len(row))

HiddenOf_First(i) == last[1]

\* hidden_this_step[i, -1]
HiddenOf(i) == last[i]

\* Without a gate no hidden state is looked at.
ScatterFor(gated) ==
    LET row(s) == CHOOSE i \in DOMAIN order : order[i] = s
        Update(f, new(_)) == [s \in Ids |-> IF s \in ToSet(order) THEN new(s) ELSE f[s]]
        meets(s) == gated /\ judged[s] = NoToken /\ Len(generated[s]) + 1 >= Checkpoint
    IN  /\ step = "forwarded"
        /\ kv' = Update(kv, LAMBDA s : Trimmed(batch.rows[row(s)], seq_len[s] + 1))
        /\ seq_len' = Update(seq_len, LAMBDA s : seq_len[s] + 1)
        /\ generated' = Update(generated, LAMBDA s : Append(generated[s], batch.next[row(s)]))
        /\ position' = Update(position, LAMBDA s : position[s] + 1)
        /\ judged' = Update(judged, LAMBDA s : IF meets(s) THEN HiddenOf(row(s)) ELSE judged[s])
        /\ batch' = NoBatch
        /\ step' = "idle"
        /\ UNCHANGED <<prompt_len, order, last>>

Scatter == ScatterFor(TRUE)

Next == \/ \E s \in Ids : Prefill(s) \/ Evict(s)
        \/ BuildBatch \/ Forward \/ Scatter

Spec == Init /\ [][Next]_vars

-----------------------------------------------------------------------------
\* Between two calls the cache of each sequence is what decoding it alone would
\* have left: the columns of its text so far without the last token, each
\* rotated for its position, and no padding; and nothing is kept of a sequence
\* that is not in the batch.  The request's position agrees with it.
CacheIsOwnHistory ==
    step = "idle" =>
        \A s \in Ids :
            IF s \in ToSet(order)
            THEN /\ seq_len[s] = prompt_len[s] + Len(generated[s]) - 1
                 /\ kv[s] = History(s, seq_len[s])
                 /\ position[s] = seq_len[s]
            ELSE kv[s] = <<>> /\ seq_len[s] = 0

\* Batching is transparent: what is generated for a sequence, with whatever
\* neighbours, is the continuation of its own prompt.
GeneratesAsIfAlone ==
    \A s \in Ids :
        generated[s] = [k \in 1..Len(generated[s]) |-> Token(s, prompt_len[s] + k)]

\* The verdict on a request is about its own hidden state, that of the token
\* fed to the step in which it meets the checkpoint: the one before the
\* checkpoint's.
VerdictOnOwnToken ==
    \A s \in Ids :
        judged[s] # NoToken =>
            judged[s] = Token(s, prompt_len[s] + Max({Checkpoint, 2}) - 1)

\* What the module and the gate say: "just produced its checkpoint_position-th
\* generated token, and if so classifies that token's layer-16 hidden state".
VerdictOnCheckpointToken ==
    \A s \in Ids :
        judged[s] # NoToken => judged[s] = Token(s, prompt_len[s] + Checkpoint)
=============================================================================
