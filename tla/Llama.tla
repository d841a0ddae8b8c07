---------------------------------- MODULE Llama ----------------------------------
(* Text generation in cpp/llama/src/llama.cpp: exec_llama feeds the prompt to    *)
(* the language model batch by batch, samples a token at a time, and swaps half  *)
(* of the model's context out when it is full.                                   *)
(*                                                                               *)
(* A token is its position in the text, the prompt and what was generated after  *)
(* it; the token 0, which fills arrays, is in no text.  The request VM starts    *)
(* from what main left (the program is ephemeral), so that a behaviour is one    *)
(* request.  cfg_scale, grammar and instruct keep the values gpt_params gives    *)
(* them: there is no guidance context, grammar or antiprompt.                    *)
EXTENDS Integers, Sequences

CONSTANTS N_CTX,       \* size of the model's context, in tokens
          N_BATCH,     \* tokens that are forwarded in one round
          N_PREDICT,   \* tokens to generate: 60 in initialize_llama
          N_KEEP,      \* params.n_keep: tokens of the prompt that survive a swap
          MaxPrompt    \* bound: tokens of a prompt

ASSUME LlamaAssumption ==
    /\ N_CTX \in Nat /\ N_CTX >= 8       \* llama.cpp:120-123
    /\ N_BATCH \in Nat \ {0}
    /\ N_PREDICT \in Nat
    /\ N_KEEP \in Int
    /\ MaxPrompt \in Nat

VARIABLES pc,          \* "start", "predict", "next", "done"
          prompt,      \* size of embd_inp
          n_keep,      \* params.n_keep
          n_past,      \* tokens of the context that are in use
          n_remain,    \* tokens that may still be sampled
          n_consumed,  \* tokens of the prompt that were taken from embd_inp
          embd,        \* tokens to evaluate next
          last_tokens, \* the newest N_CTX tokens, for the sampler
          context,     \* external: the tokens the model has evaluated
          result,      \* the text so far
          swapped      \* history: the context was swapped

vars == <<pc, prompt, n_keep, n_past, n_remain, n_consumed, embd, last_tokens,
          context, result, swapped>>

Text(n) == [i \in 1..n |-> i]

Zeros(n) == [i \in 1..n |-> 0]

\* Never written after llama.cpp:248.
last_n_tokens == Zeros(N_CTX)

Max2(a, b) == IF a > b THEN a ELSE b
Min2(a, b) == IF a < b THEN a ELSE b

\* The newest N_CTX tokens after those of s.
Push(window, s) == SubSeq(window \o s, Len(s) + 1, Len(window) + Len(s))

Init ==
    /\ pc = "start" /\ prompt = 0 /\ n_keep = N_KEEP
    /\ n_past = 0 /\ n_remain = N_PREDICT /\ n_consumed = 0
    /\ embd = <<>> /\ last_tokens = Zeros(N_CTX)
    /\ context = <<>> /\ result = <<>> /\ swapped = FALSE

\* exec_llama up to its loop: a prompt that leaves less than 4 tokens of the
\* context is answered with an empty text; n_keep is at most the prompt.  Without
\* a beginning-of-text token in the vocabulary a prompt may have no token at all.
Tokenize ==
    /\ pc = "start"
    /\ \E n \in 0..MaxPrompt :
         /\ prompt' = n
         /\ IF n > N_CTX - 4
            THEN pc' = "done" /\ UNCHANGED n_keep
            ELSE /\ pc' = "predict"
                 /\ n_keep' = IF n_keep < 0 \/ n_keep > n THEN n ELSE n_keep
    /\ UNCHANGED <<n_past, n_remain, n_consumed, embd, last_tokens, context,
                   result, swapped>>

\* llama_eval of tokens at position past, batch by batch.
Evaluate(tokens, past) ==
    /\ context' = SubSeq(context, 1, past) \o tokens
    /\ n_past' = past + Len(tokens)

\* What is left of embd if it does not fit the context by itself.
Truncated == SubSeq(embd, 1, Min2(Len(embd), N_CTX - 4))

\* The half of the context to evaluate anew, as llama.cpp:297 takes it.
SwappedIn ==
    LET n_left == n_past - n_keep
        first  == N_CTX - n_left \div 2 - Len(Truncated)
    IN  SubSeq(last_n_tokens, first + 1, N_CTX - Len(Truncated))

AfterSwapAppended == Truncated \o SwappedIn

\* embd after a swap: the tokens of the context come first.
AfterSwap == SwappedIn \o Truncated

NeedsSwapLate == n_past > N_CTX

NeedsSwap == n_past + Len(Truncated) > N_CTX

\* The tokens that a swap leaves in the context.
KeptPart == Max2(1, n_keep)

\* The loop's condition.
BudgetLeft == n_remain # 0

\* What a round evaluates, and behind how much of the context.
Pending == IF NeedsSwap THEN AfterSwap ELSE Truncated
From    == IF NeedsSwap THEN KeptPart ELSE n_past

\* One round of the loop, the part under `predict'.
Predict ==
    /\ pc = "predict" /\ BudgetLeft
    /\ pc' = "next"
    /\ \/ embd = <<>> /\ UNCHANGED <<context, n_past, swapped>>
       \/ /\ embd # <<>>
          /\ Evaluate(Pending, From)
          /\ swapped' = (swapped \/ NeedsSwap)
    /\ embd' = <<>>
    /\ UNCHANGED <<prompt, n_keep, n_remain, n_consumed, last_tokens, result>>

\* llama_eval fails after some of the batches: exec_llama returns an empty text.
EvalFails ==
    /\ pc = "predict" /\ BudgetLeft /\ embd # <<>>
    /\ pc' = "done" /\ result' = <<>>
    /\ \E k \in 0..(Len(Pending) - 1) :
         k % N_BATCH = 0 /\ Evaluate(SubSeq(Pending, 1, k), From)
    /\ embd' = Pending
    /\ swapped' = (swapped \/ NeedsSwap)
    /\ UNCHANGED <<prompt, n_keep, n_remain, n_consumed, last_tokens>>

TakeIn(tokens) ==
    /\ embd' = tokens
    /\ last_tokens' = Push(last_tokens, tokens)
    /\ result' = result \o tokens

\* The prompt is used up: sample a token; the text ends with an end-of-text token.
Sample ==
    /\ pc = "next" /\ n_consumed >= prompt
    /\ TakeIn(<<Len(result) + 1>>)
    /\ n_remain' = n_remain - 1
    /\ pc' \in {"predict", "done"}
    /\ UNCHANGED <<prompt, n_keep, n_past, n_consumed, context, swapped>>

ForwardShort ==
    /\ pc = "next" /\ n_consumed < prompt
    /\ LET n == Min2(N_BATCH, prompt - 1 - n_consumed)
       IN  /\ TakeIn([i \in 1..n |-> n_consumed + i])
           /\ n_consumed' = n_consumed + n
    /\ pc' \in {"predict", "done"}
    /\ UNCHANGED <<prompt, n_keep, n_past, n_remain, context, swapped>>

ForwardOverlapping ==
    /\ pc = "next" /\ n_consumed < prompt
    /\ LET n == Min2(N_BATCH, prompt - n_consumed)
       IN  /\ TakeIn([i \in 1..n |-> n_consumed + i])
           /\ n_consumed' = IF n = N_BATCH THEN n_consumed + n - 1 ELSE prompt
    /\ pc' \in {"predict", "done"}
    /\ UNCHANGED <<prompt, n_keep, n_past, n_remain, context, swapped>>

\* Some of the prompt remains: take a batch of it.  A batch that ends with an
\* end-of-text token ends the text as well.
Forward ==
    /\ pc = "next" /\ n_consumed < prompt
    /\ LET n == Min2(N_BATCH, prompt - n_consumed)
       IN  /\ TakeIn([i \in 1..n |-> n_consumed + i])
           /\ n_consumed' = n_consumed + n
    /\ pc' \in {"predict", "done"}
    /\ UNCHANGED <<prompt, n_keep, n_past, n_remain, context, swapped>>

\* The sampling budget is used up.
Return ==
    /\ pc = "predict" /\ ~BudgetLeft
    /\ pc' = "done"
    /\ UNCHANGED <<prompt, n_keep, n_past, n_remain, n_consumed, embd,
                   last_tokens, context, result, swapped>>

Next == Tokenize \/ Predict \/ EvalFails \/ Sample \/ Forward \/ Return

\* The program is sequential and nothing in it waits: every step is taken.
Spec == Init /\ [][Next]_vars /\ WF_vars(Next)

----------------------------------------------------------------------------------
TypeOK ==
    /\ pc \in {"start", "predict", "next", "done"}
    /\ prompt \in 0..MaxPrompt /\ n_keep \in Int
    /\ n_past \in 0..N_CTX /\ n_remain \in 0..N_PREDICT
    /\ n_consumed \in 0..prompt
    /\ embd \in Seq(Nat) /\ context \in Seq(Nat) /\ result \in Seq(Nat)
    /\ last_tokens \in [1..N_CTX -> Nat]
    /\ swapped \in BOOLEAN

\* The context is never overrun, and holds what n_past says: what is evaluated
\* after a swap, half of the context and the pending tokens, fits behind the
\* tokens that are kept (llama.cpp:285-306 and 353-358).
ContextFits == Len(context) = n_past /\ n_past <= N_CTX

\* The answer is the prompt followed by the sampled tokens, none skipped and none
\* twice, and the sampler's window is its end (llama.cpp:369-395), unless an
\* evaluation fails, which empties the answer.
ResultIsText ==
    \/ /\ result = Text(n_consumed + (N_PREDICT - n_remain))
       /\ last_tokens = Push(Zeros(N_CTX), result)
    \/ pc = "done" /\ result = <<>>

\* The model never samples from a context that lacks the newest token.  Before the
\* first swap exactly the text was evaluated, each token once; a swap keeps the
\* beginning of the text, the beginning-of-text token at least (llama.cpp:291-297).
SamplesFromText ==
    /\ pc = "next" /\ result # <<>> =>
         context # <<>> /\ context[n_past] = Len(result)
    /\ pc = "next" /\ ~swapped => context = result
    /\ swapped => SubSeq(context, 1, Max2(1, n_keep)) = Text(Max2(1, n_keep))

\* "take half of the last (n_ctx - n_keep) tokens and recompute the logits in
\* batches" (llama.cpp:284): what is in the context is a part of the text.
RecomputesText == \A i \in 1..n_past : context[i] \in 1..Len(result)

\* Generation ends, also when the context has to be swapped again and again.
Terminates == <>(pc = "done")

==================================================================================
