------------------------------- MODULE Llama_proofs -------------------------------
(* Proofs about cpp/llama, for every size of the context, batch, budget and      *)
(* prompt.                                                                       *)
EXTENDS Llama, SequenceTheorems, TLAPS

\* A slice of a token sequence.
LEMMA Slice ==
    ASSUME NEW s \in Seq(Nat), NEW m \in Nat \ {0}, NEW n \in Nat,
           m <= n + 1, n <= Len(s)
    PROVE  /\ SubSeq(s, m, n) \in Seq(Nat)
           /\ Len(SubSeq(s, m, n)) = n + 1 - m
           /\ \A i \in 1..(n + 1 - m) : SubSeq(s, m, n)[i] = s[m + i - 1]
<1>1. Len(s) \in Nat /\ \A i \in 1..Len(s) : s[i] \in Nat
  BY LenProperties
<1>2. m \in Int /\ n \in Int /\ \A i \in m..n : s[i] \in Nat
  BY <1>1
<1>3. /\ SubSeq(s, m, n) \in Seq(Nat)
      /\ Len(SubSeq(s, m, n)) = IF m <= n THEN n - m + 1 ELSE 0
      /\ \A i \in 1..(n - m + 1) : SubSeq(s, m, n)[i] = s[m + i - 1]
  BY <1>2, SubSeqProperties
<1>4. n + 1 - m = n - m + 1 /\ (~(m <= n) => n - m + 1 = 0)
  OBVIOUS
<1> QED BY <1>3, <1>4

\* Two token sequences, one behind the other.
LEMMA Joined ==
    ASSUME NEW a \in Seq(Nat), NEW b \in Seq(Nat)
    PROVE  /\ Len(a) \in Nat /\ Len(b) \in Nat
           /\ a \o b \in Seq(Nat) /\ Len(a \o b) = Len(a) + Len(b)
           /\ \A i \in 1..Len(a) : (a \o b)[i] = a[i]
           /\ \A i \in 1..Len(b) : (a \o b)[Len(a) + i] = b[i]
<1>1. Len(a) \in Nat /\ Len(b) \in Nat
  BY LenProperties
<1>2. /\ a \o b \in Seq(Nat) /\ Len(a \o b) = Len(a) + Len(b)
      /\ \A i \in 1..(Len(a) + Len(b)) :
           (a \o b)[i] = IF i <= Len(a) THEN a[i] ELSE b[i - Len(a)]
  BY ConcatProperties
<1>3. ASSUME NEW i \in 1..Len(a) PROVE (a \o b)[i] = a[i]
  BY <1>1, <1>2
<1>4. ASSUME NEW i \in 1..Len(b) PROVE (a \o b)[Len(a) + i] = b[i]
  <2>1. Len(a) + i \in 1..(Len(a) + Len(b)) /\ ~(Len(a) + i <= Len(a))
        /\ (Len(a) + i) - Len(a) = i
    BY <1>1
  <2> QED BY <1>2, <2>1
<1> QED BY <1>1, <1>2, <1>3, <1>4

\* Pushing keeps the window's size and shows the end of window \o s.
LEMMA PushWindow ==
    ASSUME NEW w \in Seq(Nat), NEW s \in Seq(Nat)
    PROVE  /\ Push(w, s) \in Seq(Nat) /\ Len(Push(w, s)) = Len(w)
           /\ \A i \in 1..Len(w) : Push(w, s)[i] = (w \o s)[Len(s) + i]
<1>1. /\ Len(w) \in Nat /\ Len(s) \in Nat
      /\ w \o s \in Seq(Nat) /\ Len(w \o s) = Len(w) + Len(s)
  BY Joined
<1>2. /\ Push(w, s) \in Seq(Nat)
      /\ Len(Push(w, s)) = Len(w) + Len(s) + 1 - (Len(s) + 1)
      /\ \A i \in 1..(Len(w) + Len(s) + 1 - (Len(s) + 1)) :
           Push(w, s)[i] = (w \o s)[Len(s) + 1 + i - 1]
  BY <1>1, Slice DEF Push
<1>3. Len(w) + Len(s) + 1 - (Len(s) + 1) = Len(w)
      /\ \A i \in 1..Len(w) : Len(s) + 1 + i - 1 = Len(s) + i
  BY <1>1
<1> QED BY <1>2, <1>3

\* Pushing two pieces of text is pushing one after the other.
LEMMA PushPush ==
    ASSUME NEW w \in Seq(Nat), NEW r \in Seq(Nat), NEW s \in Seq(Nat)
    PROVE  Push(Push(w, r), s) = Push(w, r \o s)
<1> DEFINE p == Push(w, r)
<1>1. /\ Len(w) \in Nat /\ Len(r) \in Nat /\ Len(s) \in Nat
      /\ r \o s \in Seq(Nat) /\ Len(r \o s) = Len(r) + Len(s)
      /\ w \o r \in Seq(Nat) /\ Len(w \o r) = Len(w) + Len(r)
  BY Joined
<1>2. /\ p \in Seq(Nat) /\ Len(p) = Len(w)
      /\ \A i \in 1..Len(w) : p[i] = (w \o r)[Len(r) + i]
  BY PushWindow
<1> HIDE DEF p
<1>3. /\ Push(p, s) \in Seq(Nat) /\ Len(Push(p, s)) = Len(w)
      /\ \A i \in 1..Len(w) : Push(p, s)[i] = (p \o s)[Len(s) + i]
  BY <1>2, PushWindow
<1>4. /\ Push(w, r \o s) \in Seq(Nat) /\ Len(Push(w, r \o s)) = Len(w)
      /\ \A i \in 1..Len(w) :
           Push(w, r \o s)[i] = (w \o (r \o s))[Len(r \o s) + i]
  <2>1. r \o s \in Seq(Nat)
    BY <1>1
  <2> QED BY <2>1, PushWindow
<1>5. w \o (r \o s) = (w \o r) \o s
  BY ConcatAssociative
<1>6. ASSUME NEW i \in 1..Len(w)
      PROVE  Push(p, s)[i] = Push(w, r \o s)[i]
  <2>1. CASE Len(s) + i <= Len(w)
    <3>1. Len(s) + i \in 1..Len(w)
      BY <1>1, <2>1
    <3>2. (p \o s)[Len(s) + i] = p[Len(s) + i]
      BY <1>2, <3>1, Joined
    <3>3. p[Len(s) + i] = (w \o r)[Len(r) + (Len(s) + i)]
      BY <1>2, <3>1
    <3>4. /\ Len(r) + (Len(s) + i) = Len(r) + Len(s) + i
          /\ Len(r) + Len(s) + i \in 1..Len(w \o r)
      BY <1>1, <2>1
    <3>5. ((w \o r) \o s)[Len(r) + Len(s) + i] = (w \o r)[Len(r) + Len(s) + i]
      BY <1>1, <3>4, Joined
    <3>6. Push(p, s)[i] = (p \o s)[Len(s) + i]
      BY <1>1, <1>2, <1>3
    <3>7. Push(w, r \o s)[i] = ((w \o r) \o s)[Len(r) + Len(s) + i]
      BY <1>4, <1>5
    <3> QED BY <3>2, <3>3, <3>4, <3>5, <3>6, <3>7
  <2>2. CASE Len(s) + i > Len(w)
    <3> DEFINE j == Len(s) + i - Len(w)
    <3>1. /\ j \in 1..Len(s) /\ Len(s) + i = Len(w) + j
          /\ Len(r) + Len(s) + i = Len(w \o r) + j
      BY <1>1, <2>2
    <3> HIDE DEF j
    <3>2. (p \o s)[Len(p) + j] = s[j]
      BY <1>2, <3>1, Joined
    <3>3. ((w \o r) \o s)[Len(w \o r) + j] = s[j]
      BY <1>1, <3>1, Joined
    <3>4. Push(p, s)[i] = s[j]
      BY <1>2, <1>3, <3>1, <3>2
    <3>5. Push(w, r \o s)[i] = s[j]
      BY <1>1, <1>4, <1>5, <3>1, <3>3
    <3> QED BY <3>4, <3>5
  <2> QED BY <1>1, <2>1, <2>2
<1>7. Push(p, s) = Push(w, r \o s)
  BY <1>3, <1>4, <1>6, SeqEqual
<1> QED BY <1>7 DEF p

\* A run of consecutive tokens.
LEMMA TextRun ==
    ASSUME NEW m \in Nat, NEW n \in Nat
    PROVE  /\ [i \in 1..n |-> m + i] \in Seq(Nat)
           /\ Len([i \in 1..n |-> m + i]) = n
OBVIOUS

\* The text is continued by its next tokens.
LEMMA TextContinues ==
    ASSUME NEW m \in Nat, NEW t \in Seq(Nat), \A i \in 1..Len(t) : t[i] = m + i
    PROVE  /\ Text(m) \in Seq(Nat) /\ Len(Text(m)) = m
           /\ Text(m) \o t = Text(m + Len(t))
<1> DEFINE n == Len(t)
<1>1. n \in Nat
  BY LenProperties
<1>2. \A k \in Nat : Text(k) \in Seq(Nat) /\ Len(Text(k)) = k
                     /\ \A i \in 1..k : Text(k)[i] = i
  BY DEF Text
<1> DEFINE front == Text(m)
<1> HIDE DEF n, front
<1>3. front \in Seq(Nat) /\ Len(front) = m /\ \A i \in 1..m : front[i] = i
  BY <1>2 DEF front
<1>4. /\ front \o t \in Seq(Nat) /\ Len(front \o t) = Len(front) + Len(t)
      /\ \A i \in 1..Len(front) : (front \o t)[i] = front[i]
      /\ \A i \in 1..Len(t) : (front \o t)[Len(front) + i] = t[i]
  BY <1>3, Joined
<1>5. ASSUME NEW i \in 1..(m + n) PROVE (front \o t)[i] = i
  <2>1. CASE i <= m
    BY <1>3, <1>4, <2>1
  <2>2. CASE i > m
    <3>1. i - m \in 1..n /\ m + (i - m) = i
      BY <1>1, <2>2
    <3>2. (front \o t)[m + (i - m)] = t[i - m] /\ t[i - m] = m + (i - m)
      BY <1>3, <1>4, <3>1 DEF n
    <3> QED BY <3>1, <3>2
  <2>3. i <= m \/ i > m
    BY <1>1
  <2> QED BY <2>1, <2>2, <2>3
<1>6. /\ m + n \in Nat /\ Len(front \o t) = m + n
      /\ Text(m + n) \in Seq(Nat) /\ Len(Text(m + n)) = m + n
      /\ \A i \in 1..(m + n) : Text(m + n)[i] = i
  BY <1>1, <1>2, <1>3, <1>4 DEF n
<1>7. front \o t = Text(m + n)
  BY <1>4, <1>5, <1>6, SeqEqual
<1> QED BY <1>3, <1>7 DEF n, front

-----------------------------------------------------------------------------------
\* Where the loop is: while the prompt is fed in, what is in the context and in
\* embd is what was consumed of it; afterwards one token at a time is sampled.
Phases ==
    /\ pc = "start" => /\ embd = <<>> /\ context = <<>> /\ result = <<>>
                       /\ n_past = 0 /\ n_consumed = 0 /\ n_remain = N_PREDICT
                       /\ ~swapped
    /\ pc = "next" => embd = <<>> /\ n_remain # 0
    /\ pc \in {"predict", "next"} =>
         /\ prompt \in 0..(N_CTX - 4) /\ n_keep \in 0..prompt
         /\ n_remain = N_PREDICT => n_past + Len(embd) = n_consumed
         /\ n_remain # N_PREDICT => n_consumed = prompt
    /\ pc = "predict" /\ n_remain # N_PREDICT => Len(embd) = 1

Indexed == TypeOK /\ ContextFits /\ Phases

\* embd always fits the context by itself: nothing is skipped.
LEMMA NothingTruncated ==
    ASSUME Indexed, pc = "predict"
    PROVE  /\ Truncated = embd /\ embd \in Seq(Nat)
           /\ Len(embd) \in 0..(N_CTX - 4)
<1>1. embd \in Seq(Nat) /\ Len(embd) \in Nat
  BY LenProperties DEF Indexed, TypeOK
<1>2. /\ n_past \in Nat /\ n_consumed \in 0..prompt /\ prompt \in 0..(N_CTX - 4)
      /\ n_past + Len(embd) = n_consumed \/ Len(embd) = 1
  BY DEF Indexed, TypeOK, Phases
<1>3. Len(embd) \in 0..(N_CTX - 4)
  <2>1. N_CTX \in Nat /\ N_CTX >= 8 /\ Len(embd) \in Nat
    BY <1>1, LlamaAssumption
  <2>2. CASE n_past + Len(embd) = n_consumed
    BY <1>2, <2>1, <2>2
  <2>3. CASE Len(embd) = 1
    BY <2>1, <2>3
  <2> QED BY <1>2, <2>2, <2>3
<1>4. Min2(Len(embd), N_CTX - 4) = Len(embd)
  BY <1>3, LlamaAssumption DEF Min2
<1>5. SubSeq(embd, 1, Len(embd)) = embd
  BY <1>1, SubSeqFull
<1> QED BY <1>1, <1>3, <1>4, <1>5 DEF Truncated

\* A swap happens while tokens are sampled, with a full context, and what is
\* evaluated then fits behind what is kept.
LEMMA SwapFits ==
    ASSUME Indexed, pc = "predict", NeedsSwap
    PROVE  /\ KeptPart \in 1..n_past
           /\ SwappedIn \in Seq(Nat)
           /\ Len(embd) = 1
           /\ KeptPart + Len(SwappedIn) + 1 <= N_CTX
<1>1. Truncated = embd /\ embd \in Seq(Nat) /\ Len(embd) \in 0..(N_CTX - 4)
  BY NothingTruncated
<1>2. n_past + Len(embd) > N_CTX
  BY <1>1 DEF NeedsSwap
<1>3. /\ n_past \in 0..N_CTX /\ n_consumed \in 0..prompt
      /\ prompt \in 0..(N_CTX - 4) /\ n_keep \in 0..prompt
      /\ n_past + Len(embd) = n_consumed \/ Len(embd) = 1
  BY DEF Indexed, TypeOK, Phases
<1>4. Len(embd) = 1 /\ n_past = N_CTX
  <2>1. N_CTX \in Nat /\ N_CTX >= 8 /\ Len(embd) \in Nat
    BY <1>1, LlamaAssumption
  <2>2. n_past + Len(embd) # n_consumed
    BY <1>2, <1>3, <2>1
  <2>3. Len(embd) = 1
    BY <1>3, <2>2
  <2> QED BY <1>2, <1>3, <2>1, <2>3
<1>5. /\ KeptPart \in 1..(N_CTX - 4)
      /\ KeptPart = n_keep \/ (KeptPart = 1 /\ n_keep = 0)
  BY <1>3, LlamaAssumption DEF KeptPart, Max2
<1> DEFINE half == (N_CTX - n_keep) \div 2
<1>6. half \in Nat /\ 2 * half <= N_CTX - n_keep
  BY <1>3, LlamaAssumption
<1>7. SwappedIn = SubSeq(last_n_tokens, N_CTX - half - 1 + 1, N_CTX - 1)
  BY <1>1, <1>4 DEF SwappedIn
<1> HIDE DEF half
<1>8. last_n_tokens \in Seq(Nat) /\ Len(last_n_tokens) = N_CTX
  BY LlamaAssumption DEF last_n_tokens, Zeros
<1>9. /\ N_CTX - half - 1 + 1 \in Nat \ {0} /\ N_CTX - 1 \in Nat
      /\ N_CTX - half - 1 + 1 <= (N_CTX - 1) + 1 /\ N_CTX - 1 <= N_CTX
      /\ (N_CTX - 1) + 1 - (N_CTX - half - 1 + 1) = half
  BY <1>3, <1>6, LlamaAssumption
<1>10. SwappedIn \in Seq(Nat) /\ Len(SwappedIn) = half
  BY <1>7, <1>8, <1>9, Slice
<1>11. KeptPart + half + 1 <= N_CTX
  BY <1>3, <1>5, <1>6, LlamaAssumption
<1> QED BY <1>4, <1>5, <1>10, <1>11, LlamaAssumption

\* What a round evaluates fits the context, and ends with the newest token.
LEMMA PendingFits ==
    ASSUME Indexed, pc = "predict", embd # <<>>
    PROVE  /\ Pending \in Seq(Nat) /\ Len(Pending) \in Nat \ {0}
           /\ From \in 0..n_past /\ From + Len(Pending) <= N_CTX
           /\ Pending[Len(Pending)] = embd[Len(embd)]
           /\ ~NeedsSwap => Pending = embd /\ From = n_past
           /\ NeedsSwap => From = KeptPart /\ KeptPart \in 1..n_past
<1>1. /\ Truncated = embd /\ embd \in Seq(Nat) /\ Len(embd) \in Nat \ {0}
      /\ n_past \in 0..N_CTX
  BY NothingTruncated, EmptySeq DEF Indexed, TypeOK
<1>2. CASE ~NeedsSwap
  <2>1. Pending = embd /\ From = n_past
    BY <1>1, <1>2 DEF Pending, From
  <2>2. n_past + Len(embd) <= N_CTX
    BY <1>1, <1>2, LlamaAssumption DEF NeedsSwap
  <2> QED BY <1>1, <1>2, <2>1, <2>2
<1>3. CASE NeedsSwap
  <2>1. /\ KeptPart \in 1..n_past /\ SwappedIn \in Seq(Nat) /\ Len(embd) = 1
        /\ KeptPart + Len(SwappedIn) + 1 <= N_CTX
    BY <1>3, SwapFits
  <2>2. Pending = SwappedIn \o embd /\ From = KeptPart
    BY <1>1, <1>3 DEF Pending, From, AfterSwap
  <2>3. /\ Len(SwappedIn) \in Nat
        /\ SwappedIn \o embd \in Seq(Nat)
        /\ Len(SwappedIn \o embd) = Len(SwappedIn) + Len(embd)
        /\ \A i \in 1..Len(embd) : (SwappedIn \o embd)[Len(SwappedIn) + i] = embd[i]
    BY <1>1, <2>1, Joined
  <2>4. /\ Len(Pending) = Len(SwappedIn) + 1 /\ Len(Pending) \in Nat \ {0}
        /\ Pending[Len(Pending)] = embd[Len(embd)]
    BY <2>1, <2>2, <2>3
  <2>5. From + Len(Pending) <= N_CTX /\ From \in 0..n_past
    BY <1>1, <2>1, <2>2, <2>3, <2>4
  <2> QED BY <1>3, <2>1, <2>2, <2>3, <2>4, <2>5
<1> QED BY <1>2, <1>3

\* What the model's context is after an evaluation.
LEMMA EvaluateFits ==
    ASSUME Indexed, NEW tokens \in Seq(Nat), NEW past \in 0..n_past,
           past + Len(tokens) <= N_CTX, Evaluate(tokens, past)
    PROVE  /\ context' \in Seq(Nat) /\ Len(context') = n_past'
           /\ n_past' = past + Len(tokens) /\ n_past' \in 0..N_CTX
           /\ \A i \in 1..past : context'[i] = context[i]
           /\ \A i \in 1..Len(tokens) : context'[past + i] = tokens[i]
<1>1. context \in Seq(Nat) /\ Len(context) = n_past /\ n_past \in Nat
  BY DEF Indexed, TypeOK, ContextFits
<1>2. Len(tokens) \in Nat /\ past \in Nat /\ past <= n_past
  BY <1>1, LenProperties
<1>3. n_past' = past + Len(tokens) /\ n_past' \in 0..N_CTX
  BY <1>2, LlamaAssumption DEF Evaluate
<1> DEFINE front == SubSeq(context, 1, past)
<1>4. /\ front \in Seq(Nat) /\ Len(front) = past + 1 - 1
      /\ \A i \in 1..(past + 1 - 1) : front[i] = context[1 + i - 1]
  BY <1>1, <1>2, Slice
<1>5. context' = front \o tokens
  BY DEF Evaluate
<1> HIDE DEF front
<1>6. Len(front) = past /\ \A i \in 1..past : front[i] = context[i]
  BY <1>2, <1>4
<1>7. /\ context' \in Seq(Nat) /\ Len(context') = Len(front) + Len(tokens)
      /\ \A i \in 1..Len(front) : context'[i] = front[i]
      /\ \A i \in 1..Len(tokens) : context'[Len(front) + i] = tokens[i]
  BY <1>4, <1>5, Joined
<1> QED BY <1>2, <1>3, <1>6, <1>7

\* What is taken in is appended to the text.
LEMMA TakeInTypes ==
    ASSUME TypeOK, NEW tokens \in Seq(Nat), TakeIn(tokens)
    PROVE  /\ embd' \in Seq(Nat) /\ result' \in Seq(Nat)
           /\ last_tokens' \in [1..N_CTX -> Nat]
<1>1. result \in Seq(Nat) /\ last_tokens \in [1..N_CTX -> Nat] /\ N_CTX \in Nat
  BY LlamaAssumption DEF TypeOK
<1>2. last_tokens \in Seq(Nat) /\ Len(last_tokens) = N_CTX
  BY <1>1
<1>3. Push(last_tokens, tokens) \in Seq(Nat) /\ Len(Push(last_tokens, tokens)) = N_CTX
  BY <1>2, PushWindow
<1>4. Push(last_tokens, tokens) \in [1..N_CTX -> Nat]
  BY <1>3, LenProperties
<1>5. result \o tokens \in Seq(Nat)
  BY <1>1, Joined
<1> QED BY <1>4, <1>5 DEF TakeIn

\* The batch of the prompt that Forward takes.
LEMMA BatchTaken ==
    ASSUME Indexed, pc = "next", n_consumed < prompt
    PROVE  LET n == Min2(N_BATCH, prompt - n_consumed)
               t == [i \in 1..n |-> n_consumed + i]
           IN  /\ n \in Nat \ {0} /\ n_consumed + n \in 0..prompt
               /\ t \in Seq(Nat) /\ Len(t) = n /\ \A i \in 1..n : t[i] = n_consumed + i
<1> DEFINE n == Min2(N_BATCH, prompt - n_consumed)
<1>1. n_consumed \in Nat /\ prompt \in Nat
  BY LlamaAssumption DEF Indexed, TypeOK
<1>2. n \in Nat \ {0} /\ n_consumed + n \in 0..prompt
  BY <1>1, LlamaAssumption DEF Min2
<1> HIDE DEF n
<1>3. [i \in 1..n |-> n_consumed + i] \in Seq(Nat)
      /\ Len([i \in 1..n |-> n_consumed + i]) = n
  BY <1>1, <1>2, TextRun
<1> QED BY <1>2, <1>3 DEF n

-----------------------------------------------------------------------------------
LEMMA InitIndexed == Init => Indexed
<1> SUFFICES ASSUME Init PROVE Indexed
  OBVIOUS
<1>1. TypeOK
  <2>1. last_tokens \in [1..N_CTX -> Nat]
    BY LlamaAssumption DEF Init, Zeros
  <2>2. embd \in Seq(Nat) /\ context \in Seq(Nat) /\ result \in Seq(Nat)
    BY EmptySeq DEF Init
  <2>3. /\ prompt \in 0..MaxPrompt /\ n_keep \in Int /\ n_past \in 0..N_CTX
        /\ n_remain \in 0..N_PREDICT /\ n_consumed \in 0..prompt
    BY LlamaAssumption DEF Init
  <2> QED BY <2>1, <2>2, <2>3 DEF Init, TypeOK
<1>2. ContextFits
  BY LlamaAssumption DEF Init, ContextFits
<1>3. Phases
  BY DEF Init, Phases
<1> QED BY <1>1, <1>2, <1>3 DEF Indexed

LEMMA StepIndexed == Indexed /\ [Next]_vars => Indexed'
<1> SUFFICES ASSUME Indexed, [Next]_vars PROVE Indexed'
  OBVIOUS
<1> USE DEF Indexed
<1>1. CASE Tokenize
  <2>1. /\ n_keep' \in Int /\ prompt' \in 0..MaxPrompt
        /\ pc' = "predict" => prompt' \in 0..(N_CTX - 4) /\ n_keep' \in 0..prompt'
    BY <1>1, LlamaAssumption DEF Tokenize, TypeOK
  <2>2. n_consumed = 0 /\ n_consumed' = 0 /\ n_past = 0 /\ Len(embd) = 0
    BY <1>1 DEF Tokenize, Phases
  <2>3. TypeOK'
    BY <1>1, <2>1, <2>2 DEF Tokenize, TypeOK
  <2>4. ContextFits'
    BY <1>1 DEF Tokenize, ContextFits
  <2>5. Phases'
    BY <1>1, <2>1, <2>2 DEF Tokenize, Phases
  <2> QED BY <2>3, <2>4, <2>5
<1>2. CASE Predict
  <2>1. CASE embd = <<>>
    <3>1. TypeOK'
      BY <1>2, <2>1, EmptySeq DEF Predict, TypeOK
    <3>2. ContextFits'
      BY <1>2, <2>1 DEF Predict, ContextFits
    <3>3. Phases'
      BY <1>2, <2>1 DEF Predict, Phases, BudgetLeft
    <3> QED BY <3>1, <3>2, <3>3
  <2>2. CASE embd # <<>>
    <3>1. /\ Pending \in Seq(Nat) /\ From \in 0..n_past
          /\ From + Len(Pending) <= N_CTX
          /\ ~NeedsSwap => Pending = embd /\ From = n_past
      BY <1>2, <2>2, PendingFits DEF Predict
    <3>2. Evaluate(Pending, From)
      BY <1>2, <2>2 DEF Predict
    <3>3. /\ context' \in Seq(Nat) /\ Len(context') = n_past'
          /\ n_past' = From + Len(Pending) /\ n_past' \in 0..N_CTX
      BY <3>1, <3>2, EvaluateFits
    <3>4. TypeOK'
      BY <1>2, <3>3, EmptySeq DEF Predict, TypeOK, NeedsSwap
    <3>5. ContextFits'
      BY <3>3, LlamaAssumption DEF ContextFits
    <3>6. n_remain = N_PREDICT => n_past + Len(embd) = n_consumed /\ ~NeedsSwap
      <4>1. SUFFICES ASSUME n_remain = N_PREDICT
                     PROVE  n_past + Len(embd) = n_consumed /\ ~NeedsSwap
        OBVIOUS
      <4>2. /\ n_past + Len(embd) = n_consumed /\ n_consumed \in 0..prompt
            /\ prompt \in 0..(N_CTX - 4) /\ Truncated = embd
        BY <1>2, <4>1, NothingTruncated DEF Predict, Phases, TypeOK
      <4>3. ~(n_past + Len(Truncated) > N_CTX)
        BY <4>2, LlamaAssumption
      <4> QED BY <4>2, <4>3 DEF NeedsSwap
    <3>7. n_past' + Len(embd') = n_past' /\ n_past' \in Nat
      BY <1>2, <3>3, LlamaAssumption DEF Predict
    <3>8. Phases'
      <4>1. pc' = "next" /\ embd' = <<>> /\ n_remain' # 0
        BY <1>2 DEF Predict, BudgetLeft
      <4>2. /\ prompt' \in 0..(N_CTX - 4) /\ n_keep' \in 0..prompt'
            /\ n_remain' # N_PREDICT => n_consumed' = prompt'
        BY <1>2 DEF Predict, Phases
      <4>3. n_remain' = N_PREDICT => n_past' + Len(embd') = n_consumed'
        BY <1>2, <3>1, <3>3, <3>6, <3>7 DEF Predict
      <4> QED BY <4>1, <4>2, <4>3 DEF Phases
    <3> QED BY <3>4, <3>5, <3>8
  <2> QED BY <2>1, <2>2
<1>3. CASE EvalFails
  <2>1. /\ Pending \in Seq(Nat) /\ Len(Pending) \in Nat \ {0}
        /\ From \in 0..n_past /\ From + Len(Pending) <= N_CTX
    BY <1>3, PendingFits DEF EvalFails
  <2>2. PICK k \in 0..(Len(Pending) - 1) : Evaluate(SubSeq(Pending, 1, k), From)
    BY <1>3 DEF EvalFails
  <2>3. /\ k \in Nat /\ k <= Len(Pending) /\ 1 <= k + 1 /\ k + 1 - 1 = k
    BY <2>1
  <2>4. SubSeq(Pending, 1, k) \in Seq(Nat) /\ Len(SubSeq(Pending, 1, k)) = k + 1 - 1
    BY <2>1, <2>3, Slice
  <2>5. From + Len(SubSeq(Pending, 1, k)) <= N_CTX
    BY <2>1, <2>3, <2>4, LlamaAssumption DEF TypeOK
  <2>6. context' \in Seq(Nat) /\ Len(context') = n_past' /\ n_past' \in 0..N_CTX
    BY <2>1, <2>2, <2>4, <2>5, EvaluateFits
  <2>7. TypeOK'
    BY <1>3, <2>1, <2>6, EmptySeq DEF EvalFails, TypeOK, NeedsSwap
  <2>8. ContextFits'
    BY <2>6, LlamaAssumption DEF ContextFits
  <2>9. Phases'
    BY <1>3 DEF EvalFails, Phases
  <2> QED BY <2>7, <2>8, <2>9
<1>4. CASE Sample
  <2> DEFINE t == <<Len(result) + 1>>
  <2>1. t \in Seq(Nat) /\ Len(t) = 1
    BY LenProperties DEF TypeOK
  <2>2. TakeIn(t)
    BY <1>4 DEF Sample
  <2>3. n_remain \in 0..N_PREDICT /\ n_remain # 0 /\ n_consumed \in 0..prompt
        /\ n_consumed >= prompt /\ prompt \in 0..MaxPrompt
    BY <1>4 DEF Sample, TypeOK, Phases
  <2>4. n_remain' \in 0..N_PREDICT /\ n_remain' # N_PREDICT /\ n_consumed = prompt
    BY <1>4, <2>3, LlamaAssumption DEF Sample
  <2>5. TypeOK'
    BY <1>4, <2>1, <2>2, <2>4, TakeInTypes DEF Sample, TypeOK
  <2>6. ContextFits'
    BY <1>4 DEF Sample, ContextFits
  <2>7. Len(embd') = 1
    BY <2>1, <2>2 DEF TakeIn
  <2>8. Phases'
    BY <1>4, <2>4, <2>7 DEF Sample, Phases
  <2> QED BY <2>5, <2>6, <2>8
<1>5. CASE Forward
  <2> DEFINE n == Min2(N_BATCH, prompt - n_consumed)
             t == [i \in 1..n |-> n_consumed + i]
  <2>1. /\ n \in Nat \ {0} /\ n_consumed + n \in 0..prompt
        /\ t \in Seq(Nat) /\ Len(t) = n
    BY <1>5, BatchTaken DEF Forward
  <2>2. TakeIn(t) /\ n_consumed' = n_consumed + n
    BY <1>5 DEF Forward
  <2> HIDE DEF n, t
  <2>3. n_remain = N_PREDICT /\ Len(embd) = 0 /\ n_past + Len(embd) = n_consumed
        /\ n_past \in Nat /\ n_consumed \in Nat
    BY <1>5, LlamaAssumption DEF Forward, Phases, TypeOK
  <2>4. TypeOK'
    BY <1>5, <2>1, <2>2, TakeInTypes DEF Forward, TypeOK
  <2>5. ContextFits'
    BY <1>5 DEF Forward, ContextFits
  <2>6. n_past' + Len(embd') = n_consumed'
    <3>1. embd' = t /\ n_past' = n_past
      BY <1>5, <2>2 DEF Forward, TakeIn
    <3> QED BY <2>1, <2>2, <2>3, <3>1
  <2>7. Phases'
    BY <1>5, <2>3, <2>6 DEF Forward, Phases
  <2> QED BY <2>4, <2>5, <2>7
<1>6. CASE Return
  BY <1>6 DEF Return, TypeOK, ContextFits, Phases
<1>7. CASE UNCHANGED vars
  BY <1>7 DEF vars, TypeOK, ContextFits, Phases
<1> QED BY <1>1, <1>2, <1>3, <1>4, <1>5, <1>6, <1>7 DEF Next

\* For every size of the context, batch, budget and prompt: every counter stays in
\* its range, and the sampler's window keeps its size (llama.cpp:250-260).
THEOREM TypeCorrect == Spec => []TypeOK
<1>1. Indexed => TypeOK
  BY DEF Indexed
<1> QED BY InitIndexed, StepIndexed, <1>1, PTL DEF Spec

\* For every size of the context, batch, budget and prompt, and every n_keep: what
\* a swap puts back and the pending tokens never overrun the model's context
\* (llama.cpp:285-306).
THEOREM ContextAlwaysFits == Spec => []ContextFits
<1>1. Indexed => ContextFits
  BY DEF Indexed
<1> QED BY InitIndexed, StepIndexed, <1>1, PTL DEF Spec

-----------------------------------------------------------------------------------
\* The text that no round has added to.
LEMMA EmptyText ==
    Text(0) = <<>> /\ Push(Zeros(N_CTX), <<>>) = Zeros(N_CTX)
<1>1. Text(0) \in Seq(Nat) /\ Len(Text(0)) = 0 /\ <<>> \in Seq(Nat) /\ Len(<<>>) = 0
  BY EmptySeq DEF Text
<1>2. Text(0) = <<>>
  BY <1>1, EmptySeq
<1> DEFINE w == Zeros(N_CTX)
<1>3. w \in Seq(Nat) /\ Len(w) = N_CTX /\ N_CTX \in Nat
  BY LlamaAssumption DEF Zeros
<1> HIDE DEF w
<1>4. w \o <<>> = w /\ SubSeq(w, 1, Len(w)) = w
  BY <1>3, ConcatEmptySeq, SubSeqFull
<1>5. Push(w, <<>>) = SubSeq(w \o <<>>, 0 + 1, Len(w) + 0)
  BY <1>1 DEF Push
<1>6. Push(w, <<>>) = w
  BY <1>3, <1>4, <1>5
<1> QED BY <1>2, <1>6 DEF w

\* Taking in the next tokens of the text continues it.
LEMMA TakeInText ==
    ASSUME NEW m \in Nat, NEW t \in Seq(Nat), \A i \in 1..Len(t) : t[i] = m + i,
           result = Text(m), last_tokens = Push(Zeros(N_CTX), result), TakeIn(t)
    PROVE  /\ result' = Text(m + Len(t))
           /\ last_tokens' = Push(Zeros(N_CTX), result')
           /\ Len(result) = m /\ Len(result') = m + Len(t)
<1>1. /\ Text(m) \in Seq(Nat) /\ Len(Text(m)) = m
      /\ Text(m) \o t = Text(m + Len(t))
  BY TextContinues
<1>2. Zeros(N_CTX) \in Seq(Nat)
  BY LlamaAssumption DEF Zeros
<1>3. last_tokens' = Push(Push(Zeros(N_CTX), Text(m)), t)
  BY DEF TakeIn
<1>4. last_tokens' = Push(Zeros(N_CTX), Text(m) \o t)
  BY <1>1, <1>2, <1>3, PushPush
<1>5. result' = Text(m) \o t
  BY DEF TakeIn
<1>6. Len(Text(m) \o t) = Len(Text(m)) + Len(t)
  BY <1>1, Joined
<1> QED BY <1>1, <1>4, <1>5, <1>6

\* How many tokens the text has.
TextLength == n_consumed + (N_PREDICT - n_remain)

LEMMA TextLengthNat == ASSUME TypeOK PROVE TextLength \in Nat
<1>1. n_consumed \in Nat /\ n_remain \in 0..N_PREDICT
  BY DEF TypeOK
<1> QED BY <1>1, LlamaAssumption DEF TextLength

\* A round that takes tokens in takes in the next ones of the text.
LEMMA TokensTaken ==
    ASSUME Indexed, ResultIsText, Sample \/ Forward
    PROVE  \E t \in Seq(Nat) :
             /\ Len(t) \in Nat \ {0} /\ \A i \in 1..Len(t) : t[i] = TextLength + i
             /\ TakeIn(t) /\ TextLength' = TextLength + Len(t)
             /\ result = Text(TextLength) /\ Len(result) = TextLength
             /\ last_tokens = Push(Zeros(N_CTX), result)
<1> USE DEF Indexed
<1>1. TextLength \in Nat
  BY TextLengthNat
<1>2. result = Text(TextLength) /\ last_tokens = Push(Zeros(N_CTX), result)
  BY DEF Sample, Forward, ResultIsText, TextLength
<1>3. Len(result) = TextLength
  BY <1>1, <1>2 DEF Text
<1>4. CASE Sample
  <2> DEFINE t == <<Len(result) + 1>>
  <2>1. t \in Seq(Nat) /\ Len(t) = 1 /\ \A i \in 1..Len(t) : t[i] = TextLength + i
    BY <1>1, <1>3
  <2>2. TakeIn(t) /\ n_consumed' = n_consumed /\ n_remain' = n_remain - 1
    BY <1>4 DEF Sample
  <2> HIDE DEF t
  <2>3. n_consumed \in Nat /\ n_remain \in Nat
    BY LlamaAssumption DEF TypeOK
  <2>4. TextLength' = TextLength + Len(t)
    BY <2>1, <2>2, <2>3, LlamaAssumption DEF TextLength
  <2>5. Len(t) \in Nat \ {0}
    BY <2>1
  <2> QED BY <1>2, <1>3, <2>1, <2>2, <2>4, <2>5
<1>5. CASE Forward
  <2> DEFINE n == Min2(N_BATCH, prompt - n_consumed)
             t == [i \in 1..n |-> n_consumed + i]
  <2>1. /\ n \in Nat \ {0} /\ t \in Seq(Nat) /\ Len(t) = n
        /\ \A i \in 1..n : t[i] = n_consumed + i
    BY <1>5, BatchTaken DEF Forward
  <2>2. TakeIn(t) /\ n_consumed' = n_consumed + n /\ n_remain' = n_remain
    BY <1>5 DEF Forward
  <2> HIDE DEF n, t
  <2>3. n_remain = N_PREDICT /\ n_consumed \in Nat
    BY <1>5, LlamaAssumption DEF Forward, Phases, TypeOK
  <2>4. TextLength = n_consumed /\ TextLength' = n_consumed + n
    BY <2>1, <2>2, <2>3, LlamaAssumption DEF TextLength
  <2> QED BY <1>2, <1>3, <2>1, <2>2, <2>4
<1> QED BY <1>4, <1>5

LEMMA StepText == Indexed /\ ResultIsText /\ [Next]_vars => ResultIsText'
<1> SUFFICES ASSUME Indexed, ResultIsText, [Next]_vars PROVE ResultIsText'
  OBVIOUS
<1>1. CASE Sample \/ Forward
  <2>1. PICK t \in Seq(Nat) :
          /\ \A i \in 1..Len(t) : t[i] = TextLength + i
          /\ TakeIn(t) /\ TextLength' = TextLength + Len(t)
          /\ result = Text(TextLength)
          /\ last_tokens = Push(Zeros(N_CTX), result)
    BY <1>1, TokensTaken
  <2>2. TextLength \in Nat
    BY TextLengthNat DEF Indexed
  <2>3. result' = Text(TextLength + Len(t)) /\ last_tokens' = Push(Zeros(N_CTX), result')
    BY <2>1, <2>2, TakeInText
  <2>4. result' = Text(TextLength')
    BY <2>1, <2>3
  <2> QED BY <2>3, <2>4 DEF ResultIsText, TextLength
<1>2. CASE EvalFails
  BY <1>2 DEF EvalFails, ResultIsText
<1>3. CASE Tokenize \/ Predict \/ Return
  <2>1. /\ pc # "done"
        /\ UNCHANGED <<n_consumed, n_remain, result, last_tokens>>
    BY <1>3 DEF Tokenize, Predict, Return
  <2> QED BY <2>1 DEF ResultIsText
<1>4. CASE UNCHANGED vars
  BY <1>4 DEF vars, ResultIsText
<1> QED BY <1>1, <1>2, <1>3, <1>4 DEF Next

LEMMA InitText == Init => ResultIsText
<1> SUFFICES ASSUME Init PROVE ResultIsText
  OBVIOUS
<1>1. n_consumed + (N_PREDICT - n_remain) = 0
  BY LlamaAssumption DEF Init
<1>2. result = <<>> /\ last_tokens = Zeros(N_CTX)
  BY DEF Init
<1> QED BY <1>1, <1>2, EmptyText DEF ResultIsText

\* For every size of the context, batch, budget and prompt: the answer is the prompt
\* and the sampled tokens, none skipped and none twice, however often the context
\* is swapped, and the sampler's window is its end (llama.cpp:365-395).
THEOREM AnswerIsText == Spec => []ResultIsText
BY InitIndexed, StepIndexed, InitText, StepText, PTL DEF Spec

-----------------------------------------------------------------------------------
\* What the model has evaluated: until the first swap, with the pending tokens,
\* exactly the text; afterwards the beginning of the text in its place.  The newest
\* token is pending, or was evaluated last.
Sampling ==
    /\ pc \in {"predict", "next"} /\ ~swapped => context \o embd = result
    /\ swapped => KeptPart <= n_past /\ \A i \in 1..KeptPart : context[i] = i
    /\ pc = "predict" /\ result # <<>> => embd # <<>> /\ embd[Len(embd)] = Len(result)
    /\ pc = "next" /\ result # <<>> => n_past >= 1 /\ context[n_past] = Len(result)

\* A swap leaves the beginning of the text where it is.
LEMMA KeptIsText ==
    ASSUME Indexed, ResultIsText, Sampling, pc = "predict", embd # <<>>,
           swapped \/ NeedsSwap
    PROVE  KeptPart <= From /\ \A i \in 1..KeptPart : context[i] = i
<1>1. /\ ~NeedsSwap => From = n_past
      /\ NeedsSwap => From = KeptPart /\ KeptPart \in 1..n_past
  BY PendingFits
<1>2. n_past \in Nat
  BY LlamaAssumption DEF Indexed, TypeOK
<1>3. CASE swapped
  BY <1>1, <1>2, <1>3 DEF Sampling
<1>4. CASE ~swapped /\ NeedsSwap
  <2>1. context \o embd = result /\ result = Text(TextLength)
    BY <1>4 DEF Sampling, ResultIsText, TextLength
  <2>2. /\ context \in Seq(Nat) /\ Len(context) = n_past /\ embd \in Seq(Nat)
        /\ TextLength \in Nat
    BY TextLengthNat DEF Indexed, TypeOK, ContextFits
  <2>3. /\ Len(embd) \in Nat /\ Len(context \o embd) = n_past + Len(embd)
        /\ \A i \in 1..n_past : (context \o embd)[i] = context[i]
    BY <2>2, Joined
  <2>4. Len(result) = TextLength /\ \A i \in 1..TextLength : result[i] = i
    BY <2>1, <2>2 DEF Text
  <2>5. ASSUME NEW i \in 1..KeptPart PROVE context[i] = i
    <3>1. i \in 1..n_past /\ i \in 1..TextLength
      BY <1>1, <1>2, <1>4, <2>1, <2>3, <2>4
    <3> QED BY <2>1, <2>3, <2>4, <3>1
  <2> QED BY <1>1, <1>2, <1>4, <2>5
<1> QED BY <1>3, <1>4

\* What a round, or a part of it, evaluates preserves the beginning of the text.
LEMMA SwappedStaysText ==
    ASSUME Indexed, ResultIsText, Sampling, pc = "predict", embd # <<>>,
           NEW tokens \in Seq(Nat), From + Len(tokens) <= N_CTX,
           Evaluate(tokens, From), swapped' = (swapped \/ NeedsSwap),
           KeptPart' = KeptPart
    PROVE  swapped' => KeptPart' <= n_past' /\ \A i \in 1..KeptPart' : context'[i] = i
<1> SUFFICES ASSUME swapped'
             PROVE  KeptPart <= n_past' /\ \A i \in 1..KeptPart : context'[i] = i
  OBVIOUS
<1>1. KeptPart <= From /\ \A i \in 1..KeptPart : context[i] = i
  BY KeptIsText
<1>2. From \in 0..n_past /\ n_past \in Nat
  BY PendingFits, LlamaAssumption DEF Indexed, TypeOK
<1>3. n_past' = From + Len(tokens) /\ \A i \in 1..From : context'[i] = context[i]
  BY <1>2, EvaluateFits
<1>4. Len(tokens) \in Nat
  BY LenProperties
<1>5. KeptPart \in Int
  BY DEF KeptPart, Max2, Indexed, TypeOK
<1>6. KeptPart <= n_past'
  BY <1>1, <1>2, <1>3, <1>4, <1>5
<1>7. ASSUME NEW i \in 1..KeptPart PROVE context'[i] = i
  <2>1. i \in 1..From
    BY <1>1, <1>2, <1>5
  <2> QED BY <1>1, <1>3, <2>1
<1> QED BY <1>6, <1>7

LEMMA StepSampling ==
    Indexed /\ ResultIsText /\ Sampling /\ [Next]_vars => Sampling'
<1> SUFFICES ASSUME Indexed, ResultIsText, Sampling, [Next]_vars PROVE Sampling'
  OBVIOUS
<1>1. CASE Tokenize
  <2>1. /\ context' = <<>> /\ embd' = <<>> /\ result' = <<>> /\ ~swapped'
        /\ pc' \in {"predict", "done"}
    BY <1>1 DEF Tokenize, Indexed, Phases
  <2>2. <<>> \o <<>> = <<>>
    BY EmptySeq, ConcatEmptySeq
  <2> QED BY <2>1, <2>2 DEF Sampling
<1>2. CASE Predict
  <2>1. /\ pc = "predict" /\ pc' = "next" /\ embd' = <<>>
        /\ result' = result /\ KeptPart' = KeptPart
    BY <1>2 DEF Predict, KeptPart
  <2>2. context' \in Seq(Nat)
    BY <1>2, StepIndexed DEF Indexed, TypeOK
  <2>3. context' \o <<>> = context'
    BY <2>2, ConcatEmptySeq
  <2>4. CASE embd = <<>>
    <3>1. result = <<>>
      BY <2>1, <2>4 DEF Sampling
    <3>2. UNCHANGED <<context, n_past, swapped>> /\ embd' = embd
      BY <1>2, <2>1, <2>4 DEF Predict
    <3> QED BY <2>1, <3>1, <3>2 DEF Sampling
  <2>5. CASE embd # <<>>
    <3>1. /\ Pending \in Seq(Nat) /\ Len(Pending) \in Nat \ {0}
          /\ From \in 0..n_past /\ From + Len(Pending) <= N_CTX
          /\ Pending[Len(Pending)] = embd[Len(embd)]
          /\ ~NeedsSwap => Pending = embd /\ From = n_past
      BY <2>1, <2>5, PendingFits
    <3>2. Evaluate(Pending, From) /\ swapped' = (swapped \/ NeedsSwap)
      BY <1>2, <2>5 DEF Predict
    <3>3. ~swapped' => context' = result
      <4>1. SUFFICES ASSUME ~swapped' PROVE context' = result
        OBVIOUS
      <4>2. ~swapped /\ Pending = embd /\ From = n_past
        BY <3>1, <3>2, <4>1
      <4>3. context' = SubSeq(context, 1, n_past) \o embd
        BY <3>2, <4>2 DEF Evaluate
      <4>4. context \in Seq(Nat) /\ Len(context) = n_past
        BY DEF Indexed, TypeOK, ContextFits
      <4>5. SubSeq(context, 1, n_past) = context
        BY <4>4, SubSeqFull
      <4> QED BY <2>1, <4>2, <4>3, <4>5 DEF Sampling
    <3>4. swapped' => KeptPart' <= n_past' /\ \A i \in 1..KeptPart' : context'[i] = i
      BY <2>1, <2>5, <3>1, <3>2, SwappedStaysText
    <3>5. result # <<>> => n_past' >= 1 /\ context'[n_past'] = Len(result)
      <4>1. /\ n_past' = From + Len(Pending)
            /\ context'[From + Len(Pending)] = Pending[Len(Pending)]
        BY <3>1, <3>2, EvaluateFits
      <4>2. n_past' >= 1
        BY <3>1, <4>1, LlamaAssumption DEF Indexed, TypeOK
      <4> QED BY <2>1, <3>1, <4>1, <4>2 DEF Sampling
    <3> QED BY <2>1, <2>3, <3>3, <3>4, <3>5 DEF Sampling
  <2> QED BY <2>4, <2>5
<1>3. CASE EvalFails
  <2>1. /\ pc = "predict" /\ embd # <<>> /\ pc' = "done"
        /\ swapped' = (swapped \/ NeedsSwap) /\ KeptPart' = KeptPart
    BY <1>3 DEF EvalFails, KeptPart
  <2>2. /\ Pending \in Seq(Nat) /\ Len(Pending) \in Nat \ {0}
        /\ From \in 0..n_past /\ From + Len(Pending) <= N_CTX
    BY <2>1, PendingFits
  <2>3. PICK k \in 0..(Len(Pending) - 1) : Evaluate(SubSeq(Pending, 1, k), From)
    BY <1>3 DEF EvalFails
  <2>4. k \in Nat /\ k <= Len(Pending) /\ 1 <= k + 1 /\ k + 1 - 1 = k
    BY <2>2
  <2>5. SubSeq(Pending, 1, k) \in Seq(Nat) /\ Len(SubSeq(Pending, 1, k)) = k + 1 - 1
    BY <2>2, <2>4, Slice
  <2>6. From + Len(SubSeq(Pending, 1, k)) <= N_CTX
    BY <2>2, <2>4, <2>5, LlamaAssumption DEF Indexed, TypeOK
  <2>7. swapped' => KeptPart' <= n_past' /\ \A i \in 1..KeptPart' : context'[i] = i
    BY <2>1, <2>3, <2>5, <2>6, SwappedStaysText
  <2> QED BY <2>1, <2>7 DEF Sampling
<1>4. CASE Sample \/ Forward
  <2>1. PICK t \in Seq(Nat) :
          /\ Len(t) \in Nat \ {0} /\ \A i \in 1..Len(t) : t[i] = TextLength + i
          /\ TakeIn(t) /\ result = Text(TextLength)
          /\ last_tokens = Push(Zeros(N_CTX), result)
    BY <1>4, TokensTaken
  <2>2. TextLength \in Nat
    BY TextLengthNat DEF Indexed
  <2>3. Len(result') = TextLength + Len(t)
    BY <2>1, <2>2, TakeInText
  <2>4. /\ pc = "next" /\ embd = <<>> /\ pc' \in {"predict", "done"}
        /\ UNCHANGED <<context, n_past, n_keep, swapped>> /\ KeptPart' = KeptPart
    BY <1>4 DEF Sample, Forward, KeptPart, Indexed, Phases
  <2>5. embd' = t /\ result' = result \o t
    BY <2>1 DEF TakeIn
  <2>6. ~swapped => context = result
    <3>1. context \in Seq(Nat)
      BY DEF Indexed, TypeOK
    <3>2. context \o <<>> = context
      BY <3>1, ConcatEmptySeq
    <3> QED BY <2>4, <3>2 DEF Sampling
  <2>7. t # <<>> /\ t[Len(t)] = TextLength + Len(t)
    BY <2>1, EmptySeq
  <2> QED BY <2>3, <2>4, <2>5, <2>6, <2>7 DEF Sampling
<1>5. CASE Return
  BY <1>5 DEF Return, Sampling, KeptPart
<1>6. CASE UNCHANGED vars
  BY <1>6 DEF vars, Sampling, KeptPart
<1> QED BY <1>1, <1>2, <1>3, <1>4, <1>5, <1>6 DEF Next

LEMMA InitSampling == Init => Sampling
BY DEF Init, Sampling

LEMMA SamplingIsFromText ==
    ASSUME Indexed, Sampling PROVE SamplesFromText
<1>1. /\ context \in Seq(Nat) /\ Len(context) = n_past /\ n_past \in Nat
      /\ n_keep \in Int
  BY LlamaAssumption DEF Indexed, TypeOK, ContextFits
<1>2. pc = "next" /\ result # <<>> => context # <<>> /\ context[n_past] = Len(result)
  BY <1>1, EmptySeq DEF Sampling
<1>3. pc = "next" /\ ~swapped => context = result
  <2>1. context \o <<>> = context
    BY <1>1, ConcatEmptySeq
  <2> QED BY <2>1 DEF Sampling, Indexed, Phases
<1>4. swapped => SubSeq(context, 1, KeptPart) = Text(KeptPart)
  <2> SUFFICES ASSUME swapped PROVE SubSeq(context, 1, KeptPart) = Text(KeptPart)
    OBVIOUS
  <2>1. KeptPart <= n_past /\ \A i \in 1..KeptPart : context[i] = i
    BY DEF Sampling
  <2>2. KeptPart \in Nat /\ 1 <= KeptPart + 1 /\ KeptPart + 1 - 1 = KeptPart
        /\ \A i \in 1..KeptPart : 1 + i - 1 = i
    BY <1>1 DEF KeptPart, Max2
  <2>3. /\ SubSeq(context, 1, KeptPart) \in Seq(Nat)
        /\ Len(SubSeq(context, 1, KeptPart)) = KeptPart + 1 - 1
        /\ \A i \in 1..(KeptPart + 1 - 1) :
             SubSeq(context, 1, KeptPart)[i] = context[1 + i - 1]
    BY <1>1, <2>1, <2>2, Slice
  <2>4. /\ Text(KeptPart) \in Seq(Nat) /\ Len(Text(KeptPart)) = KeptPart
        /\ \A i \in 1..KeptPart : Text(KeptPart)[i] = i
    BY <2>2 DEF Text
  <2>5. /\ Len(SubSeq(context, 1, KeptPart)) = KeptPart
        /\ \A i \in 1..KeptPart : SubSeq(context, 1, KeptPart)[i] = Text(KeptPart)[i]
    BY <2>1, <2>2, <2>3, <2>4
  <2> QED BY <2>3, <2>4, <2>5, SeqEqual
<1> QED BY <1>2, <1>3, <1>4 DEF SamplesFromText, KeptPart

\* For every size of the context, batch, budget and prompt: the model never samples
\* from a context that lacks the newest token; until the first swap the context is
\* exactly the text, and a swap keeps its beginning (llama.cpp:285-363).
THEOREM SampledFromText == Spec => []SamplesFromText
BY InitIndexed, StepIndexed, InitText, StepText, InitSampling, StepSampling,
   SamplingIsFromText, PTL DEF Spec

===================================================================================
