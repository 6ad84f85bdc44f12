------------------------- MODULE SequenceCacheProofs -------------------------
(***************************************************************************)
(* Batching is transparent, for any number of sequences, prompts of any    *)
(* length, batches of any size and any checkpoint: padding, masking,       *)
(* decoding together and trimming leave each sequence the cache, the text  *)
(* and the verdict it would have alone.                                    *)
(***************************************************************************)
EXTENDS SequenceCache, SequenceLemmas

Tokens == [of : Nat, at : Nat]
Columns == [token : Tokens, pos : Nat]

\* The text generated so far, of a sequence whose prompt has p tokens.
Text(s, p, n) == [k \in 1..n |-> Token(s, p + k)]

-----------------------------------------------------------------------------
(* The columns of a history, of a padded row, and of a trimmed one. *)

LEMMA HistoryColumns ==
    ASSUME NEW s \in Nat, NEW n \in Nat
    PROVE  /\ History(s, n) \in Seq(Columns) /\ Len(History(s, n)) = n
           /\ \A k \in 1..n : History(s, n)[k] = Column(Token(s, k), k - 1)
           /\ ToSet(History(s, n)) = {Column(Token(s, k), k - 1) : k \in 1..n}
<1>1. \A k \in 1..n : Column(Token(s, k), k - 1) \in Columns
  BY DEF Column, Token, Columns, Tokens
<1>2. History(s, n) \in Seq(Columns)  BY <1>1, IsASeq DEF History
<1>3. DOMAIN History(s, n) = 1..n
      /\ \A k \in 1..n : History(s, n)[k] = Column(Token(s, k), k - 1)
  BY DEF History
<1>4. Len(History(s, n)) = n  BY <1>2, <1>3, LenProperties
<1>5. ToSet(History(s, n)) = {Column(Token(s, k), k - 1) : k \in 1..n}
  BY <1>3 DEF ToSet
<1>6. QED  BY <1>2, <1>3, <1>4, <1>5

\* Padding on the left moves the columns of a row by as many places.
LEMMA PaddedColumns ==
    ASSUME NEW s \in Nat, NEW n \in Nat, NEW M \in Nat, n <= M
    PROVE  /\ Padded(History(s, n), M) \in Seq(Columns)
           /\ Len(Padded(History(s, n), M)) = M
           /\ \A k \in M - n + 1..M :
                 Padded(History(s, n), M)[k] = Column(Token(s, k - (M - n)), k - (M - n) - 1)
<1> DEFINE zs == [k \in 1..M - n |-> Zeros]
           h == History(s, n)
<1>1. /\ h \in Seq(Columns) /\ Len(h) = n
      /\ \A k \in 1..n : h[k] = Column(Token(s, k), k - 1)
  BY HistoryColumns
<1>2. Zeros \in Columns  BY DEF Zeros, Column, NoToken, Token, Columns, Tokens
<1>3. zs \in Seq(Columns) /\ Len(zs) = M - n
  <2>1. M - n \in Nat  OBVIOUS
  <2>2. zs \in Seq(Columns)  BY <1>2, <2>1, IsASeq
  <2>3. QED  BY <2>1, <2>2, LenProperties
<1>4. Padded(h, M) = zs \o h  BY <1>1 DEF Padded
<1> HIDE DEF zs, h
<1>5. /\ zs \o h \in Seq(Columns) /\ Len(zs \o h) = M
      /\ \A k \in M - n + 1..M : (zs \o h)[k] = h[k - (M - n)]
  <2>1. /\ zs \o h \in Seq(Columns) /\ Len(zs \o h) = Len(zs) + Len(h)
        /\ \A k \in 1..Len(zs) + Len(h) :
              (zs \o h)[k] = IF k <= Len(zs) THEN zs[k] ELSE h[k - Len(zs)]
    BY <1>1, <1>3, ConcatProperties
  <2>2. Len(zs) = M - n /\ Len(zs) + Len(h) = M  BY <1>1, <1>3
  <2>3. \A k \in M - n + 1..M : k \in 1..M /\ ~(k <= M - n)  OBVIOUS
  <2>4. QED  BY <2>1, <2>2, <2>3
<1>6. \A k \in M - n + 1..M : k - (M - n) \in 1..n  OBVIOUS
<1>7. QED  BY <1>1, <1>4, <1>5, <1>6 DEF h

\* What trimming to a sequence's own length leaves of a padded row that has got
\* a column for the token fed.
LEMMA TrimmedColumns ==
    ASSUME NEW s \in Nat, NEW n \in Nat, NEW M \in Nat, n <= M
    PROVE  Trimmed(Append(Padded(History(s, n), M), Column(Token(s, n + 1), n)), n + 1)
              = History(s, n + 1)
<1> DEFINE p == Padded(History(s, n), M)
           c == Column(Token(s, n + 1), n)
           row == Append(p, c)
           t == SubSeq(row, M - n + 1, M + 1)
<1>1. /\ p \in Seq(Columns) /\ Len(p) = M
      /\ \A k \in M - n + 1..M : p[k] = Column(Token(s, k - (M - n)), k - (M - n) - 1)
  BY PaddedColumns
<1>2. c \in Columns  BY DEF Column, Token, Columns, Tokens
<1> HIDE DEF p
<1>3. /\ row \in Seq(Columns) /\ Len(row) = M + 1 /\ row[M + 1] = c
      /\ \A k \in 1..M : row[k] = p[k]
  BY <1>1, <1>2, AppendProperties
<1> HIDE DEF row
<1>4. \A k \in 1..n + 1 : row[M - n + k] = Column(Token(s, k), k - 1)
  <2> SUFFICES ASSUME NEW k \in 1..n + 1
               PROVE  row[M - n + k] = Column(Token(s, k), k - 1)
    OBVIOUS
  <2>1. CASE k = n + 1
    <3>1. M - n + k = M + 1 /\ k - 1 = n  BY <2>1
    <3>2. QED  BY <1>3, <2>1, <3>1
  <2>2. CASE k # n + 1
    <3> DEFINE j == M - n + k
    <3>1. j \in M - n + 1..M /\ j \in 1..M /\ j - (M - n) = k  BY <2>2
    <3> HIDE DEF j
    <3>2. row[j] = Column(Token(s, k), k - 1)  BY <1>1, <1>3, <3>1
    <3>3. QED  BY <3>2 DEF j
  <2>3. QED  BY <2>1, <2>2
<1>5. /\ t \in Seq(Columns) /\ Len(t) = n + 1
      /\ \A k \in 1..n + 1 : t[k] = row[M - n + k]
  <2>1. \A i \in M - n + 1..M + 1 : row[i] \in Columns
    BY <1>3, ElementOfSeq
  <2>2. M - n + 1 \in Int /\ M + 1 \in Int  OBVIOUS
  <2>3. /\ t \in Seq(Columns)
        /\ Len(t) = IF M - n + 1 <= M + 1 THEN M + 1 - (M - n + 1) + 1 ELSE 0
        /\ \A k \in 1..M + 1 - (M - n + 1) + 1 : t[k] = row[M - n + 1 + k - 1]
    BY <2>1, <2>2, SubSeqProperties
  <2>4. \A k \in 1..n + 1 : M - n + 1 + k - 1 = M - n + k  OBVIOUS
  <2>5. M + 1 - (M - n + 1) + 1 = n + 1  OBVIOUS
  <2>6. QED  BY <2>3, <2>4, <2>5
<1>6. Trimmed(row, n + 1) = t
  <2>1. Len(row) - (n + 1) + 1 = M - n + 1 /\ Len(row) = M + 1  BY <1>3
  <2>2. QED  BY <2>1 DEF Trimmed
<1> HIDE DEF t
<1>7. t = History(s, n + 1)
  <2>1. /\ History(s, n + 1) \in Seq(Columns) /\ Len(History(s, n + 1)) = n + 1
        /\ \A k \in 1..n + 1 : History(s, n + 1)[k] = Column(Token(s, k), k - 1)
    <3>1. n + 1 \in Nat  OBVIOUS
    <3>2. QED  BY <3>1, HistoryColumns
  <2>2. QED  BY <1>4, <1>5, <2>1, SeqEqual
<1>8. QED  BY <1>6, <1>7 DEF row, p

-----------------------------------------------------------------------------
(* The language model's continuation of a prompt, and of a padded row under *)
(* its mask.                                                                 *)

LEMMA ContinuesPrompt ==
    ASSUME NEW s \in Nat, NEW n \in Nat \ {0}
    PROVE  Continuation(History(s, n), 1..n - 1, Token(s, n), n - 1) = Token(s, n + 1)
<1>1. \A k \in 1..n - 1 : History(s, n)[k] = Column(Token(s, k), k - 1)
  <2>1. \A k \in 1..n : History(s, n)[k] = Column(Token(s, k), k - 1)
    BY HistoryColumns
  <2>2. \A k \in 1..n - 1 : k \in 1..n  OBVIOUS
  <2>3. QED  BY <2>1, <2>2
<1>2. ToSet(History(s, n - 1)) = {Column(Token(s, k), k - 1) : k \in 1..n - 1}
  BY HistoryColumns
<1>3. {History(s, n)[k] : k \in 1..n - 1} = ToSet(History(s, n - 1))  BY <1>1, <1>2
<1>4. Cardinality(1..n - 1) = n - 1  BY FS_Interval
<1>5. Token(s, n).of = s /\ Token(s, n).at = n  BY DEF Token
<1>6. QED  BY <1>3, <1>4, <1>5 DEF Continuation

LEMMA MaskedPlaces ==
    ASSUME NEW n \in Nat, NEW M \in Nat, n <= M
    PROVE  {k \in 1..M : MaskRow(n, M)[k] = 1} = M - n + 1..M
<1>1. \A k \in 1..M : MaskRow(n, M)[k] = IF k > M - n THEN 1 ELSE 0  BY DEF MaskRow
<1>2. \A k \in 1..M : MaskRow(n, M)[k] = 1 <=> k > M - n  BY <1>1
<1>3. QED  BY <1>2

LEMMA ContinuesPadded ==
    ASSUME NEW s \in Nat, NEW n \in Nat, NEW M \in Nat, n <= M
    PROVE  Continuation(Padded(History(s, n), M), M - n + 1..M, Token(s, n + 1), n)
              = Token(s, n + 2)
<1> DEFINE p == Padded(History(s, n), M)
<1>1. \A k \in M - n + 1..M : p[k] = Column(Token(s, k - (M - n)), k - (M - n) - 1)
  BY PaddedColumns
<1>2. ToSet(History(s, n)) = {Column(Token(s, k), k - 1) : k \in 1..n}
  BY HistoryColumns
<1> HIDE DEF p
<1>3. {p[k] : k \in M - n + 1..M} = {Column(Token(s, k), k - 1) : k \in 1..n}
  <2>1. \A k \in M - n + 1..M : k - (M - n) \in 1..n  OBVIOUS
  <2>2. \A j \in 1..n : j + (M - n) \in M - n + 1..M /\ j + (M - n) - (M - n) = j
    OBVIOUS
  <2>3. ASSUME NEW j \in 1..n
        PROVE  \E k \in M - n + 1..M : p[k] = Column(Token(s, j), j - 1)
    <3>1. p[j + (M - n)] = Column(Token(s, j), j - 1)  BY <1>1, <2>2
    <3>2. QED  BY <2>2, <3>1
  <2>4. QED  BY <1>1, <2>1, <2>3
<1>4. Cardinality(M - n + 1..M) = n
  <2>1. M - n + 1 \in Int /\ M \in Int  OBVIOUS
  <2>2. Cardinality(M - n + 1..M) = IF M - n + 1 > M THEN 0 ELSE M - (M - n + 1) + 1
    BY <2>1, FS_Interval
  <2>3. QED  BY <2>2
<1>5. /\ Token(s, n + 1).of = s /\ Token(s, n + 1).at = n + 1
      /\ Token(s, n + 1).at - 1 = n /\ Token(s, n + 1).at + 1 = n + 2
  BY DEF Token
<1>6. {p[k] : k \in M - n + 1..M}
         = ToSet(History(Token(s, n + 1).of, Token(s, n + 1).at - 1))
  BY <1>2, <1>3, <1>5
<1>7. Continuation(p, M - n + 1..M, Token(s, n + 1), n)
         = Token(Token(s, n + 1).of, Token(s, n + 1).at + 1)
  BY <1>4, <1>5, <1>6 DEF Continuation
<1>8. QED  BY <1>5, <1>7 DEF p

\* A text goes on by one token.
LEMMA TextGoesOn ==
    ASSUME NEW s \in Nat, NEW p \in Nat, NEW n \in Nat
    PROVE  /\ Text(s, p, n) \in Seq(Tokens) /\ Len(Text(s, p, n)) = n
           /\ Append(Text(s, p, n), Token(s, p + n + 1)) = Text(s, p, n + 1)
           /\ n # 0 => Last(Text(s, p, n)) = Token(s, p + n)
<1>1. ASSUME NEW m \in Nat
      PROVE  /\ Text(s, p, m) \in Seq(Tokens) /\ Len(Text(s, p, m)) = m
             /\ \A k \in 1..m : Text(s, p, m)[k] = Token(s, p + k)
  <2>1. \A k \in 1..m : Token(s, p + k) \in Tokens  BY DEF Token, Tokens
  <2>2. Text(s, p, m) \in Seq(Tokens)  BY <2>1, IsASeq DEF Text
  <2>3. DOMAIN Text(s, p, m) = 1..m  BY DEF Text
  <2>4. Len(Text(s, p, m)) = m  BY <2>2, <2>3, LenProperties
  <2>5. QED  BY <2>2, <2>4 DEF Text
<1> DEFINE a == Append(Text(s, p, n), Token(s, p + n + 1))
<1>2. Token(s, p + n + 1) \in Tokens  BY DEF Token, Tokens
<1>3. /\ a \in Seq(Tokens) /\ Len(a) = n + 1 /\ a[n + 1] = Token(s, p + n + 1)
      /\ \A k \in 1..n : a[k] = Text(s, p, n)[k]
  <2> DEFINE t == Text(s, p, n)
             c == Token(s, p + n + 1)
  <2>1. t \in Seq(Tokens) /\ Len(t) = n /\ c \in Tokens  BY <1>1, <1>2
  <2> HIDE DEF t, c
  <2>2. /\ Append(t, c) \in Seq(Tokens) /\ Len(Append(t, c)) = n + 1
        /\ Append(t, c)[n + 1] = c /\ \A k \in 1..n : Append(t, c)[k] = t[k]
    BY <2>1, AppendProperties
  <2>3. QED  BY <2>2 DEF t, c
<1> HIDE DEF a
<1>4. \A k \in 1..n + 1 : a[k] = Text(s, p, n + 1)[k]
  <2>1. \A k \in 1..n : a[k] = Token(s, p + k)  BY <1>1, <1>3
  <2>2. \A k \in 1..n + 1 : Text(s, p, n + 1)[k] = Token(s, p + k)  BY <1>1
  <2>3. p + (n + 1) = p + n + 1  OBVIOUS
  <2>4. QED  BY <1>3, <2>1, <2>2, <2>3
<1>5. a = Text(s, p, n + 1)
  <2>1. Text(s, p, n + 1) \in Seq(Tokens) /\ Len(Text(s, p, n + 1)) = n + 1  BY <1>1
  <2>2. QED  BY <1>3, <1>4, <2>1, SeqEqual
<1>6. n # 0 => Last(Text(s, p, n)) = Token(s, p + n)
  <2>1. n # 0 => n \in 1..n  OBVIOUS
  <2>2. Len(Text(s, p, n)) = n /\ \A k \in 1..n : Text(s, p, n)[k] = Token(s, p + k)
    BY <1>1
  <2>3. QED  BY <2>1, <2>2 DEF Last
<1>7. QED  BY <1>1, <1>5, <1>6 DEF a

-----------------------------------------------------------------------------
(* The inductive invariant: what the three facts to prove say of the state  *)
(* between two calls, and what the padded batch holds in the middle of one. *)

WellTyped ==
    /\ order \in Seq(Ids) /\ IsInjective(order)
    /\ prompt_len \in [Ids -> Nat \ {0}]
    /\ kv \in [Ids -> Seq(Columns)] /\ seq_len \in [Ids -> Nat]
    /\ generated \in [Ids -> Seq(Tokens)] /\ position \in [Ids -> Nat]
    /\ judged \in [Ids -> Tokens]
    /\ step \in {"idle", "built", "forwarded"}

\* A sequence of the batch is as if it were alone.
Alone(s) ==
    /\ Len(generated[s]) # 0
    /\ generated[s] = Text(s, prompt_len[s], Len(generated[s]))
    /\ seq_len[s] = prompt_len[s] + Len(generated[s]) - 1
    /\ position[s] = seq_len[s]
    /\ kv[s] = History(s, seq_len[s])

Unkept(s) ==
    /\ kv[s] = <<>> /\ seq_len[s] = 0 /\ generated[s] = <<>> /\ position[s] = 0
    /\ judged[s] = NoToken

EachAlone == \A s \in Ids : IF s \in ToSet(order) THEN Alone(s) ELSE Unkept(s)

\* The batch that build_batch has made of the sequences, and what the forward
\* pass made of it.
Row(s, M) == Padded(History(s, seq_len[s]), M)

Built(M) ==
    [rows |-> [i \in DOMAIN order |-> Row(order[i], M)],
     mask |-> [i \in DOMAIN order |-> MaskRow(seq_len[order[i]], M)],
     position_ids |-> [i \in DOMAIN order |-> seq_len[order[i]]],
     max_len |-> M,
     next |-> <<>>]

Forwarded(M) ==
    [Built(M) EXCEPT
        !.rows = [i \in DOMAIN order |->
                     Append(Row(order[i], M),
                            Column(Token(order[i], seq_len[order[i]] + 1), seq_len[order[i]]))],
        !.next = [i \in DOMAIN order |-> Token(order[i], seq_len[order[i]] + 2)]]

Fits(M) == M \in Nat /\ \A s \in ToSet(order) : seq_len[s] <= M

BatchIsTheirs ==
    /\ step = "built" => \E M : Fits(M) /\ batch = Built(M)
    /\ step = "forwarded" =>
          /\ \E M : Fits(M) /\ batch = Forwarded(M)
          /\ last = [i \in DOMAIN order |-> Token(order[i], seq_len[order[i]] + 1)]

CacheInv == WellTyped /\ EachAlone /\ BatchIsTheirs

\* The gate has not been passed before its checkpoint, and not without a verdict.
GatePlace == Max({Checkpoint, 2})

Judged ==
    \A s \in ToSet(order) :
        IF judged[s] = NoToken THEN Len(generated[s]) < GatePlace
        ELSE judged[s] = Token(s, prompt_len[s] + GatePlace - 1)

LEMMA GatePlaceIs ==
    /\ GatePlace \in Nat /\ GatePlace >= 2 /\ GatePlace >= Checkpoint
    /\ GatePlace = 2 \/ GatePlace = Checkpoint
<1>1. {Checkpoint, 2} \in SUBSET (0..Checkpoint + 2) /\ Checkpoint + 2 \in Nat
  BY CacheAssumption
<1>2. QED  BY <1>1, MaxOfNaturals, CacheAssumption DEF GatePlace

\* The sequences of the batch, by their rows.
LEMMA Rows ==
    ASSUME WellTyped
    PROVE  /\ Ids \subseteq Nat \ {0} /\ ToSet(order) \subseteq Ids
           /\ DOMAIN order = 1..Len(order) /\ Len(order) \in Nat
           /\ \A i \in DOMAIN order : order[i] \in ToSet(order)
           /\ \A s \in ToSet(order) : \E i \in DOMAIN order : order[i] = s
           /\ \A i, j \in DOMAIN order : order[i] = order[j] => i = j
<1>1. order \in Seq(Ids) /\ IsInjective(order)  BY DEF WellTyped
<1>2. DOMAIN order = 1..Len(order) /\ Len(order) \in Nat  BY <1>1, LenProperties
<1>3. \A i \in DOMAIN order : order[i] \in Ids  BY <1>1, <1>2, ElementOfSeq
<1>4. Ids \subseteq Nat \ {0}  BY CacheAssumption DEF Ids
<1>5. \A i, j \in DOMAIN order : order[i] = order[j] => i = j
  BY <1>1 DEF IsInjective
<1>6. QED  BY <1>2, <1>3, <1>4, <1>5 DEF ToSet

LEMMA InitCache == Init => CacheInv /\ Judged
<1> SUFFICES ASSUME Init PROVE CacheInv /\ Judged  OBVIOUS
<1>1. /\ <<>> \in Seq(Ids) /\ <<>> \in Seq(Columns) /\ <<>> \in Seq(Tokens)
      /\ NoToken \in Tokens
  BY EmptySeq DEF NoToken, Token, Tokens
<1>2. IsInjective(<<>>) /\ ToSet(<<>>) = {}  BY DEF IsInjective, ToSet
<1>3. prompt_len \in [Ids -> Nat \ {0}]  BY CacheAssumption DEF Init
<1>4. WellTyped  BY <1>1, <1>2, <1>3 DEF Init, WellTyped
<1>5. EachAlone  BY <1>2 DEF Init, EachAlone, Unkept
<1>6. BatchIsTheirs /\ Judged  BY <1>2 DEF Init, BatchIsTheirs, Judged
<1>7. QED  BY <1>4, <1>5, <1>6 DEF CacheInv

-----------------------------------------------------------------------------
(* One lemma for each call. *)

LEMMA PrefillKeeps ==
    ASSUME CacheInv, NEW s \in Ids, Prefill(s)
    PROVE  CacheInv' /\ (Judged => Judged')
<1> DEFINE n == prompt_len[s]
           t == Token(s, n + 1)
<1>1. WellTyped /\ EachAlone  BY DEF CacheInv
<1>2. Ids \subseteq Nat \ {0} /\ ToSet(order) \subseteq Ids  BY <1>1, Rows
<1>3. n \in Nat \ {0} /\ s \in Nat /\ s \notin ToSet(order)
  BY <1>1, <1>2 DEF WellTyped, Prefill
<1>4. Unkept(s)  BY <1>1, <1>3 DEF EachAlone
<1>5. /\ Text(s, n, 0) \in Seq(Tokens) /\ Len(Text(s, n, 0)) = 0
      /\ Append(Text(s, n, 0), Token(s, n + 0 + 1)) = Text(s, n, 0 + 1)
  BY <1>3, TextGoesOn
<1>6. Text(s, n, 0) = <<>>  BY <1>5, EmptySeq
<1>7. Append(<<>>, t) = Text(s, n, 1)
  <2>1. n + 0 + 1 = n + 1 /\ 0 + 1 = 1  BY <1>3
  <2>2. QED  BY <1>5, <1>6, <2>1
<1>8. Text(s, n, 1) \in Seq(Tokens) /\ Len(Text(s, n, 1)) = 1  BY <1>3, TextGoesOn
<1>9. Continuation(History(s, n), 1..n - 1, Token(s, n), n - 1) = t
  BY <1>3, ContinuesPrompt
<1>10. /\ generated' = [generated EXCEPT ![s] = Text(s, n, 1)]
       /\ kv' = [kv EXCEPT ![s] = History(s, n)]
       /\ seq_len' = [seq_len EXCEPT ![s] = n]
       /\ position' = [position EXCEPT ![s] = n]
       /\ order' = Append(order, s)
       /\ UNCHANGED <<prompt_len, judged, step>> /\ step = "idle"
  BY <1>4, <1>7, <1>9 DEF Prefill, Unkept
<1>11. /\ order' \in Seq(Ids) /\ IsInjective(order')
       /\ ToSet(order') = ToSet(order) \cup {s}
  BY <1>1, <1>3, <1>10, AppendElements, AppendProperties DEF WellTyped
<1>12. History(s, n) \in Seq(Columns)  BY <1>3, HistoryColumns
<1>13. WellTyped'
  <2> HIDE DEF n
  <2>1. /\ kv' \in [Ids -> Seq(Columns)] /\ seq_len' \in [Ids -> Nat]
        /\ generated' \in [Ids -> Seq(Tokens)] /\ position' \in [Ids -> Nat]
    BY <1>1, <1>3, <1>8, <1>10, <1>12 DEF WellTyped
  <2>2. QED  BY <1>1, <1>10, <1>11, <2>1 DEF WellTyped
<1>14. ASSUME NEW q \in Ids
       PROVE  IF q \in ToSet(order') THEN Alone(q)' ELSE Unkept(q)'
  <2>1. CASE q = s
    <3>1. /\ generated'[s] = Text(s, n, 1) /\ kv'[s] = History(s, n)
          /\ seq_len'[s] = n /\ position'[s] = n /\ prompt_len'[s] = n
      BY <1>1, <1>10 DEF WellTyped
    <3>2. Len(generated'[s]) = 1 /\ n = n + 1 - 1  BY <1>3, <1>8, <3>1
    <3>3. Alone(s)'
      <4>1. generated'[s] = Text(s, prompt_len'[s], Len(generated'[s]))  BY <3>1, <3>2
      <4>2. seq_len'[s] = prompt_len'[s] + Len(generated'[s]) - 1  BY <3>1, <3>2
      <4>3. position'[s] = seq_len'[s] /\ kv'[s] = History(s, seq_len'[s])
        BY <3>1, Zenon
      <4>4. Len(generated'[s]) # 0  BY <3>2
      <4>5. QED  BY <4>1, <4>2, <4>3, <4>4 DEF Alone
    <3>4. QED  BY <1>11, <2>1, <3>3
  <2>2. CASE q # s
    <3>1. /\ generated'[q] = generated[q] /\ kv'[q] = kv[q] /\ seq_len'[q] = seq_len[q]
          /\ position'[q] = position[q] /\ prompt_len'[q] = prompt_len[q]
          /\ judged'[q] = judged[q]
      BY <1>1, <1>10, <2>2 DEF WellTyped
    <3>2. QED  BY <1>1, <1>11, <2>2, <3>1 DEF EachAlone, Alone, Unkept
  <2>3. QED  BY <2>1, <2>2
<1>15. EachAlone'  BY <1>14 DEF EachAlone
<1>16. BatchIsTheirs'  BY <1>10 DEF BatchIsTheirs
<1>17. ASSUME Judged, NEW q \in ToSet(order')
       PROVE  IF judged'[q] = NoToken THEN Len(generated'[q]) < GatePlace
              ELSE judged'[q] = Token(q, prompt_len'[q] + GatePlace - 1)
  <2>1. CASE q = s
    <3>1. judged'[s] = NoToken /\ Len(generated'[s]) = 1
      BY <1>1, <1>4, <1>8, <1>10 DEF WellTyped, Unkept
    <3>2. QED  BY <2>1, <3>1, GatePlaceIs
  <2>2. CASE q # s
    <3>1. q \in ToSet(order) /\ q \in Ids  BY <1>2, <1>11, <2>2
    <3>2. generated'[q] = generated[q] /\ judged' = judged /\ prompt_len' = prompt_len
      BY <1>1, <1>10, <2>2, <3>1 DEF WellTyped
    <3>3. QED  BY <1>17, <3>1, <3>2 DEF Judged
  <2>3. QED  BY <2>1, <2>2
<1>18. GatePlace' = GatePlace /\ NoToken' = NoToken  BY DEF GatePlace, NoToken, Token
<1>19. Judged => Judged'  BY <1>17, <1>18 DEF Judged
<1>20. QED  BY <1>13, <1>15, <1>16, <1>19 DEF CacheInv

LEMMA EvictKeeps ==
    ASSUME CacheInv, NEW s \in Ids, Evict(s)
    PROVE  CacheInv' /\ (Judged => Judged')
<1>1. WellTyped /\ EachAlone  BY DEF CacheInv
<1>2. PICK i \in DOMAIN order : order[i] = s /\ order' = RemoveAt(order, i)
  BY DEF Evict
<1>3. /\ order' \in Seq(Ids) /\ IsInjective(order')
      /\ ToSet(order') = ToSet(order) \ {s}
  BY <1>1, <1>2, RemoveAtElements, RemoveAtProperties DEF WellTyped
<1>4. /\ kv' = [kv EXCEPT ![s] = <<>>] /\ seq_len' = [seq_len EXCEPT ![s] = 0]
      /\ generated' = [generated EXCEPT ![s] = <<>>]
      /\ position' = [position EXCEPT ![s] = 0] /\ judged' = [judged EXCEPT ![s] = NoToken]
      /\ UNCHANGED <<prompt_len, step>> /\ step = "idle"
  BY DEF Evict, EvictFrom
<1>5. WellTyped'
  <2>1. <<>> \in Seq(Columns) /\ <<>> \in Seq(Tokens) /\ NoToken \in Tokens
    BY EmptySeq DEF NoToken, Token, Tokens
  <2>2. QED  BY <1>1, <1>3, <1>4, <2>1 DEF WellTyped
<1>6. ASSUME NEW q \in Ids
      PROVE  IF q \in ToSet(order') THEN Alone(q)' ELSE Unkept(q)'
  <2>1. CASE q = s
    <3>1. Unkept(s)'  BY <1>1, <1>4 DEF WellTyped, Unkept, NoToken, Token
    <3>2. QED  BY <1>3, <2>1, <3>1
  <2>2. CASE q # s
    <3>1. /\ generated'[q] = generated[q] /\ kv'[q] = kv[q] /\ seq_len'[q] = seq_len[q]
          /\ position'[q] = position[q] /\ prompt_len'[q] = prompt_len[q]
          /\ judged'[q] = judged[q]
      BY <1>1, <1>4, <2>2 DEF WellTyped
    <3>2. QED  BY <1>1, <1>3, <2>2, <3>1 DEF EachAlone, Alone, Unkept
  <2>3. QED  BY <2>1, <2>2
<1>7. EachAlone'  BY <1>6 DEF EachAlone
<1>8. BatchIsTheirs'  BY <1>4 DEF BatchIsTheirs
<1>9. ASSUME Judged, NEW q \in ToSet(order')
      PROVE  IF judged'[q] = NoToken THEN Len(generated'[q]) < GatePlace
             ELSE judged'[q] = Token(q, prompt_len'[q] + GatePlace - 1)
  <2>1. q \in ToSet(order) /\ q # s /\ q \in Ids  BY <1>1, <1>3, Rows
  <2>2. /\ generated'[q] = generated[q] /\ judged'[q] = judged[q]
        /\ prompt_len' = prompt_len
    BY <1>1, <1>4, <2>1 DEF WellTyped
  <2>3. QED  BY <1>9, <2>1, <2>2 DEF Judged
<1>10. GatePlace' = GatePlace /\ NoToken' = NoToken  BY DEF GatePlace, NoToken, Token
<1>11. Judged => Judged'  BY <1>9, <1>10 DEF Judged
<1>12. QED  BY <1>5, <1>7, <1>8, <1>11 DEF CacheInv

\* The longest of the sequences is the longest: there are finitely many.
LEMMA LongestFits ==
    ASSUME WellTyped, order # <<>>
    PROVE  Fits(Max({seq_len[s] : s \in ToSet(order)}))
<1> DEFINE lengths == {seq_len[s] : s \in ToSet(order)}
           at == [i \in 1..Len(order) |-> seq_len[order[i]]]
<1>1. /\ ToSet(order) \subseteq Ids /\ DOMAIN order = 1..Len(order) /\ Len(order) \in Nat
      /\ \A i \in DOMAIN order : order[i] \in ToSet(order)
      /\ \A s \in ToSet(order) : \E i \in DOMAIN order : order[i] = s
  BY Rows
<1>2. lengths \in SUBSET Nat  BY <1>1 DEF WellTyped
<1>3. lengths # {}
  <2>1. Len(order) # 0  BY EmptySeq DEF WellTyped
  <2>2. order[1] \in ToSet(order)  BY <1>1, <2>1
  <2>3. QED  BY <2>2
<1>4. IsFiniteSet(lengths)
  <2>1. at \in Surjection(1..Len(order), lengths)  BY <1>1 DEF Surjection
  <2>2. IsFiniteSet(1..Len(order))  BY <1>1, FS_Interval
  <2> HIDE DEF at, lengths
  <2>3. QED  BY <2>1, <2>2, FS_Surjection
<1>5. Max(lengths) \in lengths /\ \A y \in lengths : Max(lengths) >= y
  <2> HIDE DEF lengths
  <2>1. QED  BY <1>2, <1>3, <1>4, MaxOfFinite
<1>6. ASSUME NEW s \in ToSet(order)
      PROVE  seq_len[s] <= Max(lengths)
  <2>1. seq_len[s] \in lengths  OBVIOUS
  <2> HIDE DEF lengths
  <2>2. Max(lengths) \in Nat /\ seq_len[s] \in Nat /\ Max(lengths) >= seq_len[s]
    BY <1>2, <1>5, <2>1
  <2>3. QED  BY <2>2
<1>7. Max(lengths) \in Nat  BY <1>2, <1>5
<1> HIDE DEF lengths
<1>8. Fits(Max(lengths))  BY <1>6, <1>7 DEF Fits
<1>9. QED  BY <1>8 DEF lengths

LEMMA BuildBatchKeeps ==
    ASSUME CacheInv, BuildBatch
    PROVE  CacheInv' /\ (Judged => Judged')
<1> DEFINE M == Max({seq_len[s] : s \in ToSet(order)})
<1>1. WellTyped /\ EachAlone  BY DEF CacheInv
<1>2. /\ ToSet(order) \subseteq Ids /\ \A i \in DOMAIN order : order[i] \in ToSet(order)
  BY <1>1, Rows
<1>3. Fits(M)  BY <1>1, LongestFits DEF BuildBatch
<1>4. \A i \in DOMAIN order : kv[order[i]] = History(order[i], seq_len[order[i]])
  BY <1>1, <1>2 DEF EachAlone, Alone
<1>5. batch' = Built(M)
  <2>1. batch' = [rows |-> [i \in DOMAIN order |-> Padded(kv[order[i]], M)],
                  mask |-> [i \in DOMAIN order |-> MaskRow(seq_len[order[i]], M)],
                  position_ids |-> [i \in DOMAIN order |-> seq_len[order[i]]],
                  max_len |-> M,
                  next |-> <<>>]
    BY DEF BuildBatch, PositionId
  <2> HIDE DEF M
  <2>2. [i \in DOMAIN order |-> Padded(kv[order[i]], M)] = [i \in DOMAIN order |-> Row(order[i], M)]
    BY <1>4 DEF Row
  <2>3. QED  BY <2>1, <2>2 DEF Built
<1> HIDE DEF M
<1>6. /\ UNCHANGED <<kv, seq_len, prompt_len, generated, position, judged, order>>
      /\ step' = "built"
  BY DEF BuildBatch
<1>7. WellTyped'  BY <1>1, <1>6 DEF WellTyped
<1>8. EachAlone'  BY <1>1, <1>6 DEF EachAlone, Alone, Unkept, NoToken, Token
<1>9. BatchIsTheirs'
  BY <1>3, <1>5, <1>6 DEF BatchIsTheirs, Fits, Built, Row
<1>10. Judged => Judged'  BY <1>6 DEF Judged, GatePlace, NoToken, Token
<1>11. QED  BY <1>7, <1>8, <1>9, <1>10 DEF CacheInv

\* Each row is fed the last token of its own text, at its own length.
LEMMA FedIsOwn ==
    ASSUME CacheInv, NEW i \in DOMAIN order
    PROVE  Fed(i) = Token(order[i], seq_len[order[i]] + 1)
<1> DEFINE s == order[i]
           n == Len(generated[s])
<1>1. WellTyped /\ EachAlone  BY DEF CacheInv
<1>2. s \in ToSet(order) /\ s \in Ids /\ s \in Nat  BY <1>1, Rows
<1>3. Alone(s)  BY <1>1, <1>2 DEF EachAlone
<1>4. prompt_len[s] \in Nat /\ n \in Nat
  BY <1>1, <1>2, LenProperties DEF WellTyped
<1>5. n # 0 /\ generated[s] = Text(s, prompt_len[s], n)  BY <1>3 DEF Alone
<1>6. Last(generated[s]) = Token(s, prompt_len[s] + n)
  <2> HIDE DEF n
  <2>1. Last(Text(s, prompt_len[s], n)) = Token(s, prompt_len[s] + n)
    BY <1>2, <1>4, <1>5, TextGoesOn
  <2>2. QED  BY <1>5, <2>1
<1>7. prompt_len[s] + n = seq_len[s] + 1  BY <1>3, <1>4 DEF Alone
<1>8. QED  BY <1>6, <1>7 DEF Fed

LEMMA ForwardKeeps ==
    ASSUME CacheInv, Forward
    PROVE  CacheInv' /\ (Judged => Judged')
<1>1. WellTyped /\ EachAlone /\ BatchIsTheirs  BY DEF CacheInv
<1>2. PICK M : Fits(M) /\ batch = Built(M)  BY <1>1 DEF Forward, BatchIsTheirs
<1>3. /\ batch.rows = [i \in DOMAIN order |-> Row(order[i], M)]
      /\ batch.mask = [i \in DOMAIN order |-> MaskRow(seq_len[order[i]], M)]
      /\ batch.position_ids = [i \in DOMAIN order |-> seq_len[order[i]]]
      /\ batch.max_len = M
  BY <1>2 DEF Built
<1>4. ASSUME NEW i \in DOMAIN order
      PROVE  /\ Append(batch.rows[i], Column(Fed(i), batch.position_ids[i]))
                    = Append(Row(order[i], M), Column(Token(order[i], seq_len[order[i]] + 1),
                                                      seq_len[order[i]]))
             /\ Continuation(batch.rows[i], Attended(i), Fed(i), batch.position_ids[i])
                    = Token(order[i], seq_len[order[i]] + 2)
             /\ Fed(i) = Token(order[i], seq_len[order[i]] + 1)
  <2> DEFINE s == order[i]
             n == seq_len[s]
  <2>1. s \in ToSet(order) /\ s \in Ids /\ s \in Nat  BY <1>1, Rows
  <2>2. n \in Nat /\ M \in Nat /\ n <= M  BY <1>1, <1>2, <2>1 DEF WellTyped, Fits
  <2>3. Fed(i) = Token(s, n + 1)  BY FedIsOwn
  <2>4. Attended(i) = M - n + 1..M
    <3>1. Attended(i) = {k \in 1..M : MaskRow(n, M)[k] = 1}  BY <1>3 DEF Attended
    <3>2. QED  BY <2>2, <3>1, MaskedPlaces
  <2>5. batch.rows[i] = Padded(History(s, n), M) /\ batch.position_ids[i] = n
    BY <1>3 DEF Row
  <2>6. Continuation(Padded(History(s, n), M), M - n + 1..M, Token(s, n + 1), n)
           = Token(s, n + 2)
    BY <2>1, <2>2, ContinuesPadded
  <2>7. QED  BY <2>3, <2>4, <2>5, <2>6 DEF Row
<1>5. /\ batch' = [batch EXCEPT
            !.rows = [i \in DOMAIN order |->
                         Append(batch.rows[i], Column(Fed(i), batch.position_ids[i]))],
            !.next = [i \in DOMAIN order |->
                         Continuation(batch.rows[i], Attended(i), Fed(i),
                                      batch.position_ids[i])]]
      /\ last' = [i \in DOMAIN order |-> Fed(i)]
      /\ UNCHANGED <<kv, seq_len, prompt_len, generated, position, judged, order>>
      /\ step' = "forwarded"
  BY DEF Forward
<1>6. /\ [i \in DOMAIN order |-> Append(batch.rows[i], Column(Fed(i), batch.position_ids[i]))]
             = [i \in DOMAIN order |->
                   Append(Row(order[i], M), Column(Token(order[i], seq_len[order[i]] + 1),
                                                   seq_len[order[i]]))]
      /\ [i \in DOMAIN order |->
             Continuation(batch.rows[i], Attended(i), Fed(i), batch.position_ids[i])]
             = [i \in DOMAIN order |-> Token(order[i], seq_len[order[i]] + 2)]
      /\ [i \in DOMAIN order |-> Fed(i)]
             = [i \in DOMAIN order |-> Token(order[i], seq_len[order[i]] + 1)]
  BY <1>4
<1>7. batch' = Forwarded(M)  BY <1>2, <1>5, <1>6 DEF Forwarded
<1>8. last' = [i \in DOMAIN order |-> Token(order[i], seq_len[order[i]] + 1)]
  BY <1>5, <1>6
<1>9. WellTyped'  BY <1>1, <1>5 DEF WellTyped
<1>10. EachAlone'  BY <1>1, <1>5 DEF EachAlone, Alone, Unkept, NoToken, Token
<1>11. BatchIsTheirs'
  <2>1. Fits(M)' /\ Forwarded(M)' = Forwarded(M)
    BY <1>2, <1>5 DEF Fits, Forwarded, Built, Row
  <2>2. QED  BY <1>5, <1>7, <1>8, <2>1 DEF BatchIsTheirs
<1>12. Judged => Judged'  BY <1>5 DEF Judged, GatePlace, NoToken, Token
<1>13. QED  BY <1>9, <1>10, <1>11, <1>12 DEF CacheInv

\* The step that ends a decode gives each sequence of the batch its own column
\* and its own next token, and a gate its own hidden state.
LEMMA ScatterMeans ==
    ASSUME CacheInv, NEW gated \in BOOLEAN, ScatterFor(gated)
    PROVE  /\ step' = "idle" /\ UNCHANGED <<prompt_len, order>>
           /\ DOMAIN kv' = Ids /\ DOMAIN seq_len' = Ids /\ DOMAIN generated' = Ids
           /\ DOMAIN position' = Ids /\ DOMAIN judged' = Ids
           /\ kv' = [s \in Ids |-> kv'[s]] /\ seq_len' = [s \in Ids |-> seq_len'[s]]
           /\ generated' = [s \in Ids |-> generated'[s]]
           /\ position' = [s \in Ids |-> position'[s]] /\ judged' = [s \in Ids |-> judged'[s]]
           /\ \A s \in ToSet(order) :
                 /\ kv'[s] = History(s, seq_len[s] + 1)
                 /\ seq_len'[s] = seq_len[s] + 1 /\ position'[s] = position[s] + 1
                 /\ generated'[s] = Text(s, prompt_len[s], Len(generated[s]) + 1)
                 /\ judged'[s] =
                       IF gated /\ judged[s] = NoToken /\ Len(generated[s]) + 1 >= Checkpoint
                       THEN Token(s, seq_len[s] + 1) ELSE judged[s]
           /\ \A s \in Ids \ ToSet(order) :
                 /\ kv'[s] = kv[s] /\ seq_len'[s] = seq_len[s] /\ position'[s] = position[s]
                 /\ generated'[s] = generated[s] /\ judged'[s] = judged[s]
<1>1. WellTyped /\ EachAlone /\ BatchIsTheirs  BY DEF CacheInv
<1>2. PICK M : Fits(M) /\ batch = Forwarded(M)  BY <1>1 DEF ScatterFor, BatchIsTheirs
<1>3. /\ batch.rows = [i \in DOMAIN order |->
            Append(Row(order[i], M),
                   Column(Token(order[i], seq_len[order[i]] + 1), seq_len[order[i]]))]
      /\ batch.next = [i \in DOMAIN order |-> Token(order[i], seq_len[order[i]] + 2)]
      /\ last = [i \in DOMAIN order |-> Token(order[i], seq_len[order[i]] + 1)]
  BY <1>1, <1>2 DEF Forwarded, Built, BatchIsTheirs, ScatterFor
<1> DEFINE row(s) == CHOOSE i \in DOMAIN order : order[i] = s
           kept == ToSet(order)
           meets(s) == gated /\ judged[s] = NoToken /\ Len(generated[s]) + 1 >= Checkpoint
<1>4. /\ kv' = [s \in Ids |-> IF s \in kept THEN Trimmed(batch.rows[row(s)], seq_len[s] + 1)
                               ELSE kv[s]]
      /\ seq_len' = [s \in Ids |-> IF s \in kept THEN seq_len[s] + 1 ELSE seq_len[s]]
      /\ generated' = [s \in Ids |-> IF s \in kept THEN Append(generated[s], batch.next[row(s)])
                                      ELSE generated[s]]
      /\ position' = [s \in Ids |-> IF s \in kept THEN position[s] + 1 ELSE position[s]]
      /\ judged' = [s \in Ids |-> IF s \in kept
                                   THEN IF meets(s) THEN HiddenOf(row(s)) ELSE judged[s]
                                   ELSE judged[s]]
      /\ step' = "idle" /\ UNCHANGED <<prompt_len, order>>
  BY DEF ScatterFor
<1>5. ASSUME NEW s \in kept
      PROVE  /\ Trimmed(batch.rows[row(s)], seq_len[s] + 1) = History(s, seq_len[s] + 1)
             /\ Append(generated[s], batch.next[row(s)])
                    = Text(s, prompt_len[s], Len(generated[s]) + 1)
             /\ HiddenOf(row(s)) = Token(s, seq_len[s] + 1)
             /\ s \in Ids
  <2> DEFINE i == row(s)
             n == seq_len[s]
             m == Len(generated[s])
             p == prompt_len[s]
  <2>1. i \in DOMAIN order /\ order[i] = s  BY <1>1, Rows
  <2>2. s \in Ids /\ s \in Nat  BY <1>1, Rows
  <2> HIDE DEF row, kept
  <2>3. n \in Nat /\ M \in Nat /\ n <= M /\ p \in Nat /\ m \in Nat
    BY <1>1, <1>2, <2>2, LenProperties DEF WellTyped, Fits, kept
  <2>4. Alone(s)  BY <1>1, <2>2 DEF EachAlone, kept
  <2>5. n = p + m - 1 /\ generated[s] = Text(s, p, m)  BY <2>4 DEF Alone
  <2>6. /\ batch.rows[i] = Append(Padded(History(s, n), M), Column(Token(s, n + 1), n))
        /\ batch.next[i] = Token(s, n + 2) /\ last[i] = Token(s, n + 1)
    BY <1>3, <2>1 DEF Row
  <2>7. Trimmed(batch.rows[i], n + 1) = History(s, n + 1)
    BY <2>2, <2>3, <2>6, TrimmedColumns
  <2>8. Append(generated[s], batch.next[i]) = Text(s, p, m + 1)
    <3> HIDE DEF n, m, p, i
    <3>1. Append(Text(s, p, m), Token(s, p + m + 1)) = Text(s, p, m + 1)
      BY <2>2, <2>3, TextGoesOn
    <3>2. n + 2 = p + m + 1  BY <2>3, <2>5
    <3>3. QED  BY <2>5, <2>6, <3>1, <3>2
  <2>9. QED  BY <2>2, <2>6, <2>7, <2>8 DEF HiddenOf
<1> HIDE DEF row
<1>6. kept \subseteq Ids  BY <1>5
<1>7. \A s \in kept :
         /\ kv'[s] = History(s, seq_len[s] + 1)
         /\ seq_len'[s] = seq_len[s] + 1 /\ position'[s] = position[s] + 1
         /\ generated'[s] = Text(s, prompt_len[s], Len(generated[s]) + 1)
         /\ judged'[s] = IF meets(s) THEN Token(s, seq_len[s] + 1) ELSE judged[s]
  <2> HIDE DEF kept, meets
  <2>1. QED  BY <1>4, <1>5, <1>6
<1>8. \A s \in Ids \ kept :
         /\ kv'[s] = kv[s] /\ seq_len'[s] = seq_len[s] /\ position'[s] = position[s]
         /\ generated'[s] = generated[s] /\ judged'[s] = judged[s]
  <2> HIDE DEF kept, meets
  <2>1. QED  BY <1>4
<1>9. /\ DOMAIN kv' = Ids /\ DOMAIN seq_len' = Ids /\ DOMAIN generated' = Ids
      /\ DOMAIN position' = Ids /\ DOMAIN judged' = Ids
      /\ kv' = [s \in Ids |-> kv'[s]] /\ seq_len' = [s \in Ids |-> seq_len'[s]]
      /\ generated' = [s \in Ids |-> generated'[s]]
      /\ position' = [s \in Ids |-> position'[s]] /\ judged' = [s \in Ids |-> judged'[s]]
  <2> HIDE DEF kept, meets
  <2>1. QED  BY <1>4
<1>10. QED  BY <1>4, <1>7, <1>8, <1>9

LEMMA ScatterKeeps ==
    ASSUME CacheInv, NEW gated \in BOOLEAN, ScatterFor(gated)
    PROVE  CacheInv'
<1>1. WellTyped /\ EachAlone  BY DEF CacheInv
<1>2. step' = "idle" /\ UNCHANGED <<prompt_len, order>>  BY ScatterMeans
<1>3. ToSet(order) \subseteq Ids /\ Ids \subseteq Nat  BY <1>1, Rows
<1>4. ASSUME NEW s \in ToSet(order)
      PROVE  /\ Alone(s)'
             /\ kv'[s] \in Seq(Columns) /\ seq_len'[s] \in Nat /\ position'[s] \in Nat
             /\ generated'[s] \in Seq(Tokens) /\ judged'[s] \in Tokens
  <2> DEFINE n == seq_len[s]
             m == Len(generated[s])
             p == prompt_len[s]
  <2>1. s \in Nat /\ s \in Ids  BY <1>3
  <2>2. Alone(s)  BY <1>1, <2>1 DEF EachAlone
  <2>3. n \in Nat /\ p \in Nat /\ m \in Nat  BY <1>1, <2>1, LenProperties DEF WellTyped
  <2>4. n = p + m - 1 /\ position[s] = n  BY <2>2 DEF Alone
  <2>5. /\ kv'[s] = History(s, n + 1) /\ seq_len'[s] = n + 1 /\ position'[s] = position[s] + 1
        /\ generated'[s] = Text(s, p, m + 1)
        /\ judged'[s] \in {Token(s, n + 1), judged[s]}
    BY ScatterMeans
  <2> HIDE DEF n, m, p
  <2>6. n + 1 \in Nat /\ m + 1 \in Nat  BY <2>3
  <2>7. Text(s, p, m + 1) \in Seq(Tokens) /\ Len(Text(s, p, m + 1)) = m + 1
    BY <2>1, <2>3, <2>6, TextGoesOn
  <2>8. History(s, n + 1) \in Seq(Columns)  BY <2>1, <2>6, HistoryColumns
  <2>9. judged'[s] \in Tokens
    BY <1>1, <2>1, <2>5, <2>6 DEF WellTyped, Token, Tokens
  <2>10. Alone(s)'
    <3>1. prompt_len'[s] = p  BY <1>2 DEF p
    <3>2. Len(generated'[s]) = m + 1  BY <2>5, <2>7
    <3>3. Len(generated'[s]) # 0  BY <2>3, <3>2
    <3>4. generated'[s] = Text(s, prompt_len'[s], Len(generated'[s]))
      BY <2>5, <3>1, <3>2
    <3>5. seq_len'[s] = prompt_len'[s] + Len(generated'[s]) - 1
      BY <2>3, <2>4, <2>5, <3>1, <3>2
    <3>6. position'[s] = seq_len'[s]  BY <2>4, <2>5
    <3>7. kv'[s] = History(s, seq_len'[s])  BY <2>5
    <3>8. QED  BY <3>3, <3>4, <3>5, <3>6, <3>7 DEF Alone
  <2>11. QED  BY <2>4, <2>5, <2>6, <2>7, <2>8, <2>9, <2>10
<1>5. ASSUME NEW s \in Ids \ ToSet(order)
      PROVE  /\ Unkept(s)'
             /\ kv'[s] \in Seq(Columns) /\ seq_len'[s] \in Nat /\ position'[s] \in Nat
             /\ generated'[s] \in Seq(Tokens) /\ judged'[s] \in Tokens
  <2>1. Unkept(s)  BY <1>1 DEF EachAlone
  <2>2. /\ kv'[s] = kv[s] /\ seq_len'[s] = seq_len[s] /\ position'[s] = position[s]
        /\ generated'[s] = generated[s] /\ judged'[s] = judged[s]
    BY ScatterMeans
  <2>3. QED  BY <1>1, <2>1, <2>2 DEF WellTyped, Unkept, NoToken, Token
<1>6. WellTyped'
  <2>1. \A s \in Ids :
           /\ kv'[s] \in Seq(Columns) /\ seq_len'[s] \in Nat /\ position'[s] \in Nat
           /\ generated'[s] \in Seq(Tokens) /\ judged'[s] \in Tokens
    BY <1>4, <1>5
  <2>2. /\ kv' = [s \in Ids |-> kv'[s]] /\ seq_len' = [s \in Ids |-> seq_len'[s]]
        /\ generated' = [s \in Ids |-> generated'[s]]
        /\ position' = [s \in Ids |-> position'[s]] /\ judged' = [s \in Ids |-> judged'[s]]
    BY ScatterMeans
  <2>3. /\ kv' \in [Ids -> Seq(Columns)] /\ seq_len' \in [Ids -> Nat]
        /\ generated' \in [Ids -> Seq(Tokens)] /\ position' \in [Ids -> Nat]
        /\ judged' \in [Ids -> Tokens]
    BY <2>1, <2>2
  <2>4. QED  BY <1>1, <1>2, <2>3 DEF WellTyped
<1>7. EachAlone'  BY <1>2, <1>4, <1>5 DEF EachAlone
<1>8. BatchIsTheirs'  BY <1>2 DEF BatchIsTheirs
<1>9. QED  BY <1>6, <1>7, <1>8 DEF CacheInv

\* With a gate, a verdict is given where the gate is passed, about the token fed.
LEMMA ScatterJudges ==
    ASSUME CacheInv, Judged, Scatter
    PROVE  Judged'
<1>1. WellTyped /\ EachAlone  BY DEF CacheInv
<1>2. ScatterFor(TRUE) /\ TRUE \in BOOLEAN  BY DEF Scatter
<1>3. UNCHANGED <<prompt_len, order>>  BY <1>2, ScatterMeans
<1>4. ToSet(order) \subseteq Ids /\ Ids \subseteq Nat \ {0}  BY <1>1, Rows
<1>5. ASSUME NEW s \in ToSet(order)
      PROVE  IF judged'[s] = NoToken THEN Len(generated'[s]) < GatePlace
             ELSE judged'[s] = Token(s, prompt_len[s] + GatePlace - 1)
  <2> DEFINE n == seq_len[s]
             m == Len(generated[s])
             p == prompt_len[s]
  <2>1. s \in Nat \ {0} /\ s \in Ids  BY <1>4
  <2>2. Alone(s)  BY <1>1, <2>1 DEF EachAlone
  <2>3. n \in Nat /\ p \in Nat /\ m \in Nat  BY <1>1, <2>1, LenProperties DEF WellTyped
  <2>4. n = p + m - 1 /\ m # 0  BY <2>2 DEF Alone
  <2>5. /\ generated'[s] = Text(s, p, m + 1)
        /\ judged'[s] = IF judged[s] = NoToken /\ m + 1 >= Checkpoint
                        THEN Token(s, n + 1) ELSE judged[s]
    BY <1>2, ScatterMeans
  <2>6. IF judged[s] = NoToken THEN m < GatePlace
        ELSE judged[s] = Token(s, p + GatePlace - 1)
    BY DEF Judged
  <2> HIDE DEF n, m, p
  <2>7. Len(generated'[s]) = m + 1
    <3>1. m + 1 \in Nat  BY <2>3
    <3>2. Len(Text(s, p, m + 1)) = m + 1  BY <2>1, <2>3, <3>1, TextGoesOn
    <3>3. QED  BY <2>5, <3>2
  <2>8. \A k : Token(s, k) # NoToken  BY <2>1 DEF Token, NoToken
  <2>9. CASE judged[s] # NoToken  BY <2>5, <2>6, <2>9 DEF p
  <2>10. CASE judged[s] = NoToken /\ m + 1 >= Checkpoint
    <3>1. m + 1 = GatePlace  BY <2>3, <2>4, <2>6, <2>10, GatePlaceIs, CacheAssumption
    <3>2. n + 1 = p + GatePlace - 1  BY <2>3, <2>4, <3>1
    <3>3. QED  BY <2>5, <2>8, <2>10, <3>2 DEF p
  <2>11. CASE judged[s] = NoToken /\ ~(m + 1 >= Checkpoint)
    <3>1. m + 1 < GatePlace  BY <2>3, <2>11, GatePlaceIs, CacheAssumption
    <3>2. QED  BY <2>5, <2>7, <2>11, <3>1
  <2>12. QED  BY <2>9, <2>10, <2>11
<1>6. GatePlace' = GatePlace /\ NoToken' = NoToken  BY DEF GatePlace, NoToken, Token
<1>7. QED  BY <1>3, <1>5, <1>6 DEF Judged

-----------------------------------------------------------------------------
\* The decode step's three parts and the two ways in and out of the batch keep
\* the invariant.
LEMMA RestKeeps ==
    ASSUME CacheInv, UNCHANGED vars
    PROVE  CacheInv' /\ (Judged => Judged')
<1>1. UNCHANGED <<kv, seq_len, prompt_len, generated, position, judged, order, step, batch, last>>
  BY DEF vars
<1>2. WellTyped'  BY <1>1 DEF CacheInv, WellTyped
<1>3. EachAlone'  BY <1>1 DEF CacheInv, EachAlone, Alone, Unkept, NoToken, Token
<1>4. BatchIsTheirs'
  <2>1. ASSUME NEW M
        PROVE  /\ Fits(M) => Fits(M)' /\ Built(M)' = Built(M)
               /\ Forwarded(M)' = Forwarded(M)
    BY <1>1 DEF Fits, Built, Forwarded, Row
  <2>2. step = "built" => \E M : Fits(M)' /\ batch' = Built(M)'
    BY <1>1, <2>1 DEF CacheInv, BatchIsTheirs
  <2>3. step = "forwarded" => \E M : Fits(M)' /\ batch' = Forwarded(M)'
    BY <1>1, <2>1 DEF CacheInv, BatchIsTheirs
  <2>4. step = "forwarded" =>
           last' = [i \in DOMAIN order' |-> Token(order'[i], seq_len'[order'[i]] + 1)]
    BY <1>1 DEF CacheInv, BatchIsTheirs
  <2>5. QED  BY <1>1, <2>2, <2>3, <2>4 DEF BatchIsTheirs
<1>5. Judged => Judged'  BY <1>1 DEF Judged, GatePlace, NoToken, Token
<1>6. QED  BY <1>2, <1>3, <1>4, <1>5 DEF CacheInv

LEMMA NextCache == CacheInv /\ Judged /\ [Next]_vars => CacheInv' /\ Judged'
<1> SUFFICES ASSUME CacheInv, Judged, [Next]_vars PROVE CacheInv' /\ Judged'  OBVIOUS
<1>1. ASSUME NEW s \in Ids, Prefill(s) PROVE CacheInv' /\ Judged'  BY <1>1, PrefillKeeps
<1>2. ASSUME NEW s \in Ids, Evict(s) PROVE CacheInv' /\ Judged'  BY <1>2, EvictKeeps
<1>3. CASE BuildBatch  BY <1>3, BuildBatchKeeps
<1>4. CASE Forward  BY <1>4, ForwardKeeps
<1>5. CASE Scatter
  <2>1. ScatterFor(TRUE) /\ TRUE \in BOOLEAN  BY <1>5 DEF Scatter
  <2>2. CacheInv'  BY <2>1, ScatterKeeps
  <2>3. QED  BY <1>5, <2>2, ScatterJudges
<1>6. CASE UNCHANGED vars  BY <1>6, RestKeeps
<1>7. QED  BY <1>1, <1>2, <1>3, <1>4, <1>5, <1>6 DEF Next

\* What a cache holds, between two calls and in the middle of a decode step, is
\* of the sequences in it alone: the invariant the three theorems below rest on.
THEOREM CacheSafe == Spec => [](CacheInv /\ Judged)
<1>1. QED  BY InitCache, NextCache, PTL DEF Spec

LEMMA CacheMeans ==
    /\ CacheInv => CacheIsOwnHistory /\ GeneratesAsIfAlone
    /\ CacheInv /\ Judged => VerdictOnOwnToken
<1>1. CacheInv => CacheIsOwnHistory
  BY DEF CacheInv, EachAlone, Alone, Unkept, CacheIsOwnHistory
<1>2. CacheInv => GeneratesAsIfAlone
  <2> SUFFICES ASSUME CacheInv, NEW s \in Ids
               PROVE  generated[s] = Text(s, prompt_len[s], Len(generated[s]))
    BY DEF GeneratesAsIfAlone, Text
  <2>1. CASE s \in ToSet(order)  BY <2>1 DEF CacheInv, EachAlone, Alone
  <2>2. CASE s \notin ToSet(order)
    <3>1. generated[s] = <<>> /\ Len(<<>>) = 0
      BY <2>2, EmptySeq DEF CacheInv, EachAlone, Unkept
    <3>2. prompt_len[s] \in Nat /\ s \in Nat
      BY CacheAssumption DEF CacheInv, WellTyped, Ids
    <3>3. Text(s, prompt_len[s], 0) \in Seq(Tokens) /\ Len(Text(s, prompt_len[s], 0)) = 0
      BY <3>2, TextGoesOn
    <3>4. QED  BY <3>1, <3>3, EmptySeq
  <2>3. QED  BY <2>1, <2>2
<1>3. CacheInv /\ Judged => VerdictOnOwnToken
  BY DEF CacheInv, EachAlone, Unkept, Judged, VerdictOnOwnToken, GatePlace
<1>4. QED  BY <1>1, <1>2, <1>3

\* After every call the cache, the length and the position kept of a sequence
\* are those of decoding it alone, whatever neighbours it was padded with, and
\* nothing is kept of a sequence outside the batch.
THEOREM OwnHistory == Spec => []CacheIsOwnHistory
BY CacheMeans, CacheSafe, PTL

\* What is generated for a sequence is the continuation of its own prompt.
THEOREM AsIfAlone == Spec => []GeneratesAsIfAlone
BY CacheMeans, CacheSafe, PTL

\* A verdict is about the token its own sequence was fed when it met the gate.
THEOREM VerdictIsOwn == Spec => []VerdictOnOwnToken
BY CacheMeans, CacheSafe, PTL
=============================================================================
