---------------------------- MODULE PipelineProofs ----------------------------
(***************************************************************************)
(* TLAPS proofs about the way from the sockets into the registry, for any  *)
(* number of threads, sources, packets and any interleaving.               *)
(***************************************************************************)
EXTENDS Pipeline, StatsProofs, FiniteSetTheorems, SequenceTheorems, TLAPS

(* Kept, the subsequence of the elements in S.                             *)
KeptUpTo(m, f, seq, S) ==
    [n \in 0..m |->
        IF n = 0 THEN <<>>
        ELSE IF seq[n] \in S THEN Append(f[n - 1], seq[n])
        ELSE f[n - 1]]

LEMMA KeptExists ==
    ASSUME NEW seq, NEW S, NEW L \in Nat
    PROVE  \E f : f = KeptUpTo(L, f, seq, S)
<1> DEFINE Bad == {m \in 0..L : ~ \E f : f = KeptUpTo(m, f, seq, S)}
<1>1. SUFFICES ASSUME Bad # {} PROVE FALSE
  OBVIOUS
<1>2. PICK m \in Bad : m = 0 \/ (m - 1 \in Nat /\ m - 1 \notin Bad)
  <2>1. Bad \in SUBSET Nat
    OBVIOUS
  <2> HIDE DEF Bad
  <2> QED BY <1>1, <2>1, FirstOfRun
<1>3. m \in 0..L /\ ~ \E f : f = KeptUpTo(m, f, seq, S)
  BY <1>2
<1>4. CASE m = 0
  <2> DEFINE g == [n \in 0..0 |-> <<>>]
  <2>1. g = KeptUpTo(0, g, seq, S)
    BY DEF KeptUpTo
  <2> QED BY <1>3, <1>4, <2>1
<1>5. CASE m # 0
  <2>1. m - 1 \in 0..L /\ m \in Nat
    BY <1>2, <1>3, <1>5
  <2>2. PICK g : g = KeptUpTo(m - 1, g, seq, S)
    BY <1>2, <1>5, <2>1
  <2> DEFINE last == IF seq[m] \in S THEN Append(g[m - 1], seq[m]) ELSE g[m - 1]
             h == [n \in 0..m |-> IF n = m THEN last ELSE g[n]]
  <2>3. ASSUME NEW n \in 0..m
        PROVE  h[n] = IF n = 0 THEN <<>>
                      ELSE IF seq[n] \in S THEN Append(h[n - 1], seq[n])
                      ELSE h[n - 1]
    <3>1. CASE n = m
      <4>1. n - 1 \in 0..m /\ n - 1 # m
        BY <1>5, <2>1, <3>1
      <4>2. h[n - 1] = g[n - 1]
        BY <4>1
      <4> QED BY <1>5, <3>1, <4>2
    <3>2. CASE n # m
      <4>1. n \in 0..m - 1
        BY <2>1, <3>2
      <4>2. g[n] = IF n = 0 THEN <<>>
                   ELSE IF seq[n] \in S THEN Append(g[n - 1], seq[n])
                   ELSE g[n - 1]
        BY <2>2, <4>1 DEF KeptUpTo
      <4>3. n # 0 => n - 1 \in 0..m /\ n - 1 # m
        BY <2>1, <4>1
      <4>4. n # 0 => h[n - 1] = g[n - 1]
        BY <4>3
      <4> QED BY <3>2, <4>2, <4>4
    <3> QED BY <3>1, <3>2
  <2>4. h = KeptUpTo(m, h, seq, S)
    BY <2>3 DEF KeptUpTo
  <2> QED BY <1>3, <2>4
<1> QED BY <1>4, <1>5

(* The run that Kept takes its result from.                                *)
KeptRun(seq, S) == CHOOSE f : f = KeptUpTo(Len(seq), f, seq, S)

LEMMA KeptRunFacts ==
    ASSUME NEW X, NEW seq \in Seq(X), NEW S
    PROVE  /\ Kept(seq, S) = KeptRun(seq, S)[Len(seq)]
           /\ KeptRun(seq, S)[0] = <<>>
           /\ \A n \in 1..Len(seq) :
                 KeptRun(seq, S)[n] = IF seq[n] \in S
                                      THEN Append(KeptRun(seq, S)[n - 1], seq[n])
                                      ELSE KeptRun(seq, S)[n - 1]
<1> DEFINE L == Len(seq)
           f == KeptRun(seq, S)
<1>1. L \in Nat
  OBVIOUS
<1>2. Kept(seq, S) = f[L]
  BY DEF Kept, KeptRun, KeptUpTo
<1> HIDE DEF L
<1>3. \E g : g = KeptUpTo(L, g, seq, S)
  BY <1>1, KeptExists
<1>4. f = KeptUpTo(L, f, seq, S)
  BY <1>3 DEF KeptRun, L
<1> HIDE DEF f
<1>5. f[0] = <<>>
  <2>1. 0 \in 0..L
    BY <1>1
  <2> QED BY <1>4, <2>1 DEF KeptUpTo
<1>6. ASSUME NEW n \in 1..L
      PROVE  f[n] = IF seq[n] \in S THEN Append(f[n - 1], seq[n]) ELSE f[n - 1]
  <2>1. n \in 0..L /\ n # 0
    BY <1>1
  <2> QED BY <1>4, <2>1 DEF KeptUpTo
<1> QED BY <1>2, <1>5, <1>6 DEF f, L

(* What is kept comes from seq and is in S.                                *)
LEMMA KeptType ==
    ASSUME NEW X, NEW seq \in Seq(X), NEW S
    PROVE  /\ Kept(seq, S) \in Seq(X)
           /\ \A i \in DOMAIN Kept(seq, S) :
                 /\ Kept(seq, S)[i] \in S
                 /\ \E j \in DOMAIN seq : Kept(seq, S)[i] = seq[j]
<1> DEFINE L == Len(seq)
           f == KeptRun(seq, S)
           Good(n) == /\ f[n] \in Seq(X)
                      /\ \A i \in DOMAIN f[n] :
                            f[n][i] \in S /\ \E j \in DOMAIN seq : f[n][i] = seq[j]
           Bad == {n \in 0..L : ~Good(n)}
<1>1. /\ L \in Nat /\ DOMAIN seq = 1..L /\ \A n \in 1..L : seq[n] \in X
  OBVIOUS
<1>2. /\ Kept(seq, S) = f[L] /\ f[0] = <<>>
      /\ \A n \in 1..L : f[n] = IF seq[n] \in S THEN Append(f[n - 1], seq[n])
                                ELSE f[n - 1]
  BY KeptRunFacts
<1> HIDE DEF L, f
<1>3. ASSUME Bad # {} PROVE FALSE
  <2>1. Bad \in SUBSET Nat
    BY <1>1
  <2>2. PICK n \in Bad : n = 0 \/ (n - 1 \in Nat /\ n - 1 \notin Bad)
    <3> HIDE DEF Bad
    <3> QED BY <1>3, <2>1, FirstOfRun
  <2>3. n \in 0..L /\ ~Good(n)
    BY <2>2
  <2>4. CASE n = 0
    <3>1. f[n] = <<>>
      BY <1>2, <2>4
    <3>2. f[n] \in Seq(X) /\ DOMAIN f[n] = {}
      BY <3>1
    <3> QED BY <2>3, <3>2
  <2>5. CASE n # 0
    <3>1. n \in 1..L /\ n - 1 \in 0..L
      BY <1>1, <2>3, <2>5
    <3>2. Good(n - 1)
      BY <2>2, <2>5, <3>1
    <3>3. f[n] = IF seq[n] \in S THEN Append(f[n - 1], seq[n]) ELSE f[n - 1]
      BY <1>2, <3>1
    <3>4. seq[n] \in X /\ n \in DOMAIN seq
      BY <1>1, <3>1
    <3>5. CASE seq[n] \in S
      <4> DEFINE old == f[n - 1]
                 new == Append(old, seq[n])
      <4>1. old \in Seq(X)
        BY <3>2
      <4>2. f[n] = new
        BY <3>3, <3>5
      <4>3. ASSUME NEW i \in DOMAIN new
            PROVE  new[i] = seq[n] \/ (i \in DOMAIN old /\ new[i] = old[i])
        BY <4>1, <3>4
      <4>4. Append(old, seq[n]) \in Seq(X)
        BY <4>1, <3>4
      <4>5. \A i \in DOMAIN new :
               new[i] \in S /\ \E j \in DOMAIN seq : new[i] = seq[j]
        BY <3>2, <3>4, <3>5, <4>3
      <4> QED BY <2>3, <4>2, <4>4, <4>5
    <3>6. CASE seq[n] \notin S
      BY <2>3, <3>2, <3>3, <3>6
    <3> QED BY <3>5, <3>6
  <2> QED BY <2>4, <2>5
<1>4. Good(L)
  BY <1>1, <1>3
<1> QED BY <1>2, <1>4

(* Runs over sequences that agree so far agree.                            *)
LEMMA KeptRunsAgree ==
    ASSUME NEW X, NEW s \in Seq(X), NEW t \in Seq(X), NEW S,
           Len(s) <= Len(t), \A i \in 1..Len(s) : s[i] = t[i]
    PROVE  \A n \in 0..Len(s) : KeptRun(t, S)[n] = KeptRun(s, S)[n]
<1> DEFINE f == KeptRun(s, S)
           g == KeptRun(t, S)
           Bad == {n \in 0..Len(s) : g[n] # f[n]}
<1>1. /\ Len(s) \in Nat /\ f[0] = <<>> /\ g[0] = <<>>
      /\ \A n \in 1..Len(s) : f[n] = IF s[n] \in S THEN Append(f[n - 1], s[n])
                                     ELSE f[n - 1]
  BY KeptRunFacts
<1>2. \A n \in 1..Len(t) : g[n] = IF t[n] \in S THEN Append(g[n - 1], t[n])
                                  ELSE g[n - 1]
  BY KeptRunFacts
<1> HIDE DEF f, g
<1>3. ASSUME Bad # {} PROVE FALSE
  <2>1. Bad \in SUBSET Nat
    OBVIOUS
  <2>2. PICK n \in Bad : n = 0 \/ (n - 1 \in Nat /\ n - 1 \notin Bad)
    <3> HIDE DEF Bad
    <3> QED BY <1>3, <2>1, FirstOfRun
  <2>3. n \in 0..Len(s) /\ g[n] # f[n] /\ n # 0
    BY <1>1, <2>2
  <2>4. n \in 1..Len(s) /\ n \in 1..Len(t) /\ n - 1 \in 0..Len(s)
    BY <2>3
  <2>5. g[n - 1] = f[n - 1]
    BY <2>2, <2>3, <2>4
  <2> QED BY <1>1, <1>2, <2>3, <2>4, <2>5
<1> QED BY <1>3 DEF f, g

LEMMA KeptOfAppend ==
    ASSUME NEW X, NEW s \in Seq(X), NEW x \in X, NEW S
    PROVE  Kept(Append(s, x), S) = IF x \in S THEN Append(Kept(s, S), x)
                                   ELSE Kept(s, S)
<1> DEFINE t == Append(s, x)
           L == Len(s)
           g == KeptRun(t, S)
<1>1. /\ t \in Seq(X) /\ L \in Nat /\ Len(t) = L + 1 /\ t[L + 1] = x
      /\ \A i \in 1..L : s[i] = t[i]
  OBVIOUS
<1> HIDE DEF t
<1>2. g[L] = KeptRun(s, S)[L]
  <2>1. L \in 0..L
    BY <1>1
  <2> QED BY <1>1, <2>1, KeptRunsAgree
<1>3. Kept(s, S) = KeptRun(s, S)[L]
  BY KeptRunFacts
<1>4. Kept(t, S) = g[L + 1]
  BY <1>1, KeptRunFacts
<1>5. g[L + 1] = IF x \in S THEN Append(g[L], x) ELSE g[L]
  <2>1. L + 1 \in 1..Len(t) /\ (L + 1) - 1 = L
    BY <1>1
  <2>2. \A n \in 1..Len(t) : g[n] = IF t[n] \in S THEN Append(g[n - 1], t[n])
                                    ELSE g[n - 1]
    BY <1>1, KeptRunFacts
  <2> HIDE DEF g
  <2> QED BY <1>1, <2>1, <2>2
<1> QED BY <1>2, <1>3, <1>4, <1>5 DEF t

LEMMA KeptOfEmpty == \A S : Kept(<<>>, S) = <<>>
<1> SUFFICES ASSUME NEW S PROVE Kept(<<>>, S) = <<>>
  OBVIOUS
<1>1. <<>> \in Seq({}) /\ Len(<<>>) = 0
  OBVIOUS
<1>2. Kept(<<>>, S) = KeptRun(<<>>, S)[Len(<<>>)] /\ KeptRun(<<>>, S)[0] = <<>>
  BY <1>1, KeptRunFacts
<1> QED BY <1>1, <1>2

LEMMA AppendToConcat ==
    ASSUME NEW X, NEW s \in Seq(X), NEW v \in Seq(X), NEW x \in X
    PROVE  s \o Append(v, x) = Append(s \o v, x) /\ s \o v \in Seq(X)
  OBVIOUS

LEMMA KeptOfConcat ==
    ASSUME NEW X, NEW s \in Seq(X), NEW t \in Seq(X), NEW S
    PROVE  Kept(s \o t, S) = Kept(s, S) \o Kept(t, S)
<1> DEFINE u(n) == SubSeq(t, 1, n)
           Good(n) == Kept(s \o u(n), S) = Kept(s, S) \o Kept(u(n), S)
           Bad == {n \in 0..Len(t) : ~Good(n)}
<1>1. Kept(s, S) \in Seq(X)
  BY KeptType
<1>2. ASSUME Bad # {} PROVE FALSE
  <2>1. Bad \in SUBSET Nat
    OBVIOUS
  <2>2. PICK n \in Bad : n = 0 \/ (n - 1 \in Nat /\ n - 1 \notin Bad)
    <3> HIDE DEF Bad
    <3> QED BY <1>2, <2>1, FirstOfRun
  <2>3. n \in 0..Len(t) /\ ~Good(n)
    BY <2>2
  <2>4. CASE n = 0
    <3>1. u(n) = <<>> /\ s \o <<>> = s /\ Kept(s, S) \o <<>> = Kept(s, S)
      BY <1>1, <2>4
    <3>2. Kept(<<>>, S) = <<>>
      BY KeptOfEmpty
    <3> HIDE DEF u
    <3> QED BY <2>3, <3>1, <3>2
  <2>5. CASE n # 0
    <3> DEFINE v == u(n - 1)
               x == t[n]
    <3>1. n - 1 \in 0..Len(t) /\ n \in 1..Len(t)
      BY <2>3, <2>5
    <3>2. Good(n - 1)
      BY <2>2, <2>5, <3>1
    <3>3. v \in Seq(X) /\ x \in X /\ u(n) = Append(v, x)
      BY <3>1
    <3> HIDE DEF u, x
    <3>4. s \o Append(v, x) = Append(s \o v, x) /\ s \o v \in Seq(X)
      <4> HIDE DEF v
      <4> QED BY <3>3, AppendToConcat
    <3>5. /\ Kept(Append(v, x), S) = IF x \in S THEN Append(Kept(v, S), x)
                                     ELSE Kept(v, S)
          /\ Kept(Append(s \o v, x), S) = IF x \in S
                                          THEN Append(Kept(s \o v, S), x)
                                          ELSE Kept(s \o v, S)
      <4> HIDE DEF v
      <4>1. \A w \in Seq(X) : Kept(Append(w, x), S) = IF x \in S
                                                     THEN Append(Kept(w, S), x)
                                                     ELSE Kept(w, S)
        BY <3>3, KeptOfAppend
      <4> QED BY <3>3, <3>4, <4>1
    <3>6. Kept(v, S) \in Seq(X)
      BY <3>3, KeptType
    <3>7. Kept(s, S) \o Append(Kept(v, S), x) = Append(Kept(s, S) \o Kept(v, S), x)
      <4> HIDE DEF v
      <4> QED BY <1>1, <3>3, <3>6, AppendToConcat
    <3> QED BY <2>3, <3>2, <3>3, <3>4, <3>5, <3>7
  <2> QED BY <2>4, <2>5
<1>3. Good(Len(t))
  BY <1>2
<1>4. u(Len(t)) = t
  OBVIOUS
<1> HIDE DEF u
<1> QED BY <1>3, <1>4

LEMMA KeptNone ==
    ASSUME NEW X, NEW seq \in Seq(X), NEW S, \A j \in DOMAIN seq : seq[j] \notin S
    PROVE  Kept(seq, S) = <<>>
<1> DEFINE k == Kept(seq, S)
<1>1. k \in Seq(X) /\ \A i \in DOMAIN k : FALSE
  BY KeptType
<1> HIDE DEF k
<1>2. Len(k) = 0
  <2>1. DOMAIN k = 1..Len(k) /\ Len(k) \in Nat
    BY <1>1
  <2> QED BY <1>1, <2>1
<1>3. k = <<>>
  BY <1>1, <1>2
<1> QED BY <1>3 DEF k

LEMMA KeptOfSingle ==
    ASSUME NEW X, NEW x \in X, NEW S
    PROVE  Kept(<<x>>, S) = IF x \in S THEN <<x>> ELSE <<>>
<1>1. <<>> \in Seq(X) /\ <<x>> = Append(<<>>, x) /\ Append(<<>>, x) = <<x>>
  OBVIOUS
<1>2. Kept(Append(<<>>, x), S) = IF x \in S THEN Append(Kept(<<>>, S), x)
                                 ELSE Kept(<<>>, S)
  BY <1>1, KeptOfAppend
<1> QED BY <1>1, <1>2, KeptOfEmpty

LEMMA KeptOne ==
    ASSUME NEW X, NEW seq \in Seq(X), NEW S, NEW i \in DOMAIN seq, seq[i] \in S,
           \A j \in DOMAIN seq : j # i => seq[j] \notin S
    PROVE  Kept(seq, S) = <<seq[i]>>
<1> DEFINE L == Len(seq)
           f == KeptRun(seq, S)
           Good(n) == f[n] = IF n < i THEN <<>> ELSE <<seq[i]>>
           Bad == {n \in 0..L : ~Good(n)}
<1>1. L \in Nat /\ DOMAIN seq = 1..L /\ i \in 1..L /\ seq[i] \in X
  OBVIOUS
<1>2. /\ Kept(seq, S) = f[L] /\ f[0] = <<>>
      /\ \A n \in 1..L : f[n] = IF seq[n] \in S THEN Append(f[n - 1], seq[n])
                                ELSE f[n - 1]
  BY KeptRunFacts
<1> HIDE DEF L, f
<1>3. ASSUME Bad # {} PROVE FALSE
  <2>1. Bad \in SUBSET Nat
    BY <1>1
  <2>2. PICK n \in Bad : n = 0 \/ (n - 1 \in Nat /\ n - 1 \notin Bad)
    <3> HIDE DEF Bad
    <3> QED BY <1>3, <2>1, FirstOfRun
  <2>3. n \in 0..L /\ ~Good(n)
    BY <2>2
  <2>4. n # 0
    BY <1>1, <1>2, <2>3
  <2>5. n \in 1..L /\ n - 1 \in 0..L
    BY <1>1, <2>3, <2>4
  <2>6. Good(n - 1)
    BY <2>2, <2>4, <2>5
  <2>7. f[n] = IF seq[n] \in S THEN Append(f[n - 1], seq[n]) ELSE f[n - 1]
    BY <1>2, <2>5
  <2>8. CASE n = i
    <3>1. f[n - 1] = <<>> /\ f[n] = Append(<<>>, seq[i])
      BY <1>1, <2>5, <2>6, <2>7, <2>8
    <3>2. Append(<<>>, seq[i]) = <<seq[i]>>
      OBVIOUS
    <3> QED BY <1>1, <2>3, <2>8, <3>1, <3>2
  <2>9. CASE n # i
    <3>1. f[n] = f[n - 1]
      BY <1>1, <2>5, <2>7, <2>9
    <3>2. n < i <=> n - 1 < i
      BY <1>1, <2>5, <2>9
    <3> QED BY <2>3, <2>6, <3>1, <3>2
  <2> QED BY <2>8, <2>9
<1>4. Good(L)
  BY <1>1, <1>3
<1> QED BY <1>1, <1>2, <1>4

(* No element is kept twice that is there once.                            *)
LEMMA KeptIsInjective ==
    ASSUME NEW X, NEW seq \in Seq(X), NEW S, IsInjective(seq)
    PROVE  IsInjective(Kept(seq, S))
<1> DEFINE L == Len(seq)
           f == KeptRun(seq, S)
           Good(n) == /\ f[n] \in Seq(X) /\ IsInjective(f[n])
                      /\ \A i \in DOMAIN f[n] : \E j \in 1..n : f[n][i] = seq[j]
           Bad == {n \in 0..L : ~Good(n)}
<1>1. /\ L \in Nat /\ DOMAIN seq = 1..L /\ \A n \in 1..L : seq[n] \in X
  OBVIOUS
<1>2. /\ Kept(seq, S) = f[L] /\ f[0] = <<>>
      /\ \A n \in 1..L : f[n] = IF seq[n] \in S THEN Append(f[n - 1], seq[n])
                                ELSE f[n - 1]
  BY KeptRunFacts
<1>a. \A i, j \in 1..L : seq[i] = seq[j] => i = j
  BY <1>1 DEF IsInjective
<1> HIDE DEF L, f
<1>3. ASSUME Bad # {} PROVE FALSE
  <2>1. Bad \in SUBSET Nat
    BY <1>1
  <2>2. PICK n \in Bad : n = 0 \/ (n - 1 \in Nat /\ n - 1 \notin Bad)
    <3> HIDE DEF Bad
    <3> QED BY <1>3, <2>1, FirstOfRun
  <2>3. n \in 0..L /\ ~Good(n)
    BY <2>2
  <2>4. CASE n = 0
    <3>1. f[n] = <<>>
      BY <1>2, <2>4
    <3>2. f[n] \in Seq(X) /\ DOMAIN f[n] = {}
      BY <3>1
    <3> QED BY <2>3, <3>2 DEF IsInjective
  <2>5. CASE n # 0
    <3> DEFINE old == f[n - 1]
               new == Append(old, seq[n])
    <3>1. n \in 1..L /\ n - 1 \in 0..L /\ n - 1 \in Nat
      BY <1>1, <2>3, <2>5
    <3>2. Good(n - 1)
      BY <2>2, <2>5, <3>1
    <3>3. f[n] = IF seq[n] \in S THEN new ELSE old
      BY <1>2, <3>1
    <3>4. old \in Seq(X) /\ seq[n] \in X
      BY <1>1, <3>1, <3>2
    <3>5. \A i \in DOMAIN old : \E j \in 1..n : old[i] = seq[j] /\ j # n
      BY <3>1, <3>2, SMTT(30)
    <3>6. \A i \in DOMAIN old : old[i] # seq[n]
      BY <1>a, <1>1, <3>1, <3>5
    <3>7. /\ new \in Seq(X) /\ DOMAIN new = DOMAIN old \cup {Len(new)}
          /\ new[Len(new)] = seq[n] /\ Len(new) \notin DOMAIN old
          /\ \A i \in DOMAIN old : new[i] = old[i]
      BY <3>4
    <3>8. \A i, j \in DOMAIN old : old[i] = old[j] => i = j
      BY <3>2 DEF IsInjective
    <3> HIDE DEF new, old
    <3>9. IsInjective(new) /\ IsInjective(old)
      BY <3>6, <3>7, <3>8 DEF IsInjective
    <3>10. \A i \in DOMAIN new : \E j \in 1..n : new[i] = seq[j]
      <4>1. n \in 1..n
        BY <3>1
      <4> QED BY <3>5, <3>7, <4>1
    <3>11. \A i \in DOMAIN old : \E j \in 1..n : old[i] = seq[j]
      BY <3>5
    <3> QED BY <2>3, <3>3, <3>4, <3>7, <3>9, <3>10, <3>11, ZenonT(30)
  <2> QED BY <2>4, <2>5
<1>4. Good(L)
  BY <1>1, <1>3
<1> QED BY <1>2, <1>4
-----------------------------------------------------------------------------
(* The types of the state, the contents of a thread's outbox included: a   *)
(* listener holds shreds of its own routes, a stream slots and samples.    *)
ShredMessage(l) ==
    [to : {"shred"},
     event : [source : ToSet(Routes[l]), key : Network, received_at : Time]]

StreamMessage ==
    [to : {"slot"}, event : SlotEvent] \cup [to : {"grpc"}, event : GrpcLatencyEvent]

ThreadsTyped ==
    /\ now \in Time
    /\ pc \in [Thread -> {"check", "recv", "wait", "send", "stopped"}]
    /\ late \in [Thread -> Nat]
    /\ stamped \in [ShredSource -> Seq(ShredKey \X Time)]

OutboxTyped ==
    /\ DOMAIN outbox = Thread
    /\ \A l \in Listener : outbox[l] \in Seq(ShredMessage(l))
    /\ \A s \in Stream : outbox[s] \in Seq(StreamMessage)
    /\ \A t \in Thread : pc[t] = "send" <=> outbox[t] # <<>>

ChannelsTyped ==
    /\ DOMAIN chan = Channel
    /\ chan["shred"] \in Seq(ShredEvent)
    /\ chan["slot"] \in Seq(SlotEvent)
    /\ chan["grpc"] \in Seq(GrpcLatencyEvent)

PipeTypeOK == ThreadsTyped /\ OutboxTyped /\ ChannelsTyped

LEMMA RouteFacts ==
    ASSUME NEW l \in Listener
    PROVE  /\ Routes[l] \in Seq(ShredSource) /\ ToSet(Routes[l]) \subseteq ShredSource
           /\ IsInjective(Routes[l]) /\ l \in Thread /\ l \notin Stream
<1>1. Routes[l] \in Seq(ShredSource) /\ IsInjective(Routes[l])
  BY PipelineAssumption
<1>2. ToSet(Routes[l]) \subseteq ShredSource
  BY <1>1 DEF ToSet
<1> QED BY <1>1, <1>2, PipelineAssumption DEF Thread

(* The sources a packet is sent to, and the messages made for them.        *)
LEMMA MatchedSources ==
    ASSUME NEW l \in Listener, NEW matched
    PROVE  LET sources == Kept(Routes[l], matched)
           IN  /\ sources \in Seq(ShredSource)
               /\ Range(sources) \subseteq ToSet(Routes[l]) \cap matched
               /\ IsInjective(sources)
<1> DEFINE sources == Kept(Routes[l], matched)
<1>1. Routes[l] \in Seq(ShredSource) /\ IsInjective(Routes[l])
  BY RouteFacts
<1>2. /\ sources \in Seq(ShredSource)
      /\ \A i \in DOMAIN sources : /\ sources[i] \in matched
                                   /\ \E j \in DOMAIN Routes[l] : sources[i] = Routes[l][j]
  BY <1>1, KeptType
<1>3. IsInjective(sources)
  BY <1>1, KeptIsInjective
<1> HIDE DEF sources
<1>4. Range(sources) \subseteq ToSet(Routes[l]) \cap matched
  BY <1>2 DEF Range, ToSet
<1> QED BY <1>2, <1>3, <1>4 DEF sources

LEMMA ShredEventsTyped ==
    ASSUME NEW l \in Listener, NEW key \in Network, now \in Time,
           NEW sources \in Seq(ShredSource), Range(sources) \subseteq ToSet(Routes[l])
    PROVE  /\ ShredEvents(sources, key) \in Seq(ShredMessage(l))
           /\ Len(ShredEvents(sources, key)) = Len(sources)
<1>1. DOMAIN sources = 1..Len(sources) /\ Len(sources) \in Nat
  OBVIOUS
<1>2. \A i \in DOMAIN sources : sources[i] \in ToSet(Routes[l])
  BY DEF Range
<1>3. ShredEvents(sources, key) \in [1..Len(sources) -> ShredMessage(l)]
  BY <1>1, <1>2 DEF ShredEvents, ShredMessage
<1> HIDE DEF ShredEvents
<1> QED BY <1>1, <1>3

LEMMA EmptyIsSeq == \A X : <<>> \in Seq(X)
  OBVIOUS

LEMMA HeadAndTail ==
    ASSUME NEW X, NEW q \in Seq(X), q # <<>>
    PROVE  /\ Head(q) \in X /\ Tail(q) \in Seq(X)
           /\ Len(q) = 1 <=> Tail(q) = <<>>
           /\ q = <<Head(q)>> \o Tail(q)
<1>1. Len(q) \in Nat /\ Len(q) # 0
  OBVIOUS
<1>2. Head(q) \in X /\ Tail(q) \in Seq(X) /\ Len(Tail(q)) = Len(q) - 1
  BY <1>1
<1>3. Len(q) = 1 <=> Tail(q) = <<>>
  <2> DEFINE r == Tail(q)
  <2>1. r \in Seq(X) /\ Len(r) = Len(q) - 1
    BY <1>2
  <2> HIDE DEF r
  <2>2. Len(r) = 0 <=> r = <<>>
    <3>1. ASSUME Len(r) = 0 PROVE r = <<>>
      BY <2>1, <3>1
    <3>2. Len(<<>>) = 0
      OBVIOUS
    <3> QED BY <3>1, <3>2
  <2>3. Len(q) = 1 <=> r = <<>>
    BY <1>1, <2>1, <2>2
  <2> QED BY <2>3 DEF r
<1>4. q = <<Head(q)>> \o Tail(q)
  BY <1>1
<1> QED BY <1>2, <1>3, <1>4

LEMMA PipeTypeInit == PipeInit => PipeTypeOK
<1> SUFFICES ASSUME PipeInit PROVE PipeTypeOK
  OBVIOUS
<1>1. \A t \in Thread : outbox[t] = <<>> /\ pc[t] # "send"
  BY DEF PipeInit
<1>2. ThreadsTyped
  BY DEF PipeInit, ThreadsTyped
<1>3. OutboxTyped
  <2>1. \A l \in Listener : outbox[l] \in Seq(ShredMessage(l))
    BY <1>1, EmptyIsSeq DEF Thread
  <2>2. \A s \in Stream : outbox[s] \in Seq(StreamMessage)
    BY <1>1, EmptyIsSeq DEF Thread
  <2>3. DOMAIN outbox = Thread
    BY DEF PipeInit
  <2> QED BY <1>1, <2>1, <2>2, <2>3 DEF OutboxTyped
<1>4. ChannelsTyped
  BY DEF PipeInit, ChannelsTyped, Channel
<1> QED BY <1>2, <1>3, <1>4 DEF PipeTypeOK

(* What each step does to the outboxes, the channels and the history.      *)
LEMMA RecvFacts ==
    ASSUME PipeTypeOK, NEW l \in Listener, NEW key \in Network, NEW matched,
           ListenerRecv(l, key, matched)
    PROVE  \E sources \in Seq(ShredSource) :
               /\ sources = Kept(Routes[l], matched) /\ sources # <<>>
               /\ Range(sources) \subseteq ToSet(Routes[l]) \cap matched
               /\ IsInjective(sources)
               /\ outbox[l] = <<>> /\ pc[l] = "recv" /\ now \in Time
               /\ outbox'[l] = ShredEvents(sources, key)
               /\ outbox'[l] \in Seq(ShredMessage(l))
               /\ outbox'[l] # <<>>
               /\ \A t \in Thread : t # l => outbox'[t] = outbox[t]
               /\ DOMAIN outbox' = Thread
               /\ \A s \in ShredSource :
                     stamped'[s] = IF s \in Range(sources)
                                   THEN Append(stamped[s], <<key, now>>)
                                   ELSE stamped[s]
<1> DEFINE sources == Kept(Routes[l], matched)
<1>1. /\ sources \in Seq(ShredSource)
      /\ Range(sources) \subseteq ToSet(Routes[l]) \cap matched
      /\ IsInjective(sources)
  BY MatchedSources
<1>2. sources # <<>> /\ pc[l] = "recv"
  BY DEF ListenerRecv
<1>3. l \in Thread
  BY RouteFacts
<1>4. outbox[l] = <<>> /\ now \in Time /\ DOMAIN outbox = Thread
  BY <1>2, <1>3 DEF PipeTypeOK, OutboxTyped, ThreadsTyped
<1>5. outbox' = [outbox EXCEPT ![l] = ShredEvents(sources, key)]
  BY DEF ListenerRecv
<1>6. \A s \in ShredSource :
         stamped'[s] = IF s \in Range(sources)
                       THEN Append(stamped[s], <<key, now>>)
                       ELSE stamped[s]
  BY DEF ListenerRecv
<1> HIDE DEF sources
<1>7. /\ ShredEvents(sources, key) \in Seq(ShredMessage(l))
      /\ Len(ShredEvents(sources, key)) = Len(sources)
  BY <1>1, <1>4, ShredEventsTyped
<1>8. ShredEvents(sources, key) # <<>>
  BY <1>1, <1>2, <1>7
<1>9. outbox'[l] = ShredEvents(sources, key)
  BY <1>3, <1>4, <1>5
<1> QED BY <1>1, <1>2, <1>3, <1>4, <1>5, <1>6, <1>7, <1>8, <1>9 DEF sources

LEMMA SendFacts ==
    ASSUME PipeTypeOK, NEW t \in Thread, Send(t)
    PROVE  /\ outbox[t] # <<>> /\ pc[t] = "send"
           /\ outbox'[t] = Tail(outbox[t])
           /\ \A u \in Thread : u # t => outbox'[u] = outbox[u] /\ pc'[u] = pc[u]
           /\ DOMAIN outbox' = Thread /\ DOMAIN chan' = Channel
           /\ pc'[t] = "send" <=> outbox'[t] # <<>>
           /\ t \in Listener =>
                 /\ Head(outbox[t]) \in ShredMessage(t)
                 /\ Head(outbox[t]).event \in ShredEvent
                 /\ chan'["shred"] = Append(chan["shred"], Head(outbox[t]).event)
                 /\ chan'["slot"] = chan["slot"] /\ chan'["grpc"] = chan["grpc"]
                 /\ outbox'[t] \in Seq(ShredMessage(t))
           /\ t \in Stream =>
                 /\ chan'["shred"] = chan["shred"]
                 /\ chan'["slot"] \in Seq(SlotEvent)
                 /\ chan'["grpc"] \in Seq(GrpcLatencyEvent)
                 /\ outbox'[t] \in Seq(StreamMessage)
<1> DEFINE m == Head(outbox[t])
<1>1. outbox[t] # <<>> /\ pc[t] = "send" /\ DOMAIN outbox = Thread
  BY DEF Send, PipeTypeOK, OutboxTyped
<1>2. outbox' = [outbox EXCEPT ![t] = Tail(outbox[t])]
  BY DEF Send
<1>3. outbox'[t] = Tail(outbox[t]) /\ DOMAIN outbox' = Thread
      /\ \A u \in Thread : u # t => outbox'[u] = outbox[u]
  BY <1>1, <1>2
<1>4. chan' = [chan EXCEPT ![m.to] = Append(chan[m.to], m.event)]
  BY DEF Send, Enqueue
<1>5. DOMAIN chan' = Channel /\ DOMAIN chan = Channel
  BY <1>4 DEF PipeTypeOK, ChannelsTyped
<1>6. pc' = [pc EXCEPT ![t] = IF Len(outbox[t]) = 1 THEN AfterSend(t) ELSE "send"]
  BY DEF Send
<1>7. /\ \A u \in Thread : u # t => pc'[u] = pc[u]
      /\ pc'[t] = IF Len(outbox[t]) = 1 THEN AfterSend(t) ELSE "send"
  BY <1>6 DEF PipeTypeOK, ThreadsTyped
<1>8. ASSUME NEW X, outbox[t] \in Seq(X)
      PROVE  /\ m \in X /\ Tail(outbox[t]) \in Seq(X)
             /\ pc'[t] = "send" <=> outbox'[t] # <<>>
  <2>1. m \in X /\ Tail(outbox[t]) \in Seq(X)
    BY <1>1, <1>8, HeadAndTail
  <2>2. Len(outbox[t]) = 1 <=> Tail(outbox[t]) = <<>>
    BY <1>1, <1>8, HeadAndTail
  <2>3. AfterSend(t) # "send"
    BY DEF AfterSend
  <2> QED BY <1>3, <1>7, <2>1, <2>2, <2>3
<1> HIDE DEF m
<1>9. ASSUME t \in Listener
      PROVE  /\ m \in ShredMessage(t) /\ m.event \in ShredEvent
             /\ chan'["shred"] = Append(chan["shred"], m.event)
             /\ chan'["slot"] = chan["slot"] /\ chan'["grpc"] = chan["grpc"]
             /\ outbox'[t] \in Seq(ShredMessage(t))
             /\ pc'[t] = "send" <=> outbox'[t] # <<>>
  <2>1. outbox[t] \in Seq(ShredMessage(t))
    BY <1>9 DEF PipeTypeOK, OutboxTyped
  <2>2. /\ m \in ShredMessage(t) /\ Tail(outbox[t]) \in Seq(ShredMessage(t))
        /\ pc'[t] = "send" <=> outbox'[t] # <<>>
    BY <1>8, <2>1
  <2>3. ToSet(Routes[t]) \subseteq ShredSource
    BY <1>9, RouteFacts
  <2>4. m.to = "shred" /\ m.event \in ShredEvent
    BY <2>2, <2>3, PipelineAssumption DEF ShredMessage, ShredEvent
  <2> QED BY <1>3, <1>4, <1>5, <2>2, <2>4 DEF Channel
<1>10. ASSUME t \in Stream
       PROVE  /\ chan'["shred"] = chan["shred"]
              /\ chan'["slot"] \in Seq(SlotEvent)
              /\ chan'["grpc"] \in Seq(GrpcLatencyEvent)
              /\ outbox'[t] \in Seq(StreamMessage)
              /\ pc'[t] = "send" <=> outbox'[t] # <<>>
  <2>1. outbox[t] \in Seq(StreamMessage)
    BY <1>10 DEF PipeTypeOK, OutboxTyped
  <2>2. /\ m \in StreamMessage /\ Tail(outbox[t]) \in Seq(StreamMessage)
        /\ pc'[t] = "send" <=> outbox'[t] # <<>>
    BY <1>8, <2>1
  <2>3. chan["slot"] \in Seq(SlotEvent) /\ chan["grpc"] \in Seq(GrpcLatencyEvent)
    BY DEF PipeTypeOK, ChannelsTyped
  <2>4. CASE m \in [to : {"slot"}, event : SlotEvent]
    <3>1. m.to = "slot" /\ m.event \in SlotEvent
      BY <2>4
    <3>2. chan'["slot"] = Append(chan["slot"], m.event)
          /\ chan'["shred"] = chan["shred"] /\ chan'["grpc"] = chan["grpc"]
      BY <1>4, <1>5, <3>1 DEF Channel
    <3>3. Append(chan["slot"], m.event) \in Seq(SlotEvent)
      BY <2>3, <3>1
    <3> QED BY <1>3, <2>2, <2>3, <3>2, <3>3
  <2>5. CASE m \in [to : {"grpc"}, event : GrpcLatencyEvent]
    <3>1. m.to = "grpc" /\ m.event \in GrpcLatencyEvent
      BY <2>5
    <3>2. chan'["grpc"] = Append(chan["grpc"], m.event)
          /\ chan'["shred"] = chan["shred"] /\ chan'["slot"] = chan["slot"]
      BY <1>4, <1>5, <3>1 DEF Channel
    <3>3. Append(chan["grpc"], m.event) \in Seq(GrpcLatencyEvent)
      BY <2>3, <3>1
    <3> QED BY <1>3, <2>2, <2>3, <3>2, <3>3
  <2> QED BY <2>2, <2>4, <2>5 DEF StreamMessage
<1> QED BY <1>1, <1>3, <1>5, <1>7, <1>9, <1>10 DEF m, Thread

(* An update becomes messages to the slot and the sample channel.          *)
LEMMA StreamRecvFacts ==
    ASSUME PipeTypeOK, NEW s \in Stream, NEW slot \in Slot, StreamRecv(s, slot)
    PROVE  /\ outbox'[s] \in Seq(StreamMessage) /\ outbox'[s] # <<>>
           /\ \A t \in Thread : t # s => outbox'[t] = outbox[t]
           /\ DOMAIN outbox' = Thread
<1>1. s \in Thread /\ DOMAIN outbox = Thread /\ now \in Time
  BY DEF PipeTypeOK, OutboxTyped, ThreadsTyped, Thread
<1>2. ASSUME NEW src \in EntrySource
      PROVE  /\ <<SlotUpdate(src, slot)>> \in Seq(StreamMessage)
             /\ SlotUpdate(src, slot) \in StreamMessage
  <2>1. SlotUpdate(src, slot) \in StreamMessage
    BY <1>1, <1>2 DEF SlotUpdate, StreamMessage, SlotEvent
  <2> HIDE DEF SlotUpdate
  <2> QED BY <2>1
<1>3. CASE outbox' = [outbox EXCEPT ![s] = <<SlotUpdate(StreamSource[s], slot)>>]
  <2>1. StreamSource[s] \in EntrySource
    BY PipelineAssumption
  <2>2. outbox'[s] = <<SlotUpdate(StreamSource[s], slot)>>
    BY <1>1, <1>3
  <2>3. outbox'[s] \in Seq(StreamMessage)
    BY <1>2, <2>1, <2>2
  <2>4. outbox'[s] # <<>>
    BY <2>2
  <2> QED BY <1>1, <1>3, <2>3, <2>4
<1>4. CASE /\ AccountSource[s] # None
           /\ \E samples \in {<<>>} \cup {<<ns>> : ns \in Latency} :
                 outbox' = [outbox EXCEPT ![s] =
                    <<SlotUpdate(AccountSource[s], slot)>> \o
                    [i \in DOMAIN samples |->
                        [to |-> "grpc",
                         event |-> [source |-> AccountSource[s],
                                    latency_ns |-> samples[i]]]]]
  <2> DEFINE src == AccountSource[s]
  <2>1. src \in EntrySource
    BY <1>4, PipelineAssumption
  <2>2. PICK samples \in {<<>>} \cup {<<ns>> : ns \in Latency} :
           outbox' = [outbox EXCEPT ![s] =
                    <<SlotUpdate(src, slot)>> \o
                    [i \in DOMAIN samples |->
                        [to |-> "grpc",
                         event |-> [source |-> src, latency_ns |-> samples[i]]]]]
    BY <1>4
  <2> HIDE DEF src
  <2> DEFINE extra == [i \in DOMAIN samples |->
                          [to |-> "grpc",
                           event |-> [source |-> src, latency_ns |-> samples[i]]]]
  <2>3. samples \in Seq(Latency)
    <3>1. CASE samples = <<>>
      BY <3>1, EmptyIsSeq
    <3>2. CASE samples \in {<<ns>> : ns \in Latency}
      BY <3>2
    <3> QED BY <2>2, <3>1, <3>2
  <2>4. extra \in Seq(StreamMessage)
    <3>1. DOMAIN samples = 1..Len(samples) /\ Len(samples) \in Nat
          /\ \A i \in DOMAIN samples : samples[i] \in Latency
      BY <2>3
    <3>2. extra \in [1..Len(samples) -> StreamMessage]
      BY <2>1, <3>1 DEF StreamMessage, GrpcLatencyEvent
    <3> HIDE DEF extra
    <3> QED BY <3>1, <3>2
  <2>5. outbox'[s] = <<SlotUpdate(src, slot)>> \o extra
    BY <1>1, <2>2
  <2> HIDE DEF extra
  <2>6. <<SlotUpdate(src, slot)>> \in Seq(StreamMessage)
    BY <1>2, <2>1
  <2>7. <<SlotUpdate(src, slot)>> \o extra \in Seq(StreamMessage)
        /\ <<SlotUpdate(src, slot)>> \o extra # <<>>
    <3>1. \A x \in StreamMessage : <<x>> \o extra \in Seq(StreamMessage)
                                   /\ <<x>> \o extra # <<>>
      BY <2>4
    <3> QED BY <1>2, <2>1, <3>1
  <2> QED BY <1>1, <2>2, <2>5, <2>7
<1> QED BY <1>3, <1>4 DEF StreamRecv

LEMMA PipeTypeNext == PipeTypeOK /\ [PipeNext]_pipeVars => PipeTypeOK'
<1> SUFFICES ASSUME PipeTypeOK, [PipeNext]_pipeVars PROVE PipeTypeOK'
  OBVIOUS
<1> USE DEF PipeTypeOK
<1>1. ASSUME UNCHANGED <<outbox, pc>> PROVE OutboxTyped'
  BY <1>1 DEF OutboxTyped, ShredMessage, StreamMessage
<1>2. ASSUME UNCHANGED chan PROVE ChannelsTyped'
  BY <1>2 DEF ChannelsTyped
<1>3. ASSUME UNCHANGED threadVars PROVE ThreadsTyped' /\ OutboxTyped'
  BY <1>1, <1>3 DEF threadVars, ThreadsTyped
\* A thread moves on without touching its outbox.
<1>4. ASSUME NEW t \in Thread, NEW at \in {"check", "recv", "wait", "stopped"},
             pc[t] # "send", pc' = [pc EXCEPT ![t] = at],
             UNCHANGED <<now, outbox, stamped, late, chan>>
      PROVE  PipeTypeOK'
  <2>1. ThreadsTyped'
    BY <1>4 DEF ThreadsTyped
  <2>2. OutboxTyped'
    <3>1. \A u \in Thread : pc'[u] = "send" <=> pc[u] = "send"
      BY <1>4 DEF ThreadsTyped
    <3> QED BY <1>4, <3>1 DEF OutboxTyped, ShredMessage, StreamMessage
  <2> QED BY <1>2, <1>4, <2>1, <2>2
\* A thread fills its outbox.
<1>5. ASSUME NEW t \in Thread, pc' = [pc EXCEPT ![t] = "send"], UNCHANGED <<now, chan>>,
             late' \in [Thread -> Nat], stamped' \in [ShredSource -> Seq(ShredKey \X Time)],
             outbox'[t] # <<>>, DOMAIN outbox' = Thread,
             t \in Listener => outbox'[t] \in Seq(ShredMessage(t)),
             t \in Stream => outbox'[t] \in Seq(StreamMessage),
             \A u \in Thread : u # t => outbox'[u] = outbox[u]
      PROVE  PipeTypeOK'
  <2>1. ThreadsTyped'
    BY <1>5 DEF ThreadsTyped
  <2>2. OutboxTyped'
    <3>1. \A u \in Thread : pc'[u] = IF u = t THEN "send" ELSE pc[u]
      BY <1>5 DEF ThreadsTyped
    <3>2. \A l \in Listener : outbox'[l] \in Seq(ShredMessage(l))
      BY <1>5 DEF OutboxTyped, Thread
    <3>3. \A s \in Stream : outbox'[s] \in Seq(StreamMessage)
      BY <1>5 DEF OutboxTyped, Thread
    <3>4. \A u \in Thread : pc'[u] = "send" <=> outbox'[u] # <<>>
      BY <1>5, <3>1 DEF OutboxTyped
    <3> QED BY <1>5, <3>2, <3>3, <3>4 DEF OutboxTyped, ShredMessage, StreamMessage
  <2> QED BY <1>2, <1>5, <2>1, <2>2
<1>6. CASE Tick
  <2>1. now' \in Time
    BY <1>6 DEF Tick
  <2> QED BY <1>1, <1>2, <1>6, <2>1 DEF Tick, ThreadsTyped
<1>7. CASE Cancel
  BY <1>2, <1>3, <1>7 DEF Cancel
<1>8. ASSUME NEW l \in Listener, ListenerCheck(l) PROVE PipeTypeOK'
  <2>1. l \in Thread
    BY RouteFacts
  <2>2. PICK at \in {"recv", "stopped"} : pc' = [pc EXCEPT ![l] = at]
    BY <1>8 DEF ListenerCheck
  <2> QED BY <1>4, <1>8, <2>1, <2>2 DEF ListenerCheck
<1>9. ASSUME NEW l \in Listener, ListenerIdle(l) PROVE PipeTypeOK'
  <2>1. l \in Thread
    BY RouteFacts
  <2> QED BY <1>4, <1>9, <2>1 DEF ListenerIdle
<1>10. ASSUME NEW l \in Listener, NEW key \in Network, NEW matched,
              ListenerRecv(l, key, matched)
       PROVE  PipeTypeOK'
  <2>1. PICK sources \in Seq(ShredSource) :
           /\ outbox'[l] \in Seq(ShredMessage(l)) /\ outbox'[l] # <<>>
           /\ \A t \in Thread : t # l => outbox'[t] = outbox[t]
           /\ DOMAIN outbox' = Thread /\ now \in Time
           /\ \A s \in ShredSource :
                 stamped'[s] = IF s \in Range(sources)
                               THEN Append(stamped[s], <<key, now>>)
                               ELSE stamped[s]
    BY <1>10, RecvFacts
  <2>2. stamped' \in [ShredSource -> Seq(ShredKey \X Time)]
    <3>1. DOMAIN stamped' = ShredSource
      BY <1>10 DEF ListenerRecv
    <3>2. <<key, now>> \in ShredKey \X Time
      BY <2>1, PipelineAssumption
    <3>3. \A s \in ShredSource : /\ stamped[s] \in Seq(ShredKey \X Time)
                                 /\ Append(stamped[s], <<key, now>>) \in Seq(ShredKey \X Time)
      BY <3>2 DEF ThreadsTyped
    <3>4. \A s \in ShredSource : stamped'[s] \in Seq(ShredKey \X Time)
      BY <2>1, <3>3
    <3>5. stamped' = [s \in ShredSource |-> stamped'[s]]
      BY <1>10 DEF ListenerRecv
    <3> QED BY <3>4, <3>5
  <2>3. late' \in [Thread -> Nat]
    <3>1. \A n \in Nat : n + 1 \in Nat
      OBVIOUS
    <3>2. late' = [late EXCEPT ![l] = IF cancelled THEN @ + 1 ELSE @]
      BY <1>10 DEF ListenerRecv
    <3>3. late \in [Thread -> Nat]
      BY DEF ThreadsTyped
    <3>4. CASE cancelled
      BY <3>1, <3>2, <3>3, <3>4
    <3>5. CASE ~cancelled
      BY <3>2, <3>3, <3>5
    <3> QED BY <3>4, <3>5
  <2>4. l \in Thread /\ l \notin Stream
    BY RouteFacts
  <2>5. pc' = [pc EXCEPT ![l] = "send"] /\ UNCHANGED <<now, chan>>
    BY <1>10 DEF ListenerRecv
  <2> QED BY <1>5, <2>1, <2>2, <2>3, <2>4, <2>5
<1>11. ASSUME NEW s \in Stream, NEW slot \in Slot, StreamRecv(s, slot)
       PROVE  PipeTypeOK'
  <2>1. /\ outbox'[s] \in Seq(StreamMessage) /\ outbox'[s] # <<>>
        /\ \A t \in Thread : t # s => outbox'[t] = outbox[t]
        /\ DOMAIN outbox' = Thread
    BY <1>11, StreamRecvFacts
  <2>2. s \in Thread /\ s \notin Listener
    BY PipelineAssumption DEF Thread
  <2>3. /\ pc' = [pc EXCEPT ![s] = "send"] /\ UNCHANGED <<now, chan>>
        /\ UNCHANGED <<stamped, late>>
    BY <1>11 DEF StreamRecv
  <2> QED BY <1>5, <2>1, <2>2, <2>3 DEF ThreadsTyped
<1>12. ASSUME NEW s \in Stream, StreamStop(s) PROVE PipeTypeOK'
  <2>1. s \in Thread
    BY DEF Thread
  <2> QED BY <1>4, <1>12, <2>1 DEF StreamStop
<1>13. ASSUME NEW t \in Thread, Send(t) PROVE PipeTypeOK'
  <2>1. ThreadsTyped'
    BY <1>13 DEF Send, AfterSend, ThreadsTyped
  <2>2. OutboxTyped'
    <3>1. /\ \A l \in Listener : outbox'[l] \in Seq(ShredMessage(l))
          /\ \A s \in Stream : outbox'[s] \in Seq(StreamMessage)
      BY <1>13, SendFacts DEF OutboxTyped, Thread
    <3>2. DOMAIN outbox' = Thread /\ \A u \in Thread : pc'[u] = "send" <=> outbox'[u] # <<>>
      BY <1>13, SendFacts DEF OutboxTyped
    <3> QED BY <3>1, <3>2 DEF OutboxTyped, ShredMessage, StreamMessage
  <2>3. ChannelsTyped'
    <3>1. DOMAIN chan' = Channel
      BY <1>13, SendFacts
    <3>2. CASE t \in Listener
      <4>1. /\ Head(outbox[t]).event \in ShredEvent
            /\ chan'["shred"] = Append(chan["shred"], Head(outbox[t]).event)
            /\ chan'["slot"] = chan["slot"] /\ chan'["grpc"] = chan["grpc"]
        BY <1>13, <3>2, SendFacts
      <4> QED BY <3>1, <4>1 DEF ChannelsTyped
    <3>3. CASE t \in Stream
      BY <1>13, <3>1, <3>3, SendFacts DEF ChannelsTyped
    <3> QED BY <3>2, <3>3 DEF Thread
  <2> QED BY <2>1, <2>2, <2>3
<1>14. CASE AggShred
  <2>1. ChannelsTyped'
    BY <1>14 DEF AggShred, ChannelsTyped, Channel
  <2> QED BY <1>3, <1>14, <2>1 DEF AggShred
<1>15. CASE AggSlot
  <2>1. ChannelsTyped'
    BY <1>15 DEF AggSlot, ChannelsTyped, Channel
  <2> QED BY <1>3, <1>15, <2>1 DEF AggSlot
<1>16. CASE AggGrpc
  <2>1. ChannelsTyped'
    BY <1>16 DEF AggGrpc, ChannelsTyped, Channel
  <2> QED BY <1>3, <1>16, <2>1 DEF AggGrpc
<1>17. CASE UNCHANGED pipeVars
  BY <1>2, <1>3, <1>17 DEF pipeVars
<1> QED
  BY <1>6, <1>7, <1>8, <1>9, <1>10, <1>11, <1>12, <1>13, <1>14, <1>15, <1>16, <1>17
     DEF PipeNext

LEMMA PipelineTypes == PipeSpec => []PipeTypeOK
<1> QED BY PipeTypeInit, PipeTypeNext, PTL DEF PipeSpec

-----------------------------------------------------------------------------
(* Either arm of the aggregator records wanted slots only, and every one   *)
(* of them, but for a shred that shows the start to be missed.             *)
LEMMA ArmsRecordWanted ==
    ASSUME NEW s \in Nat
    PROVE  /\ ShredPasses(s) => Wanted(s)
           /\ SlotPasses(s) <=> Wanted(s)
           /\ StartSlot = None /\ Wanted(s) => ShredPasses(s)
<1>1. /\ StartSlot = None \/ StartSlot \in Nat
      /\ start_slot_configured <=> StartSlot # None
      /\ start_slot = IF StartSlot # None THEN StartSlot ELSE 0
  BY SlotGateAssumption DEF start_slot_configured, start_slot
<1>2. /\ start_slot \in Nat
      /\ s < start_slot <=> start_slot_configured /\ ~(s >= StartSlot)
  BY <1>1, SlotGateAssumption
<1>3. PastEnd(s) <=> EndSlot # None /\ ~(s <= EndSlot)
  BY SlotGateAssumption DEF PastEnd
<1>4. SlotPasses(s) <=> Wanted(s)
  BY <1>2, <1>3 DEF SlotPasses, SlotArm, Wanted
<1>5. ShredPasses(s) => Wanted(s)
  BY <1>2, <1>3 DEF ShredPasses, ShredArm, Wanted
<1>6. StartSlot = None /\ Wanted(s) => ShredPasses(s)
  BY <1>1, <1>2, <1>3 DEF ShredPasses, ShredArm, Wanted
<1> QED BY <1>4, <1>5, <1>6

(* What the aggregator takes from a channel, and what becomes of it.       *)
LEMMA AggShredFacts ==
    ASSUME PipeTypeOK, AggShred
    PROVE  \E e \in ShredEvent :
               /\ e = Head(chan["shred"])
               /\ chan["shred"] = <<e>> \o chan'["shred"]
               /\ chan'["shred"] \in Seq(ShredEvent)
               /\ ShredPasses(e.key.slot) => record_shred(e)
               /\ ~ShredPasses(e.key.slot) => UNCHANGED regVars
               /\ GateShred(e.key.slot)
               /\ UNCHANGED threadVars
<1> DEFINE q == chan["shred"]
           e == Head(q)
<1>1. q \in Seq(ShredEvent) /\ q # <<>> /\ DOMAIN chan = Channel
  BY DEF PipeTypeOK, ChannelsTyped, AggShred
<1>2. chan'["shred"] = Tail(q)
  BY <1>1 DEF AggShred, Channel
<1>3. /\ GateShred(e.key.slot)
      /\ IF ShredPasses(e.key.slot) THEN record_shred(e) ELSE UNCHANGED regVars
      /\ UNCHANGED threadVars
  BY DEF AggShred
<1> HIDE DEF q
<1>4. e \in ShredEvent /\ Tail(q) \in Seq(ShredEvent) /\ q = <<e>> \o Tail(q)
  BY <1>1, HeadAndTail
<1> HIDE DEF e
<1> QED BY <1>2, <1>3, <1>4 DEF q, e

LEMMA AggSlotFacts ==
    ASSUME PipeTypeOK, AggSlot
    PROVE  \E e \in SlotEvent :
               /\ SlotPasses(e.slot) => record_slot_event(e)
               /\ ~SlotPasses(e.slot) => UNCHANGED regVars
               /\ GateSlotEvent(e.slot)
               /\ UNCHANGED threadVars
               /\ chan'["shred"] = chan["shred"]
<1> DEFINE q == chan["slot"]
           e == Head(q)
<1>1. q \in Seq(SlotEvent) /\ q # <<>> /\ DOMAIN chan = Channel
  BY DEF PipeTypeOK, ChannelsTyped, AggSlot
<1>2. chan'["shred"] = chan["shred"]
  BY <1>1 DEF AggSlot, Channel
<1>3. /\ GateSlotEvent(e.slot)
      /\ IF SlotPasses(e.slot) THEN record_slot_event(e) ELSE UNCHANGED regVars
      /\ UNCHANGED threadVars
  BY DEF AggSlot
<1> HIDE DEF q
<1>4. e \in SlotEvent
  BY <1>1, HeadAndTail
<1> HIDE DEF e
<1> QED BY <1>2, <1>3, <1>4

LEMMA AggGrpcFacts ==
    ASSUME PipeTypeOK, AggGrpc
    PROVE  /\ \E e \in GrpcLatencyEvent : record_grpc_latency(e)
           /\ UNCHANGED <<threadVars, gateVars>>
           /\ chan'["shred"] = chan["shred"]
<1> DEFINE q == chan["grpc"]
<1>1. q \in Seq(GrpcLatencyEvent) /\ q # <<>> /\ DOMAIN chan = Channel
  BY DEF PipeTypeOK, ChannelsTyped, AggGrpc
<1>2. chan'["shred"] = chan["shred"] /\ UNCHANGED <<threadVars, gateVars>>
  BY <1>1 DEF AggGrpc, Channel
<1>3. record_grpc_latency(Head(q))
  BY DEF AggGrpc
<1> HIDE DEF q
<1>4. Head(q) \in GrpcLatencyEvent
  BY <1>1, HeadAndTail
<1> QED BY <1>2, <1>3, <1>4

(* Every step of the pipeline is a step of the registry or none: whatever  *)
(* the order of the threads and of the channels, the aggregator is the     *)
(* only writer and hands it well-formed events, one at a time.             *)
LEMMA PipelineStep == PipeTypeOK /\ [PipeNext]_pipeVars => [RegNext]_regVars
<1> SUFFICES ASSUME PipeTypeOK, [PipeNext]_pipeVars PROVE [RegNext]_regVars
  OBVIOUS
<1>1. CASE AggShred
  BY <1>1, AggShredFacts DEF RegNext
<1>2. CASE AggSlot
  BY <1>2, AggSlotFacts DEF RegNext
<1>3. CASE AggGrpc
  BY <1>3, AggGrpcFacts DEF RegNext
<1>4. ASSUME ~AggShred, ~AggSlot, ~AggGrpc PROVE UNCHANGED regVars
  BY <1>4 DEF PipeNext, Tick, Cancel, ListenerCheck, ListenerIdle, ListenerRecv,
              StreamRecv, StreamStop, Send, pipeVars
<1> QED BY <1>1, <1>2, <1>3, <1>4

(* The pipeline implements the registry: what RegistryProofs and           *)
(* StatsProofs show of any sequence of record_shred, record_slot_event and *)
(* record_grpc_latency calls holds of the calls that main.rs makes.        *)
THEOREM PipelineImplementsRegistry == PipeSpec => RegSpec
<1>1. PipeInit => RegInit
  BY DEF PipeInit
<1> QED BY <1>1, PipelineStep, PipelineTypes, PTL DEF PipeSpec, RegSpec

-----------------------------------------------------------------------------
(* A listener that stamped a packet after the token was cancelled is past  *)
(* the read it had entered, and comes by the check before the next one.    *)
LateIsPastTheRead ==
    \A l \in Listener :
        late[l] # 0 => /\ cancelled /\ late[l] = 1
                       /\ pc[l] \in {"send", "check", "stopped"}

(* Every shred on its way was stamped, by a listener its source belongs    *)
(* to, and not later than now.                                             *)
Stamped(e) == \E p \in ToSet(stamped[e.source]) : p[1] = e.key

Underway(e) ==
    \/ \E i \in DOMAIN chan["shred"] : e = chan["shred"][i]
    \/ \E l \in Listener : \E i \in DOMAIN outbox[l] : e = outbox[l][i].event

SawStart ==
    \E src \in ShredSource : \E p \in ToSet(stamped[src]) : p[1].slot = StartSlot

AskedInv ==
    /\ \A k \in DOMAIN shreds : Wanted(k.slot)
    /\ \A s \in DOMAIN slots : Wanted(s)
    /\ DOMAIN shreds # {} => start_slot_checked
    /\ start_slot_configured /\ start_slot_checked /\ ~cancelled => SawStart
    /\ \A i \in DOMAIN chan["shred"] : Stamped(chan["shred"][i])
    /\ \A l \in Listener : \A i \in DOMAIN outbox[l] : Stamped(outbox[l][i].event)

(* A source is a listener's own when no other listener feeds it.           *)
Own(l, src) == Feeders(src) = {l}

(* Time t is not after anything of l's own sources that is still under way *)
(* or still to be stamped.                                                 *)
Precedes(t, l) ==
    /\ t <= now
    /\ \A j \in DOMAIN outbox[l] : t <= outbox[l][j].event.received_at
    /\ \A j \in DOMAIN chan["shred"] :
          Own(l, chan["shred"][j].source) => t <= chan["shred"][j].received_at

ArrivalsOf(k) == IF k \in DOMAIN shreds THEN shreds[k].arrivals ELSE <<>>

(* What one socket delivers keeps the order of its stamps on the whole way *)
(* into the registry: in the outbox, filled from one packet,               *)
OutboxInOrder(l) ==
    \A i, j \in DOMAIN outbox[l] :
       /\ outbox[l][i].event.received_at = outbox[l][j].event.received_at
       /\ outbox[l][i].event.received_at <= now

(* in the channel, and from there to the outbox,                           *)
ChannelInOrder(l) ==
    \A i \in DOMAIN chan["shred"] : Own(l, chan["shred"][i].source) =>
       /\ chan["shred"][i].received_at <= now
       /\ \A j \in DOMAIN outbox[l] :
             chan["shred"][i].received_at <= outbox[l][j].event.received_at
       /\ \A j \in DOMAIN chan["shred"] :
             i < j /\ Own(l, chan["shred"][j].source)
                => chan["shred"][i].received_at <= chan["shred"][j].received_at

(* in the registry, and from there to all that comes.                      *)
RegistryInOrder(l) ==
    \A k \in ShredKey : \A i \in DOMAIN ArrivalsOf(k) :
       Own(l, ArrivalsOf(k)[i].source) =>
          /\ Precedes(ArrivalsOf(k)[i].at, l)
          /\ \A j \in DOMAIN ArrivalsOf(k) :
                i < j /\ Own(l, ArrivalsOf(k)[j].source)
                   => ArrivalsOf(k)[i].at <= ArrivalsOf(k)[j].at

InOrder(l) == OutboxInOrder(l) /\ ChannelInOrder(l) /\ RegistryInOrder(l)

EverySourceIsFed ==
    /\ \A i \in DOMAIN chan["shred"] : Feeders(chan["shred"][i].source) # {}
    /\ \A k \in ShredKey : \A i \in DOMAIN ArrivalsOf(k) :
          Feeders(ArrivalsOf(k)[i].source) # {}

SocketOrder == EverySourceIsFed /\ \A l \in Listener : InOrder(l)

LEMMA CancelledStays ==
    ASSUME PipeTypeOK, [PipeNext]_pipeVars, cancelled
    PROVE  cancelled'
<1>1. CASE AggShred
  <2>1. PICK e \in ShredEvent : GateShred(e.key.slot)
    BY <1>1, AggShredFacts
  <2> QED BY <2>1 DEF GateShred, NoteActivity, AbortMissedStart, PassEnd
<1>2. CASE AggSlot
  <2>1. PICK e \in SlotEvent : GateSlotEvent(e.slot)
    BY <1>2, AggSlotFacts
  <2> QED BY <2>1 DEF GateSlotEvent, NoteActivity, PassEnd
<1>3. CASE AggGrpc
  BY <1>3, AggGrpcFacts DEF gateVars
<1>4. ASSUME ~AggShred, ~AggSlot, ~AggGrpc PROVE cancelled'
  BY <1>4 DEF PipeNext, Tick, Cancel, ListenerCheck, ListenerIdle, ListenerRecv,
              StreamRecv, StreamStop, Send, pipeVars, gateVars
<1> QED BY <1>1, <1>2, <1>3, <1>4

LEMMA LateNext ==
    PipeTypeOK /\ LateIsPastTheRead /\ [PipeNext]_pipeVars => LateIsPastTheRead'
<1> SUFFICES ASSUME PipeTypeOK, LateIsPastTheRead, [PipeNext]_pipeVars,
                    NEW l \in Listener, late'[l] # 0
             PROVE  /\ cancelled' /\ late'[l] = 1
                    /\ pc'[l] \in {"send", "check", "stopped"}
  BY DEF LateIsPastTheRead
<1>1. l \in Thread /\ l \notin Stream
  BY RouteFacts
<1>2. /\ late[l] \in Nat
      /\ late[l] # 0 => cancelled /\ late[l] = 1 /\ pc[l] \in {"send", "check", "stopped"}
      /\ DOMAIN pc = Thread /\ DOMAIN late = Thread
  BY <1>1 DEF PipeTypeOK, ThreadsTyped, LateIsPastTheRead
<1>3. CASE late'[l] = late[l] /\ pc'[l] = pc[l]
  BY <1>2, <1>3, CancelledStays
<1>4. CASE ListenerCheck(l)
  <2>1. late' = late /\ pc[l] = "check" /\ UNCHANGED gateVars
        /\ pc' = [pc EXCEPT ![l] = IF cancelled THEN "stopped" ELSE "recv"]
    BY <1>4 DEF ListenerCheck
  <2>2. cancelled /\ late[l] = 1
    BY <1>2, <2>1
  <2>3. pc'[l] = "stopped"
    BY <1>1, <1>2, <2>1, <2>2
  <2> QED BY <2>1, <2>2, <2>3, CancelledStays
<1>5. CASE ListenerIdle(l)
  <2>1. late' = late /\ pc[l] = "recv"
    BY <1>5 DEF ListenerIdle
  <2> QED BY <1>2, <2>1
<1>6. CASE \E key \in Network, matched \in SUBSET ToSet(Routes[l]) :
              ListenerRecv(l, key, matched)
  <2>1. /\ pc[l] = "recv" /\ pc' = [pc EXCEPT ![l] = "send"] /\ UNCHANGED gateVars
        /\ late' = [late EXCEPT ![l] = IF cancelled THEN @ + 1 ELSE @]
    BY <1>6 DEF ListenerRecv
  <2>2. late[l] = 0 /\ pc'[l] = "send"
    BY <1>1, <1>2, <2>1
  <2>3. CASE cancelled
    <3>1. late'[l] = 1
      BY <1>1, <1>2, <2>1, <2>2, <2>3
    <3> QED BY <2>2, <2>3, <3>1, CancelledStays
  <2>4. CASE ~cancelled
    BY <1>1, <1>2, <2>1, <2>2, <2>4
  <2> QED BY <2>3, <2>4
<1>7. CASE Send(l)
  <2>1. late' = late /\ pc' = [pc EXCEPT ![l] = IF Len(outbox[l]) = 1 THEN AfterSend(l) ELSE "send"]
    BY <1>7 DEF Send
  <2>2. pc'[l] \in {"send", "check"}
    BY <1>1, <1>2, <2>1 DEF AfterSend
  <2> QED BY <1>2, <2>1, <2>2, CancelledStays
<1>8. ASSUME ~ListenerCheck(l), ~ListenerIdle(l), ~Send(l),
             ~ \E key \in Network, matched \in SUBSET ToSet(Routes[l]) :
                  ListenerRecv(l, key, matched)
      PROVE  late'[l] = late[l] /\ pc'[l] = pc[l]
  <2>1. ASSUME NEW m \in Listener, m # l,
               ListenerCheck(m) \/ ListenerIdle(m)
                  \/ \E key \in Network, matched \in SUBSET ToSet(Routes[m]) :
                        ListenerRecv(m, key, matched)
        PROVE  late'[l] = late[l] /\ pc'[l] = pc[l]
    BY <1>1, <1>2, <2>1 DEF ListenerCheck, ListenerIdle, ListenerRecv
  <2>2. ASSUME NEW s \in Stream, NEW slot \in Slot, StreamRecv(s, slot)
        PROVE  late'[l] = late[l] /\ pc'[l] = pc[l]
    BY <1>1, <1>2, <2>2 DEF StreamRecv
  <2>3. ASSUME NEW s \in Stream, StreamStop(s)
        PROVE  late'[l] = late[l] /\ pc'[l] = pc[l]
    BY <1>1, <1>2, <2>3 DEF StreamStop
  <2>4. ASSUME NEW t \in Thread, t # l, Send(t)
        PROVE  late'[l] = late[l] /\ pc'[l] = pc[l]
    BY <1>1, <2>4, SendFacts DEF Send
  <2>5. CASE Tick \/ Cancel \/ AggShred \/ AggSlot \/ AggGrpc \/ UNCHANGED pipeVars
    BY <2>5 DEF Tick, Cancel, AggShred, AggSlot, AggGrpc, pipeVars, threadVars
  <2> QED BY <1>8, <2>1, <2>2, <2>3, <2>4, <2>5 DEF PipeNext
<1> QED BY <1>3, <1>4, <1>5, <1>6, <1>7, <1>8

(* A cancelled listener stamps at most one more packet.                    *)
THEOREM PipelineAtMostOneLatePacket == PipeSpec => []AtMostOneLatePacket
<1>1. PipeInit => LateIsPastTheRead
  BY DEF PipeInit, LateIsPastTheRead, Thread
<1>2. PipeTypeOK /\ LateIsPastTheRead => AtMostOneLatePacket
  <2> SUFFICES ASSUME PipeTypeOK, LateIsPastTheRead, NEW l \in Listener
               PROVE  late[l] <= 1
    BY DEF AtMostOneLatePacket
  <2>1. late[l] \in Nat /\ (late[l] # 0 => late[l] = 1)
    BY RouteFacts DEF PipeTypeOK, ThreadsTyped, LateIsPastTheRead
  <2> QED BY <2>1
<1> QED BY <1>1, <1>2, LateNext, PipelineTypes, PTL DEF PipeSpec

-----------------------------------------------------------------------------
LEMMA AppendElements ==
    ASSUME NEW X, NEW s \in Seq(X), NEW x \in X
    PROVE  /\ DOMAIN Append(s, x) = DOMAIN s \cup {Len(s) + 1}
           /\ \A i \in DOMAIN s : Append(s, x)[i] = s[i] /\ i < Len(s) + 1
           /\ Append(s, x)[Len(s) + 1] = x /\ Len(s) + 1 \notin DOMAIN s
  OBVIOUS

LEMMA TailElements ==
    ASSUME NEW X, NEW q \in Seq(X), q # <<>>
    PROVE  /\ 1 \in DOMAIN q /\ Head(q) = q[1] /\ DOMAIN q \subseteq Nat \ {0}
           /\ \A i \in DOMAIN Tail(q) : i + 1 \in DOMAIN q /\ Tail(q)[i] = q[i + 1]
  OBVIOUS

(* Where the shreds under way come from: the channel is filled from the    *)
(* outboxes, an outbox only by its listener.                               *)
LEMMA ChannelFilledFromOutboxes ==
    ASSUME PipeTypeOK, [PipeNext]_pipeVars, NEW i \in DOMAIN chan'["shred"]
    PROVE  \/ \E j \in DOMAIN chan["shred"] : chan'["shred"][i] = chan["shred"][j]
           \/ \E l \in Listener : \E j \in DOMAIN outbox[l] :
                 chan'["shred"][i] = outbox[l][j].event
<1>1. CASE \E t \in Thread : Send(t)
  <2>1. PICK t \in Thread : Send(t)
    BY <1>1
  <2>2. CASE t \in Stream
    BY <2>1, <2>2, SendFacts
  <2>3. CASE t \in Listener
    <3>1. /\ outbox[t] # <<>> /\ Head(outbox[t]).event \in ShredEvent
          /\ chan'["shred"] = Append(chan["shred"], Head(outbox[t]).event)
      BY <2>1, <2>3, SendFacts
    <3>2. chan["shred"] \in Seq(ShredEvent) /\ outbox[t] \in Seq(ShredMessage(t))
      BY <2>3 DEF PipeTypeOK, ChannelsTyped, OutboxTyped
    <3>3. 1 \in DOMAIN outbox[t] /\ Head(outbox[t]) = outbox[t][1]
      BY <3>1, <3>2, TailElements
    <3>4. \/ i \in DOMAIN chan["shred"] /\ chan'["shred"][i] = chan["shred"][i]
          \/ chan'["shred"][i] = Head(outbox[t]).event
      BY <3>1, <3>2, AppendElements
    <3> QED BY <2>3, <3>3, <3>4
  <2> QED BY <2>2, <2>3 DEF Thread
<1>2. CASE AggShred
  <2> DEFINE q == chan["shred"]
  <2>1. chan'["shred"] = Tail(q) /\ q \in Seq(ShredEvent) /\ q # <<>>
    BY <1>2 DEF AggShred, PipeTypeOK, ChannelsTyped, Channel
  <2>2. \A j \in DOMAIN Tail(q) : j + 1 \in DOMAIN q /\ Tail(q)[j] = q[j + 1]
    <3> HIDE DEF q
    <3> QED BY <2>1, TailElements
  <2> QED BY <2>1, <2>2
<1>3. CASE AggSlot
  BY <1>3, AggSlotFacts
<1>4. CASE AggGrpc
  BY <1>4, AggGrpcFacts
<1>5. ASSUME ~AggShred, ~AggSlot, ~AggGrpc, ~ \E t \in Thread : Send(t)
      PROVE  chan' = chan
  BY <1>5 DEF PipeNext, Tick, Cancel, ListenerCheck, ListenerIdle, ListenerRecv,
              StreamRecv, StreamStop, pipeVars
<1> QED BY <1>1, <1>2, <1>3, <1>4, <1>5

LEMMA OutboxFilledByListener ==
    ASSUME PipeTypeOK, [PipeNext]_pipeVars, NEW l \in Listener
    PROVE  \/ outbox'[l] = outbox[l]
           \/ /\ Send(l) /\ outbox[l] # <<>>
              /\ \A i \in DOMAIN outbox'[l] :
                    i + 1 \in DOMAIN outbox[l] /\ outbox'[l][i] = outbox[l][i + 1]
           \/ \E key \in Network, matched \in SUBSET ToSet(Routes[l]) :
                 ListenerRecv(l, key, matched)
<1>1. l \in Thread /\ l \notin Stream /\ DOMAIN outbox = Thread
  BY RouteFacts DEF PipeTypeOK, OutboxTyped
<1>2. ASSUME NEW t \in Thread, Send(t), t # l PROVE outbox'[l] = outbox[l]
  BY <1>1, <1>2, SendFacts
<1>3. CASE Send(l)
  <2>1. outbox[l] # <<>> /\ outbox'[l] = Tail(outbox[l])
    BY <1>1, <1>3, SendFacts
  <2>2. outbox[l] \in Seq(ShredMessage(l))
    BY DEF PipeTypeOK, OutboxTyped
  <2>3. \A i \in DOMAIN Tail(outbox[l]) :
           i + 1 \in DOMAIN outbox[l] /\ Tail(outbox[l])[i] = outbox[l][i + 1]
    BY <2>1, <2>2, TailElements
  <2> QED BY <1>3, <2>1, <2>3
<1>4. ASSUME NEW m \in Listener, m # l, NEW key \in Network,
             NEW matched \in SUBSET ToSet(Routes[m]), ListenerRecv(m, key, matched)
      PROVE  outbox'[l] = outbox[l]
  BY <1>1, <1>4 DEF ListenerRecv
<1>5. ASSUME NEW s \in Stream, NEW slot \in Slot, StreamRecv(s, slot)
      PROVE  outbox'[l] = outbox[l]
  BY <1>1, <1>5, StreamRecvFacts
<1>6. CASE \E m \in Listener : ListenerCheck(m) \/ ListenerIdle(m)
  BY <1>6 DEF ListenerCheck, ListenerIdle
<1>7. CASE Tick \/ Cancel \/ AggShred \/ AggSlot \/ AggGrpc \/ UNCHANGED pipeVars
  BY <1>7 DEF Tick, Cancel, AggShred, AggSlot, AggGrpc, pipeVars, threadVars
<1>8. CASE \E s \in Stream : StreamStop(s)
  BY <1>8 DEF StreamStop
<1> QED BY <1>2, <1>3, <1>4, <1>5, <1>6, <1>7, <1>8 DEF PipeNext

LEMMA StampsStay ==
    ASSUME PipeTypeOK, [PipeNext]_pipeVars, NEW src \in ShredSource
    PROVE  ToSet(stamped[src]) \subseteq ToSet(stamped'[src])
<1>1. stamped[src] \in Seq(ShredKey \X Time)
  BY DEF PipeTypeOK, ThreadsTyped
<1>2. ASSUME NEW l \in Listener, NEW key \in Network, NEW matched, ListenerRecv(l, key, matched)
      PROVE  ToSet(stamped[src]) \subseteq ToSet(stamped'[src])
  <2>1. /\ now \in Time
        /\ \/ stamped'[src] = stamped[src]
           \/ stamped'[src] = Append(stamped[src], <<key, now>>)
    <3>1. PICK sources \in Seq(ShredSource) :
             /\ now \in Time
             /\ \A s \in ShredSource :
                   stamped'[s] = IF s \in Range(sources)
                                 THEN Append(stamped[s], <<key, now>>)
                                 ELSE stamped[s]
      BY <1>2, RecvFacts
    <3> QED BY <3>1
  <2>2. <<key, now>> \in ShredKey \X Time
    BY <2>1, PipelineAssumption
  <2>3. /\ DOMAIN stamped[src] \subseteq DOMAIN Append(stamped[src], <<key, now>>)
        /\ \A i \in DOMAIN stamped[src] :
              Append(stamped[src], <<key, now>>)[i] = stamped[src][i]
    BY <1>1, <2>2, AppendElements
  <2> QED BY <2>1, <2>3 DEF ToSet
<1>3. ASSUME ~ \E l \in Listener : \E key \in Network, matched \in SUBSET ToSet(Routes[l]) :
                 ListenerRecv(l, key, matched)
      PROVE  stamped' = stamped
  BY <1>3 DEF PipeNext, Tick, Cancel, ListenerCheck, ListenerIdle, AggShred, AggSlot,
              AggGrpc, StreamRecv, StreamStop, Send, pipeVars, threadVars
<1> QED BY <1>2, <1>3

LEMMA StampedStays ==
    ASSUME PipeTypeOK, [PipeNext]_pipeVars, NEW e, e.source \in ShredSource, Stamped(e)
    PROVE  Stamped(e)'
  BY StampsStay DEF Stamped

LEMMA FreshIsStamped ==
    ASSUME PipeTypeOK, NEW l \in Listener, NEW key \in Network, NEW matched,
           ListenerRecv(l, key, matched), NEW i \in DOMAIN outbox'[l]
    PROVE  Stamped(outbox[l][i].event)'
<1>1. PICK sources \in Seq(ShredSource) :
         /\ outbox'[l] = ShredEvents(sources, key) /\ now \in Time
         /\ \A s \in ShredSource :
               stamped'[s] = IF s \in Range(sources)
                             THEN Append(stamped[s], <<key, now>>)
                             ELSE stamped[s]
  BY RecvFacts
<1>2. i \in DOMAIN sources /\ outbox'[l][i].event = [source |-> sources[i], key |-> key,
                                                    received_at |-> now]
  BY <1>1 DEF ShredEvents
<1> DEFINE src == sources[i]
<1>3. src \in ShredSource /\ src \in Range(sources)
  BY <1>2 DEF Range
<1> HIDE DEF src
<1>4. stamped'[src] = Append(stamped[src], <<key, now>>)
  BY <1>1, <1>3
<1>5. stamped[src] \in Seq(ShredKey \X Time) /\ <<key, now>> \in ShredKey \X Time
  BY <1>1, <1>3, PipelineAssumption DEF PipeTypeOK, ThreadsTyped
<1>6. <<key, now>> \in ToSet(stamped'[src])
  <2>1. /\ Len(stamped[src]) + 1 \in DOMAIN Append(stamped[src], <<key, now>>)
        /\ Append(stamped[src], <<key, now>>)[Len(stamped[src]) + 1] = <<key, now>>
    BY <1>5, AppendElements
  <2> QED BY <1>4, <2>1 DEF ToSet
<1>7. <<key, now>>[1] = key
  OBVIOUS
<1> QED BY <1>2, <1>6, <1>7 DEF Stamped, src

LEMMA AskedNext == PipeTypeOK /\ AskedInv /\ [PipeNext]_pipeVars => AskedInv'
<1> SUFFICES ASSUME PipeTypeOK, AskedInv, [PipeNext]_pipeVars PROVE AskedInv'
  OBVIOUS
<1>1. /\ \A k \in DOMAIN shreds : Wanted(k.slot)
      /\ \A s \in DOMAIN slots : Wanted(s)
      /\ DOMAIN shreds # {} => start_slot_checked
      /\ start_slot_configured /\ start_slot_checked /\ ~cancelled => SawStart
      /\ \A i \in DOMAIN chan["shred"] : Stamped(chan["shred"][i])
      /\ \A l \in Listener : \A i \in DOMAIN outbox[l] : Stamped(outbox[l][i].event)
  BY DEF AskedInv
<1>2. \A l \in Listener : \A i \in DOMAIN outbox[l] :
         outbox[l][i].event.source \in ShredSource
  <2>1. ASSUME NEW l \in Listener, NEW i \in DOMAIN outbox[l]
        PROVE  outbox[l][i].event.source \in ShredSource
    <3>1. outbox[l] \in Seq(ShredMessage(l)) /\ ToSet(Routes[l]) \subseteq ShredSource
      BY RouteFacts DEF PipeTypeOK, OutboxTyped
    <3>2. outbox[l][i] \in ShredMessage(l)
      BY <3>1
    <3> QED BY <3>1, <3>2 DEF ShredMessage
  <2> QED BY <2>1
<1>3. \A i \in DOMAIN chan["shred"] : chan["shred"][i] \in ShredEvent
  <2>1. chan["shred"] \in Seq(ShredEvent)
    BY DEF PipeTypeOK, ChannelsTyped
  <2> QED BY <2>1
<1>4. \A i \in DOMAIN chan'["shred"] : Stamped(chan["shred"][i])'
  <2>1. ASSUME NEW i \in DOMAIN chan'["shred"] PROVE Stamped(chan["shred"][i])'
    <3>1. CASE \E j \in DOMAIN chan["shred"] : chan'["shred"][i] = chan["shred"][j]
      <4>1. PICK j \in DOMAIN chan["shred"] : chan'["shred"][i] = chan["shred"][j]
        BY <3>1
      <4>2. chan["shred"][j].source \in ShredSource /\ Stamped(chan["shred"][j])
        BY <1>1, <1>3 DEF ShredEvent
      <4> QED BY <4>1, <4>2, StampsStay DEF Stamped
    <3>2. CASE \E l \in Listener : \E j \in DOMAIN outbox[l] :
                  chan'["shred"][i] = outbox[l][j].event
      <4>0. PICK l \in Listener : \E j \in DOMAIN outbox[l] :
               chan'["shred"][i] = outbox[l][j].event
        BY <3>2
      <4>1. PICK j \in DOMAIN outbox[l] : chan'["shred"][i] = outbox[l][j].event
        BY <4>0
      <4>2. outbox[l][j].event.source \in ShredSource /\ Stamped(outbox[l][j].event)
        BY <1>1, <1>2
      <4> QED BY <4>1, <4>2, StampsStay DEF Stamped
    <3> QED BY <3>1, <3>2, ChannelFilledFromOutboxes
  <2> QED BY <2>1
<1>5. \A l \in Listener : \A i \in DOMAIN outbox'[l] : Stamped(outbox[l][i].event)'
  <2>1. ASSUME NEW l \in Listener, NEW i \in DOMAIN outbox'[l],
               NEW j \in DOMAIN outbox[l], outbox'[l][i] = outbox[l][j]
        PROVE  Stamped(outbox[l][i].event)'
    <3>1. outbox[l][j].event.source \in ShredSource /\ Stamped(outbox[l][j].event)
      BY <1>1, <1>2
    <3> QED BY <2>1, <3>1, StampsStay DEF Stamped
  <2>2. ASSUME NEW l \in Listener, NEW i \in DOMAIN outbox'[l]
        PROVE  Stamped(outbox[l][i].event)'
    <3>1. CASE \E key \in Network, matched \in SUBSET ToSet(Routes[l]) :
                  ListenerRecv(l, key, matched)
      BY <3>1, FreshIsStamped
    <3>2. CASE \E j \in DOMAIN outbox[l] : outbox'[l][i] = outbox[l][j]
      BY <2>1, <3>2
    <3> QED BY <3>1, <3>2, OutboxFilledByListener
  <2> QED BY <2>2
<1>6. SawStart => SawStart'
  BY StampsStay DEF SawStart
<1>7. CASE AggShred
  <2>1. PICK e \in ShredEvent :
           /\ e = Head(chan["shred"])
           /\ ShredPasses(e.key.slot) => record_shred(e)
           /\ ~ShredPasses(e.key.slot) => UNCHANGED regVars
           /\ GateShred(e.key.slot)
    BY <1>7, AggShredFacts
  <2> DEFINE s == e.key.slot
  <2>2. s \in Nat /\ e.source \in ShredSource
    BY RegistryAssumption DEF ShredEvent, ShredKey
  <2>3. Stamped(e)
    <3>1. chan["shred"] \in Seq(ShredEvent) /\ chan["shred"] # <<>>
      BY <1>7 DEF PipeTypeOK, ChannelsTyped, AggShred
    <3>2. 1 \in DOMAIN chan["shred"] /\ e = chan["shred"][1]
      BY <2>1, <3>1, TailElements
    <3> QED BY <1>1, <3>2
  <2>4. s = StartSlot => SawStart'
    <3>1. s = StartSlot => SawStart
      BY <2>2, <2>3 DEF Stamped, SawStart
    <3> QED BY <1>6, <3>1
  <2>5. /\ \A k \in DOMAIN shreds' : Wanted(k.slot)
        /\ \A x \in DOMAIN slots' : Wanted(x)
        /\ DOMAIN shreds' # {} => DOMAIN shreds # {} \/ ShredPasses(s)
    <3>1. CASE ShredPasses(s)
      <4>1. DOMAIN shreds' = DOMAIN shreds \cup {e.key}
            /\ DOMAIN slots' = DOMAIN slots \cup {s}
        BY <2>1, <3>1, RecordShredEffect
      <4>2. Wanted(s)
        BY <2>2, <3>1, ArmsRecordWanted
      <4> QED BY <1>1, <3>1, <4>1, <4>2
    <3>2. CASE ~ShredPasses(s)
      BY <1>1, <2>1, <3>2 DEF regVars
    <3> QED BY <3>1, <3>2
  <2>6. CASE ShredArm(s) = "early"
    <3>1. UNCHANGED <<start_slot_checked, cancelled>> /\ ~ShredPasses(s)
      BY <2>1, <2>6 DEF GateShred, NoteActivity, ShredPasses
    <3>2. (start_slot_configured /\ start_slot_checked /\ ~cancelled => SawStart)'
      BY <1>1, <1>6, <3>1 DEF start_slot_configured
    <3> QED BY <1>1, <1>4, <1>5, <2>5, <3>1, <3>2 DEF AskedInv
  <2>7. CASE ShredArm(s) = "missed"
    <3>1. start_slot_checked' /\ cancelled'
      BY <2>1, <2>7 DEF GateShred, AbortMissedStart
    <3> QED BY <1>4, <1>5, <2>5, <3>1 DEF AskedInv
  <2>8. CASE ShredArm(s) \in {"beyond", "other", "record"}
    <3>1. start_slot_checked' /\ (cancelled' <=> cancelled)
      BY <2>1, <2>8 DEF GateShred, NoteActivity, PassEnd
    <3>2. start_slot_configured /\ ~start_slot_checked => s = StartSlot
      BY <2>2, <2>8, SlotGateAssumption
         DEF ShredArm, start_slot, start_slot_configured
    <3>3. (start_slot_configured /\ ~cancelled) => SawStart'
      BY <1>1, <1>6, <2>4, <3>2
    <3>4. (start_slot_configured /\ start_slot_checked /\ ~cancelled => SawStart)'
      BY <3>1, <3>3 DEF start_slot_configured
    <3> QED BY <1>4, <1>5, <2>5, <3>1, <3>4 DEF AskedInv
  <2>9. ShredArm(s) \in {"early", "missed", "beyond", "other", "record"}
    BY DEF ShredArm
  <2> QED BY <2>6, <2>7, <2>8, <2>9
<1>8. CASE AggSlot
  <2>1. PICK e \in SlotEvent :
           /\ SlotPasses(e.slot) => record_slot_event(e)
           /\ ~SlotPasses(e.slot) => UNCHANGED regVars
           /\ GateSlotEvent(e.slot)
    BY <1>8, AggSlotFacts
  <2>2. UNCHANGED <<start_slot_checked, cancelled>>
    BY <2>1 DEF GateSlotEvent, NoteActivity, PassEnd
  <2>3. shreds' = shreds /\ \A x \in DOMAIN slots' : Wanted(x)
    <3>1. CASE SlotPasses(e.slot)
      <4>1. e.slot \in Nat
        BY RegistryAssumption DEF SlotEvent
      <4>2. Wanted(e.slot)
        BY <3>1, <4>1, ArmsRecordWanted
      <4> QED BY <1>1, <2>1, <3>1, <4>2, RecordSlotEventEffect
    <3>2. CASE ~SlotPasses(e.slot)
      BY <1>1, <2>1, <3>2 DEF regVars
    <3> QED BY <3>1, <3>2
  <2>4. (start_slot_configured /\ start_slot_checked /\ ~cancelled => SawStart)'
    BY <1>1, <1>6, <2>2 DEF start_slot_configured
  <2> QED BY <1>1, <1>4, <1>5, <2>2, <2>3, <2>4 DEF AskedInv
<1>9. CASE Cancel
  <2>1. cancelled' /\ UNCHANGED <<shreds, slots, start_slot_checked>>
    BY <1>9 DEF Cancel, regVars
  <2> QED BY <1>1, <1>4, <1>5, <2>1 DEF AskedInv
<1>10. ASSUME ~AggShred, ~AggSlot, ~Cancel
       PROVE  UNCHANGED <<shreds, slots, start_slot_checked, cancelled>>
  <2>1. CASE AggGrpc
    BY <2>1 DEF AggGrpc, record_grpc_latency, gateVars
  <2>2. CASE ~AggGrpc
    BY <1>10, <2>2 DEF PipeNext, Tick, ListenerCheck, ListenerIdle, ListenerRecv,
              StreamRecv, StreamStop, Send, pipeVars, regVars, gateVars
  <2> QED BY <2>1, <2>2
<1>11. CASE ~AggShred /\ ~AggSlot /\ ~Cancel
  <2>1. UNCHANGED <<shreds, slots, start_slot_checked, cancelled>>
    BY <1>10, <1>11
  <2>2. (start_slot_configured /\ start_slot_checked /\ ~cancelled => SawStart)'
    BY <1>1, <1>6, <2>1 DEF start_slot_configured
  <2> QED BY <1>1, <1>4, <1>5, <2>1, <2>2 DEF AskedInv
<1> QED BY <1>7, <1>8, <1>9, <1>11

(* The registry holds wanted shreds and slots only, by either arm of the   *)
(* aggregator; and with a start slot a run that was not cancelled (as the  *)
(* start check does to one that missed it) holds a shred only if the start *)
(* slot itself was seen.                                                   *)
THEOREM PipelineRecordedAsAsked == PipeSpec => []RecordedAsAsked
<1>1. PipeInit => AskedInv
  <2> SUFFICES ASSUME PipeInit PROVE AskedInv
    OBVIOUS
  <2>1. DOMAIN shreds = {} /\ DOMAIN slots = {} /\ ~start_slot_checked
    BY DEF PipeInit, RegInit, EmptyMap, GateInit
  <2>2. DOMAIN chan["shred"] = {}
    BY DEF PipeInit, Channel
  <2>3. \A l \in Listener : DOMAIN outbox[l] = {}
    BY DEF PipeInit, Thread
  <2> QED BY <2>1, <2>2, <2>3 DEF AskedInv
<1>2. AskedInv => RecordedAsAsked
  BY DEF AskedInv, RecordedAsAsked, SawStart
<1> QED BY <1>1, <1>2, AskedNext, PipelineTypes, PTL DEF PipeSpec

-----------------------------------------------------------------------------
(* The arrivals on record for a key, seen or not, grow at their end.       *)
LEMMA ArrivalsTyped ==
    ASSUME RegTypeOK, NEW k
    PROVE  ArrivalsOf(k) \in Seq(Arrival)
<1>1. CASE k \in DOMAIN shreds
  BY <1>1 DEF ArrivalsOf, RegTypeOK, ShredRecord
<1>2. CASE k \notin DOMAIN shreds
  BY <1>2, EmptyIsSeq DEF ArrivalsOf
<1> QED BY <1>1, <1>2

LEMMA ArrivalsGrow ==
    ASSUME RegTypeOK, NEW e \in ShredEvent, record_shred(e), NEW k
    PROVE  ArrivalsOf(k)' = IF k = e.key THEN Append(ArrivalsOf(k), ArrivalOf(e))
                            ELSE ArrivalsOf(k)
<1>1. CASE k = e.key /\ k \in DOMAIN shreds
  <2>1. shreds'[k].arrivals = Append(shreds[k].arrivals, ArrivalOf(e))
        /\ k \in DOMAIN shreds'
    <3>1. shreds'[k] = ModifiedShred(shreds[k], e) /\ k \in DOMAIN shreds'
      BY <1>1, RecordShredEffect
    <3>2. shreds[k] \in ShredRecord
      BY <1>1 DEF RegTypeOK
    <3> QED BY <3>1, <3>2 DEF ModifiedShred, ShredRecord
  <2> QED BY <1>1, <2>1 DEF ArrivalsOf
<1>2. CASE k = e.key /\ k \notin DOMAIN shreds
  <2>1. shreds'[k] = NewShred(e) /\ k \in DOMAIN shreds'
    BY <1>2, RecordShredEffect
  <2>2. Append(<<>>, ArrivalOf(e)) = <<ArrivalOf(e)>>
    OBVIOUS
  <2> QED BY <1>2, <2>1, <2>2 DEF ArrivalsOf, NewShred
<1>3. CASE k # e.key
  BY <1>3, RecordShredEffect DEF ArrivalsOf
<1> QED BY <1>1, <1>2, <1>3

LEMMA ClockAdvances ==
    ASSUME PipeTypeOK, [PipeNext]_pipeVars
    PROVE  now \in Nat /\ now' \in Nat /\ now <= now'
<1>1. now \in Nat
  BY RegistryAssumption DEF PipeTypeOK, ThreadsTyped
<1>2. now' = now \/ now' = now + 1
  BY DEF PipeNext, Tick, Cancel, ListenerCheck, ListenerIdle, ListenerRecv, AggShred,
         AggSlot, AggGrpc, StreamRecv, StreamStop, Send, pipeVars, threadVars
<1> QED BY <1>1, <1>2

(* The times and sources of what is under way.                             *)
LEMMA UnderwayTyped ==
    ASSUME PipeTypeOK, RegTypeOK
    PROVE  /\ \A l \in Listener : \A i \in DOMAIN outbox[l] :
                 /\ outbox[l][i].event.received_at \in Nat
                 /\ outbox[l][i].event.source \in ToSet(Routes[l])
           /\ \A i \in DOMAIN chan["shred"] : chan["shred"][i].received_at \in Nat
           /\ \A k : \A i \in DOMAIN ArrivalsOf(k) : ArrivalsOf(k)[i].at \in Nat
<1>1. ASSUME NEW l \in Listener, NEW i \in DOMAIN outbox[l]
      PROVE  /\ outbox[l][i].event.received_at \in Nat
             /\ outbox[l][i].event.source \in ToSet(Routes[l])
  <2>1. outbox[l] \in Seq(ShredMessage(l))
    BY DEF PipeTypeOK, OutboxTyped
  <2>2. outbox[l][i] \in ShredMessage(l)
    BY <2>1
  <2> QED BY <2>2, RegistryAssumption DEF ShredMessage
<1>2. ASSUME NEW i \in DOMAIN chan["shred"] PROVE chan["shred"][i].received_at \in Nat
  <2>1. chan["shred"] \in Seq(ShredEvent)
    BY DEF PipeTypeOK, ChannelsTyped
  <2>2. chan["shred"][i] \in ShredEvent
    BY <2>1
  <2> QED BY <2>2, RegistryAssumption DEF ShredEvent
<1>3. ASSUME NEW k, NEW i \in DOMAIN ArrivalsOf(k) PROVE ArrivalsOf(k)[i].at \in Nat
  <2>1. ArrivalsOf(k) \in Seq(Arrival)
    BY ArrivalsTyped
  <2>2. ArrivalsOf(k)[i] \in Arrival
    BY <2>1
  <2> QED BY <2>2, RegistryAssumption DEF Arrival
<1> QED BY <1>1, <1>2, <1>3

(* A shred from another listener's outbox is not the listener's own.       *)
LEMMA OthersAreNotOwn ==
    ASSUME NEW l \in Listener, NEW t \in Listener, t # l, NEW src \in ToSet(Routes[t])
    PROVE  ~Own(l, src)
  BY DEF Own, Feeders

\* Nothing of l, of the channel or of the records changes.
LEMMA OrderWhenQuiet ==
    ASSUME PipeTypeOK, RegTypeOK, [PipeNext]_pipeVars, NEW l \in Listener, InOrder(l),
           outbox'[l] = outbox[l], chan'["shred"] = chan["shred"], shreds' = shreds
    PROVE  InOrder(l)'
<1>1. now \in Nat /\ now' \in Nat /\ now <= now'
  BY ClockAdvances
<1>2. /\ \A i \in DOMAIN outbox[l] : outbox[l][i].event.received_at \in Nat
      /\ \A i \in DOMAIN chan["shred"] : chan["shred"][i].received_at \in Nat
      /\ \A k : \A i \in DOMAIN ArrivalsOf(k) : ArrivalsOf(k)[i].at \in Nat
  BY UnderwayTyped
<1>3. \A k : ArrivalsOf(k)' = ArrivalsOf(k)
  BY DEF ArrivalsOf
<1>4. \A t \in Nat : t <= now => t <= now'
  BY <1>1
<1>5. OutboxInOrder(l)'
  BY <1>2, <1>4 DEF InOrder, OutboxInOrder
<1>6. ChannelInOrder(l)'
  BY <1>2, <1>4 DEF InOrder, ChannelInOrder, Own, Feeders
<1>7. RegistryInOrder(l)'
  <2>1. \A t \in Nat : Precedes(t, l) => Precedes(t, l)'
    BY <1>4 DEF Precedes, Own, Feeders
  <2> QED BY <1>2, <1>3, <2>1 DEF InOrder, RegistryInOrder, Own, Feeders
<1> QED BY <1>5, <1>6, <1>7 DEF InOrder

\* l stamps a packet: not before anything of its own on the way.
LEMMA OrderWhenStamped ==
    ASSUME PipeTypeOK, RegTypeOK, NEW l \in Listener, InOrder(l),
           NEW key \in Network, NEW matched, ListenerRecv(l, key, matched)
    PROVE  InOrder(l)'
<1>1. UNCHANGED <<now, chan, shreds>> /\ now \in Nat
  BY RegistryAssumption DEF ListenerRecv, regVars, PipeTypeOK, ThreadsTyped
<1>2. \A i \in DOMAIN outbox'[l] : outbox'[l][i].event.received_at = now
  <2>1. PICK sources \in Seq(ShredSource) :
           outbox'[l] = ShredEvents(sources, key) /\ outbox'[l] # <<>>
    BY RecvFacts
  <2> QED BY <2>1 DEF ShredEvents
<1>3. now <= now
  BY <1>1
<1>4. \A k : ArrivalsOf(k)' = ArrivalsOf(k)
  BY <1>1 DEF ArrivalsOf
<1>5. OutboxInOrder(l)'
  BY <1>1, <1>2, <1>3 DEF OutboxInOrder
<1>6. ChannelInOrder(l)'
  BY <1>1, <1>2 DEF InOrder, ChannelInOrder, Own, Feeders
<1>7. RegistryInOrder(l)'
  <2>1. \A t \in Nat : Precedes(t, l) => Precedes(t, l)'
    BY <1>1, <1>2 DEF Precedes, Own, Feeders
  <2>2. \A k : \A i \in DOMAIN ArrivalsOf(k) : ArrivalsOf(k)[i].at \in Nat
    BY UnderwayTyped
  <2> QED BY <1>4, <2>1, <2>2 DEF InOrder, RegistryInOrder, Own, Feeders
<1> QED BY <1>5, <1>6, <1>7 DEF InOrder

\* l sends the head of its outbox.
LEMMA OrderWhenSent ==
    ASSUME PipeTypeOK, RegTypeOK, NEW l \in Listener, InOrder(l), Send(l)
    PROVE  InOrder(l)'
<1> DEFINE q == chan["shred"]
           e == outbox[l][1].event
           L == Len(q) + 1
<1>1. l \in Thread /\ UNCHANGED <<now, shreds>>
  BY RouteFacts DEF Send, regVars
<1>2. /\ outbox[l] # <<>> /\ outbox[l] \in Seq(ShredMessage(l))
      /\ outbox'[l] = Tail(outbox[l])
      /\ chan'["shred"] = Append(q, Head(outbox[l]).event)
      /\ Head(outbox[l]).event \in ShredEvent
  BY <1>1, SendFacts DEF PipeTypeOK, OutboxTyped
<1>3. /\ 1 \in DOMAIN outbox[l] /\ Head(outbox[l]) = outbox[l][1]
      /\ \A i \in DOMAIN outbox'[l] :
            i + 1 \in DOMAIN outbox[l] /\ outbox'[l][i] = outbox[l][i + 1]
  BY <1>2, TailElements
<1>4. q \in Seq(ShredEvent) /\ e \in ShredEvent
  BY <1>2, <1>3 DEF PipeTypeOK, ChannelsTyped
<1>5. /\ DOMAIN chan'["shred"] = DOMAIN q \cup {L}
      /\ \A i \in DOMAIN q : chan'["shred"][i] = q[i] /\ i < L
      /\ chan'["shred"][L] = e /\ L \notin DOMAIN q
      /\ L \in Nat /\ DOMAIN q \subseteq Nat
  <2>1. chan'["shred"] = Append(q, e)
    BY <1>2, <1>3
  <2>2. Len(q) \in Nat /\ DOMAIN q = 1..Len(q)
    BY <1>4
  <2> HIDE DEF q, e
  <2> QED BY <1>4, <2>1, <2>2, AppendElements
<1>6. /\ \A i \in DOMAIN outbox[l] : outbox[l][i].event.received_at \in Nat
      /\ \A i \in DOMAIN q : q[i].received_at \in Nat
      /\ \A k : \A i \in DOMAIN ArrivalsOf(k) : ArrivalsOf(k)[i].at \in Nat
  BY UnderwayTyped
<1>7. \A k : ArrivalsOf(k)' = ArrivalsOf(k)
  BY <1>1 DEF ArrivalsOf
<1> HIDE DEF L
<1>8. \A i \in DOMAIN outbox[l] : /\ outbox[l][i].event.received_at = e.received_at
                                 /\ e.received_at <= now
  BY <1>3 DEF InOrder, OutboxInOrder
<1>9. OutboxInOrder(l)'
  BY <1>1, <1>3, <1>8 DEF OutboxInOrder
<1>10. \A i \in DOMAIN outbox'[l] : outbox'[l][i].event.received_at = e.received_at
  BY <1>3, <1>8
<1>11. e.received_at \in Nat /\ e.received_at <= now
  BY <1>3, <1>6, <1>8
<1>12. \A i \in DOMAIN q : Own(l, q[i].source) =>
          /\ q[i].received_at <= now
          /\ q[i].received_at <= e.received_at
          /\ \A j \in DOMAIN q : i < j /\ Own(l, q[j].source)
                                    => q[i].received_at <= q[j].received_at
  BY <1>3 DEF InOrder, ChannelInOrder
<1>13. ChannelInOrder(l)'
  <2> SUFFICES ASSUME NEW i \in DOMAIN chan'["shred"], Own(l, chan'["shred"][i].source)
               PROVE  /\ chan'["shred"][i].received_at <= now
                      /\ chan'["shred"][i].received_at <= e.received_at
                      /\ \A j \in DOMAIN chan'["shred"] :
                            i < j /\ Own(l, chan'["shred"][j].source)
                               => chan'["shred"][i].received_at
                                     <= chan'["shred"][j].received_at
    BY <1>1, <1>10 DEF ChannelInOrder, Own, Feeders
  <2> HIDE DEF q, e
  <2>1. CASE i \in DOMAIN q
    BY <1>5, <1>12, <2>1
  <2>2. CASE i = L
    <3>1. \A j \in DOMAIN chan'["shred"] : ~(i < j)
      BY <1>5, <2>2
    <3> QED BY <1>5, <1>11, <2>2, <3>1
  <2> QED BY <1>5, <2>1, <2>2
<1>14. RegistryInOrder(l)'
  <2>1. ASSUME NEW t \in Nat, Precedes(t, l) PROVE Precedes(t, l)'
    <3>1. /\ t <= now /\ t <= e.received_at
          /\ \A j \in DOMAIN q : Own(l, q[j].source) => t <= q[j].received_at
      BY <1>3, <2>1 DEF Precedes
    <3> HIDE DEF q, e
    <3> QED BY <1>1, <1>5, <1>10, <3>1 DEF Precedes, Own, Feeders
  <2> QED BY <1>6, <1>7, <2>1 DEF InOrder, RegistryInOrder, Own, Feeders
<1> QED BY <1>9, <1>13, <1>14 DEF InOrder

\* Another listener sends: the event is none of l's own.
LEMMA OrderWhenOtherSends ==
    ASSUME PipeTypeOK, RegTypeOK, NEW l \in Listener, InOrder(l),
           NEW t \in Listener, t # l, Send(t)
    PROVE  InOrder(l)'
<1> DEFINE q == chan["shred"]
           e == outbox[t][1].event
           L == Len(q) + 1
<1>1. l \in Thread /\ t \in Thread /\ UNCHANGED <<now, shreds>>
  BY RouteFacts DEF Send, regVars
<1>2. /\ outbox[t] # <<>> /\ outbox[t] \in Seq(ShredMessage(t))
      /\ outbox'[l] = outbox[l]
      /\ chan'["shred"] = Append(q, Head(outbox[t]).event)
      /\ Head(outbox[t]).event \in ShredEvent
  BY <1>1, SendFacts DEF PipeTypeOK, OutboxTyped
<1>3. 1 \in DOMAIN outbox[t] /\ Head(outbox[t]) = outbox[t][1]
  BY <1>2, TailElements
<1>4. q \in Seq(ShredEvent) /\ e \in ShredEvent
  BY <1>2, <1>3 DEF PipeTypeOK, ChannelsTyped
<1>5. /\ DOMAIN chan'["shred"] = DOMAIN q \cup {L}
      /\ \A i \in DOMAIN q : chan'["shred"][i] = q[i]
      /\ chan'["shred"][L] = e
  <2>1. chan'["shred"] = Append(q, e)
    BY <1>2, <1>3
  <2> HIDE DEF q, e
  <2> QED BY <1>4, <2>1, AppendElements
<1>6. ~Own(l, e.source)
  <2>1. e.source \in ToSet(Routes[t])
    BY <1>3, UnderwayTyped
  <2> HIDE DEF e
  <2> QED BY <2>1, OthersAreNotOwn
<1> HIDE DEF L, e
<1>7. \A i \in DOMAIN chan'["shred"] : Own(l, chan'["shred"][i].source)
                                      => i \in DOMAIN q /\ chan'["shred"][i] = q[i]
  BY <1>5, <1>6
<1> HIDE DEF q
<1>8. OutboxInOrder(l)'
  BY <1>1, <1>2 DEF InOrder, OutboxInOrder
<1>9. ChannelInOrder(l)'
  BY <1>1, <1>2, <1>7 DEF InOrder, ChannelInOrder, Own, Feeders, q
<1>10. RegistryInOrder(l)'
  <2>1. \A u \in Nat : Precedes(u, l) => Precedes(u, l)'
    BY <1>1, <1>2, <1>7 DEF Precedes, Own, Feeders, q
  <2>2. \A k : \A i \in DOMAIN ArrivalsOf(k) : ArrivalsOf(k)[i].at \in Nat
    BY UnderwayTyped
  <2>3. \A k : ArrivalsOf(k)' = ArrivalsOf(k)
    BY <1>1 DEF ArrivalsOf
  <2> QED BY <2>1, <2>2, <2>3 DEF InOrder, RegistryInOrder, Own, Feeders
<1> QED BY <1>8, <1>9, <1>10 DEF InOrder

\* The aggregator takes the head of the channel and perhaps records it.
LEMMA OrderWhenTaken ==
    ASSUME PipeTypeOK, RegTypeOK, NEW l \in Listener, InOrder(l), AggShred
    PROVE  InOrder(l)'
<1> DEFINE q == chan["shred"]
<1>1. PICK e \in ShredEvent :
         /\ e = Head(q)
         /\ ShredPasses(e.key.slot) => record_shred(e)
         /\ ~ShredPasses(e.key.slot) => UNCHANGED regVars
         /\ UNCHANGED threadVars
  BY AggShredFacts
<1>2. q \in Seq(ShredEvent) /\ q # <<>> /\ chan'["shred"] = Tail(q)
  BY DEF PipeTypeOK, ChannelsTyped, AggShred, Channel
<1>3. UNCHANGED <<now, outbox>>
  BY <1>1 DEF threadVars
<1> HIDE DEF q
<1>4. /\ 1 \in DOMAIN q /\ e = q[1] /\ DOMAIN q \subseteq Nat \ {0}
      /\ \A i \in DOMAIN chan'["shred"] :
            /\ i \in Nat \ {0} /\ i + 1 \in DOMAIN q
            /\ chan'["shred"][i] = q[i + 1]
  <2>1. Tail(q) \in Seq(ShredEvent)
    BY <1>2, HeadAndTail
  <2>2. DOMAIN Tail(q) \subseteq Nat \ {0}
    BY <2>1
  <2> QED BY <1>1, <1>2, <2>2, TailElements
<1>5. OutboxInOrder(l)'
  BY <1>3 DEF InOrder, OutboxInOrder
<1>6. ChannelInOrder(l)'
  <2>1. \A i, j \in Nat : i < j => i + 1 < j + 1
    OBVIOUS
  <2> QED BY <1>3, <1>4, <2>1 DEF InOrder, ChannelInOrder, Own, Feeders, q
<1>7. \A t \in Nat : Precedes(t, l) => Precedes(t, l)'
  BY <1>3, <1>4 DEF Precedes, Own, Feeders, q
<1>8. \A k : \A i \in DOMAIN ArrivalsOf(k) : ArrivalsOf(k)[i].at \in Nat
  BY UnderwayTyped
<1>9. CASE ~ShredPasses(e.key.slot)
  <2>1. \A k : ArrivalsOf(k)' = ArrivalsOf(k)
    BY <1>1, <1>9 DEF regVars, ArrivalsOf
  <2>2. RegistryInOrder(l)'
    BY <1>7, <1>8, <2>1 DEF InOrder, RegistryInOrder, Own, Feeders
  <2> QED BY <1>5, <1>6, <2>2 DEF InOrder
<1>10. CASE ShredPasses(e.key.slot)
  <2>1. Own(l, e.source) => Precedes(e.received_at, l)'
    <3>1. \A i \in DOMAIN chan'["shred"] : i + 1 \in DOMAIN q /\ 1 < i + 1
      BY <1>4
    <3> QED BY <1>3, <1>4, <3>1 DEF InOrder, ChannelInOrder, Precedes, Own, Feeders, q
  <2>2. \A t \in Nat : Precedes(t, l) /\ Own(l, e.source) => t <= e.received_at
    BY <1>4 DEF Precedes, q
  <2>3. ASSUME NEW k \in ShredKey, NEW i \in DOMAIN ArrivalsOf(k)',
               Own(l, (ArrivalsOf(k)')[i].source)
        PROVE  /\ \A t \in Nat : t = (ArrivalsOf(k)')[i].at => Precedes(t, l)'
               /\ (ArrivalsOf(k)')[i].at \in Nat
               /\ \A j \in DOMAIN ArrivalsOf(k)' :
                     i < j /\ Own(l, (ArrivalsOf(k)')[j].source)
                        => (ArrivalsOf(k)')[i].at <= (ArrivalsOf(k)')[j].at
    <3> DEFINE a == ArrivalsOf(k)
               b == ArrivalsOf(k)'
    <3>1. \A m \in DOMAIN a : Own(l, a[m].source) =>
             /\ a[m].at \in Nat /\ Precedes(a[m].at, l)
             /\ \A j \in DOMAIN a : m < j /\ Own(l, a[j].source) => a[m].at <= a[j].at
      BY <1>8 DEF InOrder, RegistryInOrder
    <3>2. a \in Seq(Arrival)
      BY ArrivalsTyped
    <3>3. b = IF k = e.key THEN Append(a, ArrivalOf(e)) ELSE a
      BY <1>1, <1>10, ArrivalsGrow
    <3>4. /\ ArrivalOf(e) \in Arrival /\ e.received_at \in Nat
          /\ ArrivalOf(e).source = e.source /\ ArrivalOf(e).at = e.received_at
      BY RegistryAssumption DEF ArrivalOf, Arrival, ShredEvent
    <3> HIDE DEF a
    <3>5. CASE k # e.key
      BY <1>7, <2>3, <3>1, <3>3, <3>5
    <3>6. CASE k = e.key
      <4> DEFINE L == Len(a) + 1
      <4>1. /\ DOMAIN b = DOMAIN a \cup {L} /\ b[L] = ArrivalOf(e)
            /\ \A m \in DOMAIN a : b[m] = a[m] /\ m < L
            /\ L \in Nat /\ DOMAIN a \subseteq Nat
        <5>1. b = Append(a, ArrivalOf(e))
          BY <3>3, <3>6
        <5>2. Len(a) \in Nat /\ DOMAIN a = 1..Len(a)
          BY <3>2
        <5> QED BY <3>2, <3>4, <5>1, <5>2, AppendElements
      <4> HIDE DEF L, b
      <4>2. CASE i = L
        <5>1. \A j \in DOMAIN b : ~(i < j)
          BY <4>1, <4>2
        <5>2. Own(l, e.source) /\ b[i].at = e.received_at
          BY <2>3, <3>4, <4>1, <4>2 DEF b
        <5> QED BY <2>1, <3>4, <5>1, <5>2 DEF b, Precedes
      <4>3. CASE i \in DOMAIN a
        <5>1. b[i] = a[i] /\ Own(l, a[i].source)
          BY <2>3, <4>1, <4>3 DEF b
        <5>2. /\ a[i].at \in Nat /\ Precedes(a[i].at, l)
              /\ \A j \in DOMAIN a : i < j /\ Own(l, a[j].source) => a[i].at <= a[j].at
          BY <3>1, <4>3, <5>1
        <5>3. \A j \in DOMAIN b : i < j /\ Own(l, b[j].source) => b[i].at <= b[j].at
          BY <2>2, <3>4, <4>1, <5>1, <5>2
        <5> QED BY <1>7, <5>1, <5>2, <5>3 DEF b
      <4> QED BY <2>3, <4>1, <4>2, <4>3 DEF b
    <3> QED BY <3>5, <3>6
  <2>4. RegistryInOrder(l)'
    BY <2>3 DEF RegistryInOrder, Precedes, Own, Feeders
  <2> QED BY <1>5, <1>6, <2>4 DEF InOrder
<1> QED BY <1>9, <1>10

LEMMA InOrderNext ==
    ASSUME PipeTypeOK, RegTypeOK, [PipeNext]_pipeVars, NEW l \in Listener, InOrder(l)
    PROVE  InOrder(l)'
<1>1. l \in Thread /\ l \notin Stream
  BY RouteFacts
<1>2. CASE UNCHANGED <<outbox, chan, shreds>>
  BY <1>2, OrderWhenQuiet
<1>3. CASE Tick \/ Cancel \/ UNCHANGED pipeVars
  BY <1>2, <1>3 DEF Tick, Cancel, pipeVars, threadVars, regVars
<1>4. CASE \E m \in Listener : ListenerCheck(m) \/ ListenerIdle(m)
  BY <1>2, <1>4 DEF ListenerCheck, ListenerIdle, regVars
<1>5. CASE \E s \in Stream : StreamStop(s)
  BY <1>2, <1>5 DEF StreamStop, regVars
<1>6. ASSUME NEW m \in Listener, NEW key \in Network, NEW matched,
             ListenerRecv(m, key, matched)
      PROVE  InOrder(l)'
  <2>1. CASE m = l
    BY <1>6, <2>1, OrderWhenStamped
  <2>2. CASE m # l
    <3>1. outbox'[l] = outbox[l] /\ UNCHANGED <<chan, shreds>>
      BY <1>1, <1>6, <2>2 DEF ListenerRecv, regVars, PipeTypeOK, OutboxTyped
    <3> QED BY <3>1, OrderWhenQuiet
  <2> QED BY <2>1, <2>2
<1>7. ASSUME NEW s \in Stream, NEW slot \in Slot, StreamRecv(s, slot)
      PROVE  InOrder(l)'
  <2>1. outbox'[l] = outbox[l] /\ UNCHANGED <<chan, shreds>>
    BY <1>1, <1>7, StreamRecvFacts DEF StreamRecv, regVars
  <2> QED BY <2>1, OrderWhenQuiet
<1>8. ASSUME NEW t \in Thread, Send(t) PROVE InOrder(l)'
  <2>1. CASE t = l
    BY <1>8, <2>1, OrderWhenSent
  <2>2. CASE t \in Listener /\ t # l
    BY <1>8, <2>2, OrderWhenOtherSends
  <2>3. CASE t \in Stream
    <3>1. outbox'[l] = outbox[l] /\ chan'["shred"] = chan["shred"] /\ shreds' = shreds
      BY <1>1, <1>8, <2>3, SendFacts DEF Send, regVars
    <3> QED BY <3>1, OrderWhenQuiet
  <2> QED BY <2>1, <2>2, <2>3 DEF Thread
<1>9. CASE AggShred
  BY <1>9, OrderWhenTaken
<1>10. CASE AggSlot
  <2>1. chan'["shred"] = chan["shred"] /\ UNCHANGED <<outbox, shreds>>
    BY <1>10, AggSlotFacts DEF threadVars, record_slot_event, regVars
  <2> QED BY <2>1, OrderWhenQuiet
<1>11. CASE AggGrpc
  <2>1. chan'["shred"] = chan["shred"] /\ UNCHANGED <<outbox, shreds>>
    BY <1>11, AggGrpcFacts DEF threadVars, record_grpc_latency
  <2> QED BY <2>1, OrderWhenQuiet
<1> QED BY <1>3, <1>4, <1>5, <1>6, <1>7, <1>8, <1>9, <1>10, <1>11 DEF PipeNext

LEMMA EverySourceIsFedNext ==
    ASSUME PipeTypeOK, RegTypeOK, [PipeNext]_pipeVars, EverySourceIsFed
    PROVE  EverySourceIsFed'
<1>1. /\ \A i \in DOMAIN chan["shred"] : Feeders(chan["shred"][i].source) # {}
      /\ \A k \in ShredKey : \A i \in DOMAIN ArrivalsOf(k) :
            Feeders(ArrivalsOf(k)[i].source) # {}
  BY DEF EverySourceIsFed
<1>2. \A i \in DOMAIN chan'["shred"] : Feeders(chan'["shred"][i].source) # {}
  <2>1. ASSUME NEW l \in Listener, NEW j \in DOMAIN outbox[l]
        PROVE  Feeders(outbox[l][j].event.source) # {}
    BY UnderwayTyped DEF Feeders
  <2> QED BY <1>1, <2>1, ChannelFilledFromOutboxes
<1>3. \A k \in ShredKey : \A i \in DOMAIN ArrivalsOf(k)' :
         Feeders((ArrivalsOf(k)')[i].source) # {}
  <2>1. CASE shreds' = shreds
    BY <1>1, <2>1 DEF ArrivalsOf
  <2>2. ASSUME NEW e \in ShredEvent, record_shred(e), Feeders(e.source) # {},
               NEW k \in ShredKey, NEW i \in DOMAIN ArrivalsOf(k)'
        PROVE  Feeders((ArrivalsOf(k)')[i].source) # {}
    <3> DEFINE a == ArrivalsOf(k)
               b == ArrivalsOf(k)'
    <3>1. /\ a \in Seq(Arrival) /\ ArrivalOf(e) \in Arrival
          /\ ArrivalOf(e).source = e.source
      BY ArrivalsTyped DEF ArrivalOf, Arrival, ShredEvent
    <3>2. b = IF k = e.key THEN Append(a, ArrivalOf(e)) ELSE a
      BY <2>2, ArrivalsGrow
    <3>3. (i \in DOMAIN a /\ b[i] = a[i]) \/ b[i] = ArrivalOf(e)
      <4> HIDE DEF a
      <4> QED BY <2>2, <3>1, <3>2, AppendElements
    <3> QED BY <1>1, <2>2, <3>1, <3>3
  <2>3. CASE AggShred
    <3>1. PICK e \in ShredEvent :
             /\ e = Head(chan["shred"])
             /\ ShredPasses(e.key.slot) => record_shred(e)
             /\ ~ShredPasses(e.key.slot) => UNCHANGED regVars
      BY <2>3, AggShredFacts
    <3>2. Feeders(e.source) # {}
      <4>1. chan["shred"] \in Seq(ShredEvent) /\ chan["shred"] # <<>>
        BY <2>3 DEF PipeTypeOK, ChannelsTyped, AggShred
      <4>2. 1 \in DOMAIN chan["shred"] /\ e = chan["shred"][1]
        BY <3>1, <4>1, TailElements
      <4> QED BY <1>1, <4>2
    <3> QED BY <2>1, <2>2, <3>1, <3>2 DEF regVars
  <2>4. CASE AggSlot
    BY <2>1, <2>4, AggSlotFacts DEF record_slot_event, regVars
  <2>5. CASE AggGrpc
    BY <2>1, <2>5, AggGrpcFacts DEF record_grpc_latency
  <2>6. ASSUME ~AggShred, ~AggSlot, ~AggGrpc PROVE shreds' = shreds
    BY <2>6 DEF PipeNext, Tick, Cancel, ListenerCheck, ListenerIdle, ListenerRecv,
                StreamRecv, StreamStop, Send, pipeVars, regVars
  <2> QED BY <2>1, <2>3, <2>4, <2>5, <2>6
<1> QED BY <1>2, <1>3 DEF EverySourceIsFed, Feeders

LEMMA SocketOrderNext ==
    PipeTypeOK /\ RegTypeOK /\ SocketOrder /\ [PipeNext]_pipeVars => SocketOrder'
  BY InOrderNext, EverySourceIsFedNext DEF SocketOrder

LEMMA SocketOrderInit == PipeInit => SocketOrder
<1> SUFFICES ASSUME PipeInit PROVE SocketOrder
  OBVIOUS
<1>1. DOMAIN chan["shred"] = {}
  BY DEF PipeInit, Channel
<1>2. \A l \in Listener : DOMAIN outbox[l] = {}
  BY DEF PipeInit, Thread
<1>3. \A k : DOMAIN ArrivalsOf(k) = {}
  BY DEF PipeInit, RegInit, EmptyMap, ArrivalsOf
<1> QED BY <1>1, <1>2, <1>3 DEF SocketOrder, EverySourceIsFed, InOrder, OutboxInOrder,
                               ChannelInOrder, RegistryInOrder

LEMMA FirstOfOneSocket ==
    RegTypeOK /\ FirstIsHead /\ SocketOrder => FirstSeenIsEarliestOfSocket
<1> SUFFICES ASSUME RegTypeOK, FirstIsHead, SocketOrder,
                    NEW k \in DOMAIN shreds, Cardinality(SocketsOf(k)) = 1,
                    NEW i \in DOMAIN shreds[k].arrivals
             PROVE  shreds[k].first_seen <= shreds[k].arrivals[i].at
  BY DEF FirstSeenIsEarliestOfSocket
<1> DEFINE a == shreds[k].arrivals
<1>1. k \in ShredKey /\ ArrivalsOf(k) = a /\ a \in Seq(Arrival)
  BY DEF RegTypeOK, ArrivalsOf, ShredRecord
<1>2. PICK l : SocketsOf(k) = {l}
  <2>1. SocketsOf(k) \subseteq Listener
    BY DEF SocketsOf
  <2>2. IsFiniteSet(SocketsOf(k))
    BY <2>1, PipelineAssumption, FS_Subset
  <2> QED BY <2>2, FS_Singleton
<1>3. l \in Listener
  BY <1>2 DEF SocketsOf
<1>4. \A j \in DOMAIN a : Own(l, a[j].source)
  <2>1. ASSUME NEW j \in DOMAIN a PROVE Own(l, a[j].source)
    <3>1. Feeders(a[j].source) # {}
      BY <1>1 DEF SocketOrder, EverySourceIsFed
    <3>2. Feeders(a[j].source) \subseteq SocketsOf(k)
      BY DEF Feeders, SocketsOf
    <3> QED BY <1>2, <3>1, <3>2 DEF Own
  <2> QED BY <2>1
<1>5. /\ a[1] = [source |-> shreds[k].first_source, at |-> shreds[k].first_seen]
      /\ Len(a) > 0
  BY DEF FirstIsHead
<1>6. /\ 1 \in DOMAIN a /\ i \in DOMAIN a /\ i \in Nat /\ (i = 1 \/ 1 < i)
      /\ a[1].at = shreds[k].first_seen /\ a[1].at \in Nat
  <2>1. DOMAIN a = 1..Len(a) /\ Len(a) \in Nat /\ a[1].at = shreds[k].first_seen
    BY <1>1, <1>5
  <2>2. 1 \in DOMAIN a
    BY <1>5, <2>1
  <2>3. a[1] \in Arrival
    BY <1>1, <2>2
  <2>4. a[1].at \in Nat
    BY <2>3, RegistryAssumption DEF Arrival
  <2> QED BY <2>1, <2>2, <2>4
<1>7. i # 1 => a[1].at <= a[i].at
  BY <1>1, <1>3, <1>4, <1>6 DEF SocketOrder, InOrder, RegistryInOrder
<1> HIDE DEF a
<1>8. a[1].at <= a[i].at
  BY <1>6, <1>7
<1> QED BY <1>6, <1>8 DEF a

(* For a shred that came in by one socket only, first_seen is its earliest *)
(* arrival, whatever the number of sources that share the socket.          *)
THEOREM PipelineFirstSeenOfSocket == PipeSpec => []FirstSeenIsEarliestOfSocket
<1> QED BY SocketOrderInit, SocketOrderNext, FirstOfOneSocket, PipelineTypes,
           PipelineImplementsRegistry, RegistryTypes, RegistryFirstIsHead,
           PTL DEF PipeSpec

-----------------------------------------------------------------------------
(* The times of the elements kept of a sequence: what StampsOf, EventsFor  *)
(* and RecordedFor have in common.                                         *)
Mapped(g, s) == [i \in DOMAIN s |-> g[s[i]]]

Extract(g, seq, S) == Mapped(g, Kept(seq, S))

StampTime   == [p \in ShredKey \X Time |-> p[2]]
EventTime   == [e \in ShredEvent |-> e.received_at]
ArrivalTime == [a \in Arrival |-> a.at]

StampSet(key)      == {key} \X Time
EventSet(src, key) == [source : {src}, key : {key}, received_at : Time]
ArrivalSet(src)    == [source : {src}, at : Time]

LEMMA TimeFunctions ==
    /\ StampTime \in [ShredKey \X Time -> Time]
    /\ EventTime \in [ShredEvent -> Time]
    /\ ArrivalTime \in [Arrival -> Time]
    /\ DOMAIN StampTime = ShredKey \X Time
    /\ DOMAIN EventTime = ShredEvent /\ DOMAIN ArrivalTime = Arrival
  BY DEF StampTime, EventTime, ArrivalTime, ShredEvent, Arrival

LEMMA ConcatElements ==
    ASSUME NEW X, NEW s \in Seq(X), NEW t \in Seq(X)
    PROVE  /\ Len(s) \in Nat /\ Len(t) \in Nat
           /\ s \o t \in Seq(X) /\ Len(s \o t) = Len(s) + Len(t)
           /\ \A i \in 1..Len(s) + Len(t) :
                 (s \o t)[i] = IF i <= Len(s) THEN s[i] ELSE t[i - Len(s)]
  OBVIOUS

LEMMA SameElements ==
    ASSUME NEW X, NEW s \in Seq(X), NEW t \in Seq(X), Len(s) = Len(t),
           \A i \in 1..Len(s) : s[i] = t[i]
    PROVE  s = t
  OBVIOUS

LEMMA MappedType ==
    ASSUME NEW X, NEW Y, NEW g \in [X -> Y], NEW q \in Seq(X)
    PROVE  Mapped(g, q) \in Seq(Y)
<1>1. DOMAIN q = 1..Len(q) /\ Len(q) \in Nat /\ \A i \in 1..Len(q) : q[i] \in X
  OBVIOUS
<1>2. Mapped(g, q) \in [1..Len(q) -> Y]
  BY <1>1 DEF Mapped
<1> HIDE DEF Mapped
<1> QED BY <1>1, <1>2

LEMMA MappedConcat ==
    ASSUME NEW X, NEW g, DOMAIN g = X, NEW s \in Seq(X), NEW t \in Seq(X)
    PROVE  Mapped(g, s \o t) = Mapped(g, s) \o Mapped(g, t)
<1> DEFINE Y == {g[x] : x \in X}
<1>1. ASSUME NEW q \in Seq(X)
      PROVE  /\ Mapped(g, q) \in Seq(Y) /\ Len(Mapped(g, q)) = Len(q)
             /\ \A i \in 1..Len(q) : Mapped(g, q)[i] = g[q[i]]
  <2>1. DOMAIN q = 1..Len(q) /\ Len(q) \in Nat /\ \A i \in 1..Len(q) : q[i] \in X
    OBVIOUS
  <2>2. Mapped(g, q) \in [1..Len(q) -> Y]
    BY <2>1 DEF Mapped
  <2>3. \A i \in 1..Len(q) : Mapped(g, q)[i] = g[q[i]]
    BY <2>1 DEF Mapped
  <2> HIDE DEF Mapped, Y
  <2> QED BY <2>1, <2>2, <2>3, SMTT(30)
<1>2. s \o t \in Seq(X)
  OBVIOUS
<1> HIDE DEF Mapped, Y
<1> DEFINE a == Mapped(g, s)
           b == Mapped(g, t)
           c == Mapped(g, s \o t)
<1>3. /\ a \in Seq(Y) /\ b \in Seq(Y) /\ c \in Seq(Y)
      /\ Len(a) = Len(s) /\ Len(b) = Len(t) /\ Len(c) = Len(s \o t)
      /\ \A i \in 1..Len(s) : a[i] = g[s[i]]
      /\ \A i \in 1..Len(t) : b[i] = g[t[i]]
      /\ \A i \in 1..Len(s \o t) : c[i] = g[(s \o t)[i]]
  BY <1>1, <1>2
<1> HIDE DEF a, b, c
<1>4. /\ Len(s) \in Nat /\ Len(t) \in Nat /\ Len(s \o t) = Len(s) + Len(t)
      /\ \A i \in 1..Len(s) + Len(t) :
            (s \o t)[i] = IF i <= Len(s) THEN s[i] ELSE t[i - Len(s)]
  OBVIOUS
<1>5. /\ a \o b \in Seq(Y) /\ Len(a \o b) = Len(s) + Len(t)
      /\ \A i \in 1..Len(s) + Len(t) :
            (a \o b)[i] = IF i <= Len(s) THEN a[i] ELSE b[i - Len(s)]
  <2>1. /\ a \o b \in Seq(Y) /\ Len(a \o b) = Len(a) + Len(b)
    BY <1>3, ConcatElements
  <2>2. \A i \in 1..Len(a) + Len(b) :
           (a \o b)[i] = IF i <= Len(a) THEN a[i] ELSE b[i - Len(a)]
    <3>1. ASSUME NEW u \in Seq(Y), NEW v \in Seq(Y)
          PROVE  \A i \in 1..Len(u) + Len(v) :
                    (u \o v)[i] = IF i <= Len(u) THEN u[i] ELSE v[i - Len(u)]
      OBVIOUS
    <3> QED BY <1>3, <3>1, Zenon
  <2> QED BY <1>3, <2>1, <2>2
<1>6. ASSUME NEW i \in 1..Len(s) + Len(t) PROVE c[i] = (a \o b)[i]
  <2>1. CASE i <= Len(s)
    <3>1. i \in 1..Len(s) /\ i \in 1..Len(s \o t)
      BY <1>4, <2>1
    <3>2. c[i] = g[(s \o t)[i]] /\ (s \o t)[i] = s[i] /\ (a \o b)[i] = a[i]
      BY <1>3, <1>4, <1>5, <2>1, <3>1
    <3> QED BY <1>3, <3>1, <3>2
  <2>2. CASE ~(i <= Len(s))
    <3>1. i - Len(s) \in 1..Len(t) /\ i \in 1..Len(s \o t)
      BY <1>4, <2>2
    <3>2. /\ c[i] = g[(s \o t)[i]] /\ (s \o t)[i] = t[i - Len(s)]
          /\ (a \o b)[i] = b[i - Len(s)]
      BY <1>3, <1>4, <1>5, <2>2, <3>1
    <3> QED BY <1>3, <3>1, <3>2
  <2> QED BY <2>1, <2>2
<1>7. c = a \o b
  <2> DEFINE d == a \o b
  <2>1. d \in Seq(Y) /\ Len(d) = Len(c) /\ \A i \in 1..Len(c) : c[i] = d[i]
    BY <1>3, <1>4, <1>5, <1>6
  <2> HIDE DEF d
  <2>2. c = d
    BY <1>3, <2>1, SameElements
  <2> QED BY <2>2 DEF d
<1> QED BY <1>3, <1>7 DEF a, b, c

\* \o under a name of its own: the SMT backend rewrites equations about \o.
Cat(s, t) == s \o t

LEMMA CatRegroups ==
    ASSUME NEW X, NEW a \in Seq(X), NEW b \in Seq(X), NEW c \in Seq(X), NEW d \in Seq(X)
    PROVE  /\ Cat(Cat(a, b), Cat(c, d)) = Cat(Cat(a, Cat(b, c)), d)
           /\ Cat(Cat(Cat(a, b), c), d) = Cat(Cat(a, Cat(b, c)), d)
           /\ Cat(a, b) \in Seq(X)
<1>1. a \o b \in Seq(X) /\ (a \o b) \o c = a \o (b \o c)
  BY ConcatAssociative
<1>2. ((a \o b) \o c) \o d = (a \o b) \o (c \o d)
  <2> DEFINE u == a \o b
  <2>1. u \in Seq(X)
    BY <1>1
  <2> HIDE DEF u
  <2>2. (u \o c) \o d = u \o (c \o d)
    BY <2>1, ConcatAssociative, SMTT(30)
  <2> QED BY <2>2 DEF u
<1> QED BY <1>1, <1>2 DEF Cat

LEMMA CatEmpty ==
    ASSUME NEW X, NEW a \in Seq(X)
    PROVE  Cat(a, <<>>) = a /\ Cat(<<>>, a) = a
  BY DEF Cat

LEMMA ExtractType ==
    ASSUME NEW X, NEW Y, NEW g \in [X -> Y], NEW s \in Seq(X), NEW S
    PROVE  Extract(g, s, S) \in Seq(Y)
<1>1. Kept(s, S) \in Seq(X)
  BY KeptType
<1> QED BY <1>1, MappedType DEF Extract

LEMMA ExtractConcat ==
    ASSUME NEW X, NEW g, DOMAIN g = X, NEW s \in Seq(X), NEW t \in Seq(X), NEW S
    PROVE  Extract(g, Cat(s, t), S) = Cat(Extract(g, s, S), Extract(g, t, S))
<1>1. Kept(s, S) \in Seq(X) /\ Kept(t, S) \in Seq(X)
  BY KeptType
<1>2. Kept(s \o t, S) = Kept(s, S) \o Kept(t, S)
  BY KeptOfConcat
<1> DEFINE a == Kept(s, S)
           b == Kept(t, S)
<1> HIDE DEF a, b
<1>3. a \in Seq(X) /\ b \in Seq(X)
  BY <1>1 DEF a, b
<1>4. Mapped(g, a \o b) = Mapped(g, a) \o Mapped(g, b)
  BY <1>3, MappedConcat
<1> QED BY <1>2, <1>4 DEF a, b, Extract, Cat

LEMMA ExtractSmall ==
    ASSUME NEW g, NEW S
    PROVE  /\ Extract(g, <<>>, S) = <<>>
           /\ \A x \in DOMAIN g : /\ x \in S => Extract(g, <<x>>, S) = <<g[x]>>
                                  /\ x \notin S => Extract(g, <<x>>, S) = <<>>
<1>1. \A x \in DOMAIN g : Kept(<<x>>, S) = IF x \in S THEN <<x>> ELSE <<>>
  BY KeptOfSingle
<1>2. Mapped(g, <<>>) = <<>> /\ \A x : Mapped(g, <<x>>) = <<g[x]>>
  BY DEF Mapped
<1> QED BY <1>1, <1>2, KeptOfEmpty DEF Extract

LEMMA StampsAsExtract ==
    ASSUME NEW src \in ShredSource, NEW key
    PROVE  /\ stamped[src] \in Seq(ShredKey \X Time)
                => StampsOf(src, key) = Extract(StampTime, stamped[src], StampSet(key))
           /\ stamped'[src] \in Seq(ShredKey \X Time)
                => StampsOf(src, key)' = Extract(StampTime, stamped'[src], StampSet(key))
<1>1. ASSUME NEW q \in Seq(ShredKey \X Time)
      PROVE  LET mine == Kept(q, StampSet(key))
             IN  [i \in DOMAIN mine |-> mine[i][2]] = Extract(StampTime, q, StampSet(key))
  <2> DEFINE mine == Kept(q, StampSet(key))
  <2>1. mine \in Seq(ShredKey \X Time)
    BY KeptType
  <2> HIDE DEF mine
  <2>2. \A i \in DOMAIN mine : StampTime[mine[i]] = mine[i][2]
    <3>1. \A i \in DOMAIN mine : mine[i] \in ShredKey \X Time
      BY <2>1
    <3> QED BY <3>1 DEF StampTime
  <2>3. Mapped(StampTime, mine) = [i \in DOMAIN mine |-> mine[i][2]]
    BY <2>2, Zenon DEF Mapped
  <2> QED BY <2>3 DEF Extract, mine
<1> QED BY <1>1 DEF StampsOf, StampSet

LEMMA EventsAsExtract ==
    ASSUME NEW q \in Seq(ShredEvent), NEW src, NEW key
    PROVE  EventsFor(q, src, key) = Extract(EventTime, q, EventSet(src, key))
<1> DEFINE mine == Kept(q, EventSet(src, key))
<1>2. mine \in Seq(ShredEvent)
  BY KeptType
<1>3. EventsFor(q, src, key) = [i \in DOMAIN mine |-> mine[i].received_at]
  BY DEF EventsFor, EventSet
<1> HIDE DEF mine
<1>4. \A i \in DOMAIN mine : EventTime[mine[i]] = mine[i].received_at
  <2>1. \A i \in DOMAIN mine : mine[i] \in ShredEvent
    BY <1>2
  <2> QED BY <2>1 DEF EventTime
<1>5. Mapped(EventTime, mine) = [i \in DOMAIN mine |-> mine[i].received_at]
  BY <1>4, Zenon DEF Mapped
<1> QED BY <1>3, <1>5 DEF Extract, mine

LEMMA RecordedAsExtract ==
    ASSUME NEW src, NEW key
    PROVE  /\ ArrivalsOf(key) \in Seq(Arrival)
                => RecordedFor(src, key)
                      = Extract(ArrivalTime, ArrivalsOf(key), ArrivalSet(src))
           /\ ArrivalsOf(key)' \in Seq(Arrival)
                => RecordedFor(src, key)'
                      = Extract(ArrivalTime, ArrivalsOf(key)', ArrivalSet(src))
<1> DEFINE Times(q) == LET mine == Kept(q, ArrivalSet(src))
                       IN  [i \in DOMAIN mine |-> mine[i].at]
<1>1. ASSUME NEW q \in Seq(Arrival)
      PROVE  Times(q) = Extract(ArrivalTime, q, ArrivalSet(src))
  <2> DEFINE mine == Kept(q, ArrivalSet(src))
  <2>1. mine \in Seq(Arrival)
    BY KeptType
  <2> HIDE DEF mine
  <2>2. \A i \in DOMAIN mine : ArrivalTime[mine[i]] = mine[i].at
    <3>1. \A i \in DOMAIN mine : mine[i] \in Arrival
      BY <2>1
    <3> QED BY <3>1 DEF ArrivalTime
  <2>3. Mapped(ArrivalTime, mine) = [i \in DOMAIN mine |-> mine[i].at]
    BY <2>2, Zenon DEF Mapped
  <2> QED BY <2>3 DEF Extract, mine
<1>2. Times(<<>>) = <<>>
  <2>1. Kept(<<>>, ArrivalSet(src)) = <<>>
    BY KeptOfEmpty
  <2> QED BY <2>1
<1>3. /\ key \in DOMAIN shreds => RecordedFor(src, key) = Times(shreds[key].arrivals)
      /\ key \in DOMAIN shreds' => RecordedFor(src, key)' = Times(shreds'[key].arrivals)
      /\ key \notin DOMAIN shreds => RecordedFor(src, key) = <<>>
      /\ key \notin DOMAIN shreds' => RecordedFor(src, key)' = <<>>
  BY DEF RecordedFor, ArrivalSet
<1> HIDE DEF Times
<1>4. /\ RecordedFor(src, key) = Times(ArrivalsOf(key))
      /\ RecordedFor(src, key)' = Times(ArrivalsOf(key)')
  BY <1>2, <1>3 DEF ArrivalsOf
<1> QED BY <1>1, <1>4

(* What an outbox holds, as events.                                        *)
LEMMA UnsentTyped ==
    ASSUME PipeTypeOK, NEW l \in Listener
    PROVE  Unsent(l) \in Seq(ShredEvent)
<1>1. outbox[l] \in Seq(ShredMessage(l)) /\ ToSet(Routes[l]) \subseteq ShredSource
  BY RouteFacts DEF PipeTypeOK, OutboxTyped
<1>2. /\ DOMAIN outbox[l] = 1..Len(outbox[l]) /\ Len(outbox[l]) \in Nat
      /\ \A i \in 1..Len(outbox[l]) : outbox[l][i] \in ShredMessage(l)
  BY <1>1
<1>3. \A i \in 1..Len(outbox[l]) : outbox[l][i].event \in ShredEvent
  BY <1>1, <1>2, PipelineAssumption DEF ShredMessage, ShredEvent
<1>4. Unsent(l) \in [1..Len(outbox[l]) -> ShredEvent]
  BY <1>2, <1>3 DEF Unsent
<1> HIDE DEF Unsent
<1> QED BY <1>2, <1>4

LEMMA UnsentLosesHead ==
    ASSUME PipeTypeOK, NEW l \in Listener, Send(l)
    PROVE  /\ Head(outbox[l]).event \in ShredEvent
           /\ Unsent(l)' \in Seq(ShredEvent)
           /\ Unsent(l) = <<Head(outbox[l]).event>> \o Unsent(l)'
<1> DEFINE q == outbox[l]
           r == Tail(q)
           u == Unsent(l)
           v == Unsent(l)'
           e == Head(q).event
<1>1. l \in Thread
  BY RouteFacts
<1>2. q # <<>> /\ outbox'[l] = r /\ e \in ShredEvent /\ q \in Seq(ShredMessage(l))
  BY <1>1, SendFacts DEF PipeTypeOK, OutboxTyped
<1>3. u \in Seq(ShredEvent)
  BY UnsentTyped
<1>4. v = [i \in DOMAIN r |-> r[i].event] /\ u = [i \in DOMAIN q |-> q[i].event]
  BY <1>2 DEF Unsent
<1> HIDE DEF u, v, e
<1>5. /\ DOMAIN q = 1..Len(q) /\ Len(q) \in Nat \ {0} /\ Head(q) = q[1]
      /\ DOMAIN r = 1..Len(q) - 1
      /\ \A i \in 1..Len(q) - 1 : r[i] = q[i + 1]
  BY <1>2
<1> HIDE DEF q, r
<1>6. /\ DOMAIN u = 1..Len(q) /\ \A i \in 1..Len(q) : u[i] = q[i].event
      /\ DOMAIN v = 1..Len(q) - 1 /\ \A i \in 1..Len(q) - 1 : v[i] = u[i + 1]
      /\ Len(u) = Len(q)
  BY <1>3, <1>4, <1>5
<1>7. /\ \A i \in 1..Len(q) - 1 : v[i] \in ShredEvent
      /\ v = [i \in 1..Len(q) - 1 |-> v[i]]
  <2>1. \A i \in 1..Len(q) - 1 : v[i] \in ShredEvent
    <3>1. \A i \in 1..Len(q) - 1 : i + 1 \in 1..Len(u)
      BY <1>5, <1>6
    <3> QED BY <1>3, <1>6, <3>1
  <2>2. v = [i \in DOMAIN r |-> v[i]]
    BY <1>4
  <2> QED BY <1>5, <2>1, <2>2
<1>8. v \in Seq(ShredEvent) /\ Len(v) = Len(q) - 1
  BY <1>5, <1>7
<1>9. u[1] = e
  BY <1>5, <1>6 DEF e
<1>10. u = <<e>> \o v
  <2>1. u = <<Head(u)>> \o Tail(u) /\ Head(u) = u[1]
    <3>1. u # <<>>
      BY <1>3, <1>5, <1>6
    <3> QED BY <1>3, <3>1, HeadAndTail, TailElements
  <2>2. Tail(u) = v
    <3>1. /\ Tail(u) \in Seq(ShredEvent) /\ Len(Tail(u)) = Len(v)
          /\ \A i \in 1..Len(v) : Tail(u)[i] = v[i]
      BY <1>3, <1>5, <1>6, <1>8
    <3> QED BY <1>8, <3>1, SameElements
  <2> QED BY <1>9, <2>1, <2>2
<1> QED BY <1>2, <1>8, <1>10 DEF u, v, e, q

(* NothingLostOrReordered for one source, shred and socket.                *)
Conserved(src, key, l) ==
    StampsOf(src, key) =
        RecordedFor(src, key)
        \o EventsFor(chan["shred"], src, key)
        \o EventsFor(Unsent(l), src, key)

LEMMA ConservedWhenQuiet ==
    ASSUME NEW src, NEW key, NEW l, Conserved(src, key, l),
           stamped'[src] = stamped[src], chan'["shred"] = chan["shred"],
           outbox'[l] = outbox[l], shreds' = shreds
    PROVE  Conserved(src, key, l)'
  BY DEF Conserved, StampsOf, EventsFor, RecordedFor, Unsent

(* The stages as sequences of times.                                       *)
LEMMA StagesTyped ==
    ASSUME PipeTypeOK, RegTypeOK, NEW src \in ShredSource, NEW key, NEW l \in Listener
    PROVE  /\ StampsOf(src, key) \in Seq(Time)
           /\ RecordedFor(src, key) \in Seq(Time)
           /\ EventsFor(chan["shred"], src, key) \in Seq(Time)
           /\ EventsFor(Unsent(l), src, key) \in Seq(Time)
<1>1. StampsOf(src, key) \in Seq(Time)
  <2>1. stamped[src] \in Seq(ShredKey \X Time)
    BY DEF PipeTypeOK, ThreadsTyped
  <2>2. StampsOf(src, key) = Extract(StampTime, stamped[src], StampSet(key))
    BY <2>1, StampsAsExtract
  <2> QED BY <2>1, <2>2, TimeFunctions, ExtractType
<1>2. ASSUME NEW q \in Seq(ShredEvent) PROVE EventsFor(q, src, key) \in Seq(Time)
  <2>1. EventsFor(q, src, key) = Extract(EventTime, q, EventSet(src, key))
    BY EventsAsExtract
  <2> QED BY <2>1, TimeFunctions, ExtractType
<1>3. RecordedFor(src, key) \in Seq(Time)
  <2>1. ArrivalsOf(key) \in Seq(Arrival)
    BY ArrivalsTyped
  <2>2. RecordedFor(src, key) = Extract(ArrivalTime, ArrivalsOf(key), ArrivalSet(src))
    BY <2>1, RecordedAsExtract
  <2> QED BY <2>1, <2>2, TimeFunctions, ExtractType
<1>4. chan["shred"] \in Seq(ShredEvent) /\ Unsent(l) \in Seq(ShredEvent)
  BY UnsentTyped DEF PipeTypeOK, ChannelsTyped
<1> QED BY <1>1, <1>2, <1>3, <1>4

LEMMA EventsOfConcat ==
    ASSUME NEW src, NEW key, NEW s \in Seq(ShredEvent), NEW t \in Seq(ShredEvent)
    PROVE  EventsFor(Cat(s, t), src, key) = Cat(EventsFor(s, src, key), EventsFor(t, src, key))
<1>1. Cat(s, t) \in Seq(ShredEvent)
  BY CatRegroups
<1>2. /\ EventsFor(s, src, key) = Extract(EventTime, s, EventSet(src, key))
      /\ EventsFor(t, src, key) = Extract(EventTime, t, EventSet(src, key))
      /\ EventsFor(Cat(s, t), src, key) = Extract(EventTime, Cat(s, t), EventSet(src, key))
  BY <1>1, EventsAsExtract
<1>3. Extract(EventTime, Cat(s, t), EventSet(src, key))
         = Cat(Extract(EventTime, s, EventSet(src, key)),
               Extract(EventTime, t, EventSet(src, key)))
  BY TimeFunctions, ExtractConcat
<1> QED BY <1>2, <1>3

LEMMA EventsOfNone == \A src, key : EventsFor(<<>>, src, key) = <<>>
<1> SUFFICES ASSUME NEW src, NEW key PROVE EventsFor(<<>>, src, key) = <<>>
  OBVIOUS
<1>1. EventsFor(<<>>, src, key) = Extract(EventTime, <<>>, EventSet(src, key))
  BY EmptyIsSeq, EventsAsExtract
<1> QED BY <1>1, ExtractSmall

LEMMA EventOf ==
    ASSUME NEW src, NEW key, NEW e \in ShredEvent
    PROVE  /\ <<e>> \in Seq(ShredEvent)
           /\ e.source = src /\ e.key = key => EventsFor(<<e>>, src, key) = <<e.received_at>>
           /\ ~(e.source = src /\ e.key = key) => EventsFor(<<e>>, src, key) = <<>>
<1>1. <<e>> \in Seq(ShredEvent)
  OBVIOUS
<1>2. EventsFor(<<e>>, src, key) = Extract(EventTime, <<e>>, EventSet(src, key))
  BY <1>1, EventsAsExtract
<1>3. e \in EventSet(src, key) <=> e.source = src /\ e.key = key
  BY DEF EventSet, ShredEvent
<1>4. EventTime[e] = e.received_at
  BY DEF EventTime
<1>5. /\ e \in EventSet(src, key)
            => Extract(EventTime, <<e>>, EventSet(src, key)) = <<EventTime[e]>>
      /\ e \notin EventSet(src, key)
            => Extract(EventTime, <<e>>, EventSet(src, key)) = <<>>
  <2>1. e \in DOMAIN EventTime
    BY TimeFunctions
  <2> QED BY <2>1, ExtractSmall
<1> QED BY <1>1, <1>2, <1>3, <1>4, <1>5

LEMMA ArrivalTimeOf ==
    ASSUME NEW src, NEW e \in Arrival
    PROVE  /\ e.source = src => Extract(ArrivalTime, <<e>>, ArrivalSet(src)) = <<e.at>>
           /\ e.source # src => Extract(ArrivalTime, <<e>>, ArrivalSet(src)) = <<>>
<1>1. e \in ArrivalSet(src) <=> e.source = src
  BY DEF ArrivalSet, Arrival
<1>2. ArrivalTime[e] = e.at
  BY DEF ArrivalTime
<1>3. /\ e \in ArrivalSet(src)
            => Extract(ArrivalTime, <<e>>, ArrivalSet(src)) = <<ArrivalTime[e]>>
      /\ e \notin ArrivalSet(src)
            => Extract(ArrivalTime, <<e>>, ArrivalSet(src)) = <<>>
  <2>1. e \in DOMAIN ArrivalTime
    BY TimeFunctions
  <2> QED BY <2>1, ExtractSmall
<1> QED BY <1>1, <1>2, <1>3

LEMMA ArrivalTimes ==
    ASSUME NEW src, NEW a \in Seq(Arrival), NEW x \in Arrival
    PROVE  LET S == ArrivalSet(src)
           IN  /\ x.source = src => Extract(ArrivalTime, Append(a, x), S)
                                       = Cat(Extract(ArrivalTime, a, S), <<x.at>>)
               /\ x.source # src => Extract(ArrivalTime, Append(a, x), S)
                                       = Extract(ArrivalTime, a, S)
<1> DEFINE h == <<x>>
           re(q) == Extract(ArrivalTime, q, ArrivalSet(src))
<1>1. Append(a, x) = Cat(a, h) /\ h \in Seq(Arrival)
  BY AppendIsConcat DEF Cat
<1>5. /\ x.source = src => re(h) = <<x.at>>
      /\ x.source # src => re(h) = <<>>
  BY ArrivalTimeOf
<1> HIDE DEF h
<1>6. Extract(ArrivalTime, Cat(a, h), ArrivalSet(src))
         = Cat(Extract(ArrivalTime, a, ArrivalSet(src)),
               Extract(ArrivalTime, h, ArrivalSet(src)))
  BY <1>1, TimeFunctions, ExtractConcat
<1>7. Extract(ArrivalTime, a, ArrivalSet(src)) \in Seq(Time)
  BY TimeFunctions, ExtractType
<1>8. Cat(re(a), <<>>) = re(a)
  <2> HIDE DEF re
  <2>1. re(a) \in Seq(Time)
    BY <1>7 DEF re
  <2> QED BY <2>1, CatEmpty
<1> QED BY <1>1, <1>5, <1>6, <1>8

\* l sends: the event leaves the outbox and is at the end of the channel.
LEMMA ConservedWhenSent ==
    ASSUME PipeTypeOK, RegTypeOK, NEW src \in ShredSource, NEW key, NEW l \in Listener,
           Conserved(src, key, l), Send(l)
    PROVE  Conserved(src, key, l)'
<1> DEFINE e == Head(outbox[l]).event
           q == chan["shred"]
           v == Unsent(l)'
<1>1. l \in Thread /\ UNCHANGED <<stamped, shreds>>
  BY RouteFacts DEF Send, regVars
<1>2. /\ e \in ShredEvent /\ v \in Seq(ShredEvent)
      /\ Unsent(l) = <<e>> \o v
  BY UnsentLosesHead
<1>3. chan'["shred"] = Append(q, e) /\ q \in Seq(ShredEvent)
  BY <1>1, SendFacts DEF PipeTypeOK, ChannelsTyped
<1>4. Append(q, e) = Cat(q, <<e>>) /\ <<e>> \in Seq(ShredEvent)
  <2> HIDE DEF q, e
  <2> QED BY <1>2, <1>3, AppendIsConcat DEF Cat
<1> DEFINE st == StampsOf(src, key)
           re == RecordedFor(src, key)
           ev(s) == EventsFor(s, src, key)
<1>5. /\ st' = st /\ re' = re
      /\ ev(chan["shred"])' = ev(Append(q, e)) /\ ev(Unsent(l))' = ev(v)
  BY <1>1, <1>3 DEF StampsOf, RecordedFor, EventsFor
<1> HIDE DEF q, e, v
<1>6. /\ \A s, t \in Seq(ShredEvent) : ev(Cat(s, t)) = Cat(ev(s), ev(t))
      /\ ev(<<e>>) \in Seq(Time) /\ ev(v) \in Seq(Time)
  <2>1. \A s \in Seq(ShredEvent) : ev(s) \in Seq(Time)
    <3>1. ASSUME NEW s \in Seq(ShredEvent) PROVE ev(s) \in Seq(Time)
      <4>1. EventsFor(s, src, key) = Extract(EventTime, s, EventSet(src, key))
        BY EventsAsExtract
      <4> QED BY <4>1, TimeFunctions, ExtractType
    <3> QED BY <3>1
  <2> QED BY <1>2, <1>4, <2>1, EventsOfConcat
<1>7. re \in Seq(Time) /\ ev(q) \in Seq(Time) /\ st = re \o ev(q) \o ev(Unsent(l))
  BY StagesTyped DEF Conserved, q
<1>8. ev(Append(q, e)) = Cat(ev(q), ev(<<e>>)) /\ ev(Unsent(l)) = Cat(ev(<<e>>), ev(v))
  BY <1>2, <1>3, <1>4, <1>6 DEF q, Cat
<1> HIDE DEF st, re, ev
<1>9. st = (re \o (ev(q) \o ev(<<e>>))) \o ev(v)
  <2>1. st = Cat(Cat(re, ev(q)), Cat(ev(<<e>>), ev(v)))
    BY <1>7, <1>8 DEF Cat
  <2>2. st = Cat(Cat(re, Cat(ev(q), ev(<<e>>))), ev(v))
    BY <1>6, <1>7, <2>1, CatRegroups
  <2> QED BY <2>2 DEF Cat
<1>10. st' = re' \o ev(chan["shred"])' \o ev(Unsent(l))'
  BY <1>5, <1>8, <1>9 DEF Cat
<1> QED BY <1>10 DEF Conserved, st, re, ev

\* Another listener sends: the event is not of this source.
LEMMA ConservedWhenOtherSends ==
    ASSUME PipeTypeOK, RegTypeOK, NEW src \in ShredSource, NEW key, NEW l \in Listener,
           Own(l, src), Conserved(src, key, l), NEW t \in Listener, t # l, Send(t)
    PROVE  Conserved(src, key, l)'
<1> DEFINE e == Head(outbox[t]).event
           q == chan["shred"]
<1>1. l \in Thread /\ t \in Thread /\ UNCHANGED <<stamped, shreds>>
  BY RouteFacts DEF Send, regVars
<1>2. /\ outbox[t] # <<>> /\ outbox[t] \in Seq(ShredMessage(t))
      /\ outbox'[l] = outbox[l]
      /\ chan'["shred"] = Append(q, e) /\ e \in ShredEvent /\ q \in Seq(ShredEvent)
  BY <1>1, SendFacts DEF PipeTypeOK, OutboxTyped, ChannelsTyped
<1>3. e.source # src
  <2>1. 1 \in DOMAIN outbox[t] /\ Head(outbox[t]) = outbox[t][1]
    BY <1>2, TailElements
  <2>2. e.source \in ToSet(Routes[t])
    BY <2>1, UnderwayTyped
  <2> QED BY <2>2, OthersAreNotOwn
<1> DEFINE ev(s) == EventsFor(s, src, key)
<1>4. /\ StampsOf(src, key)' = StampsOf(src, key)
      /\ RecordedFor(src, key)' = RecordedFor(src, key)
      /\ ev(chan["shred"])' = ev(chan'["shred"]) /\ ev(Unsent(l))' = ev(Unsent(l))
  BY <1>1, <1>2 DEF StampsOf, RecordedFor, EventsFor, Unsent
<1>5. ev(chan'["shred"]) = ev(q)
  <2> HIDE DEF q, e
  <2>1. Append(q, e) = Cat(q, <<e>>) /\ <<e>> \in Seq(ShredEvent)
    BY <1>2, AppendIsConcat, EventOf DEF Cat
  <2>2. ev(Cat(q, <<e>>)) = Cat(ev(q), ev(<<e>>))
    BY <1>2, <2>1, EventsOfConcat
  <2>3. ev(<<e>>) = <<>>
    BY <1>2, <1>3, EventOf
  <2>4. ev(q) \in Seq(Time)
    BY StagesTyped DEF q
  <2> HIDE DEF ev
  <2>5. Cat(ev(q), <<>>) = ev(q)
    BY <2>4, CatEmpty
  <2> QED BY <1>2, <2>1, <2>2, <2>3, <2>5
<1> HIDE DEF ev
<1> QED BY <1>4, <1>5 DEF Conserved, ev

\* What the records of a key gain by an event, if it is recorded.
LEMMA RecordedGrows ==
    ASSUME RegTypeOK, NEW src, NEW key, NEW e \in ShredEvent, record_shred(e)
    PROVE  RecordedFor(src, key)' = Cat(RecordedFor(src, key), EventsFor(<<e>>, src, key))
<1> DEFINE a == ArrivalsOf(key)
           b == ArrivalsOf(key)'
           x == ArrivalOf(e)
           re(s) == Extract(ArrivalTime, s, ArrivalSet(src))
<1>1. a \in Seq(Arrival)
  BY ArrivalsTyped
<1>2. x \in Arrival /\ x.at = e.received_at /\ x.source = e.source
  BY DEF ArrivalOf, Arrival, ShredEvent
<1>3. b = IF key = e.key THEN Append(a, x) ELSE a
  BY ArrivalsGrow
<1>4. b \in Seq(Arrival)
  <2>1. Append(a, x) \in Seq(Arrival)
    <3> HIDE DEF a, x
    <3> QED BY <1>1, <1>2
  <2> HIDE DEF a, b, x
  <2> QED BY <1>1, <1>3, <2>1
<1>5. RecordedFor(src, key) = re(a) /\ RecordedFor(src, key)' = re(b)
  BY <1>1, <1>4, RecordedAsExtract
<1> HIDE DEF a, b, x
<1>6. re(a) \in Seq(Time)
  BY <1>1, TimeFunctions, ExtractType
<1>7. /\ e.source = src /\ e.key = key => EventsFor(<<e>>, src, key) = <<e.received_at>>
      /\ ~(e.source = src /\ e.key = key) => EventsFor(<<e>>, src, key) = <<>>
  BY EventOf
<1>8. /\ x.source = src => re(Append(a, x)) = Cat(re(a), <<x.at>>)
      /\ x.source # src => re(Append(a, x)) = re(a)
  BY <1>1, <1>2, ArrivalTimes
<1> HIDE DEF re
<1>9. Cat(re(a), <<>>) = re(a)
  BY <1>6, CatEmpty
<1> QED BY <1>2, <1>3, <1>5, <1>7, <1>8, <1>9

\* The aggregator takes an event: if it is one of these, it is recorded.
LEMMA ConservedWhenTaken ==
    ASSUME PipeTypeOK, RegTypeOK, NEW src \in ShredSource, NEW key \in Network,
           NEW l \in Listener, Conserved(src, key, l), StartSlot = None,
           Wanted(key.slot), AggShred
    PROVE  Conserved(src, key, l)'
<1> DEFINE q == chan["shred"]
           r == chan'["shred"]
<1>1. PICK e \in ShredEvent :
         /\ q = <<e>> \o r /\ r \in Seq(ShredEvent)
         /\ ShredPasses(e.key.slot) => record_shred(e)
         /\ ~ShredPasses(e.key.slot) => UNCHANGED regVars
         /\ UNCHANGED threadVars
  BY AggShredFacts
<1>2. <<e>> \in Seq(ShredEvent)
  OBVIOUS
<1> DEFINE ev(s) == EventsFor(s, src, key)
           st == StampsOf(src, key)
           re == RecordedFor(src, key)
           un == EventsFor(Unsent(l), src, key)
<1>3. st' = st /\ un' = un /\ ev(chan["shred"])' = ev(r)
  BY <1>1 DEF threadVars, StampsOf, EventsFor, Unsent
<1>4. /\ re \in Seq(Time) /\ un \in Seq(Time)
      /\ st = re \o ev(q) \o un
  BY StagesTyped DEF Conserved
<1>5. \A s \in Seq(ShredEvent) : ev(s) \in Seq(Time)
  <2>1. ASSUME NEW s \in Seq(ShredEvent) PROVE ev(s) \in Seq(Time)
    <3>1. EventsFor(s, src, key) = Extract(EventTime, s, EventSet(src, key))
      BY EventsAsExtract
    <3> QED BY <3>1, TimeFunctions, ExtractType
  <2> QED BY <2>1
<1>6. re' = Cat(re, ev(<<e>>))
  <2>1. CASE ShredPasses(e.key.slot)
    BY <1>1, <2>1, RecordedGrows
  <2>2. CASE ~ShredPasses(e.key.slot)
    <3>1. ~(e.source = src /\ e.key = key)
      <4>1. e.key.slot \in Nat
        BY RegistryAssumption DEF ShredEvent, ShredKey
      <4> QED BY <2>2, <4>1, ArmsRecordWanted
    <3>2. ev(<<e>>) = <<>>
      BY <3>1, EventOf
    <3>3. re' = re
      BY <1>1, <2>2 DEF regVars, RecordedFor
    <3> QED BY <1>4, <3>2, <3>3, CatEmpty
  <2> QED BY <2>1, <2>2
<1>7. ev(q) = Cat(ev(<<e>>), ev(r))
  <2>1. q = Cat(<<e>>, r)
    BY <1>1 DEF Cat
  <2> HIDE DEF q, r
  <2>2. ev(Cat(<<e>>, r)) = Cat(ev(<<e>>), ev(r))
    <3> DEFINE h == <<e>>
    <3>1. h \in Seq(ShredEvent)
      BY <1>2
    <3> HIDE DEF h
    <3>2. ev(Cat(h, r)) = Cat(ev(h), ev(r))
      BY <1>1, <3>1, EventsOfConcat
    <3> QED BY <3>2 DEF h
  <2> HIDE DEF ev
  <2> QED BY <2>1, <2>2
<1>8. ev(<<e>>) \in Seq(Time) /\ ev(r) \in Seq(Time)
  BY <1>1, <1>2, <1>5
<1> HIDE DEF ev, st, re, un, q, r
<1>9. st = Cat(Cat(re, Cat(ev(<<e>>), ev(r))), un)
  BY <1>4, <1>7 DEF Cat
<1>10. st = Cat(Cat(Cat(re, ev(<<e>>)), ev(r)), un)
  BY <1>4, <1>8, <1>9, CatRegroups
<1>11. st' = re' \o ev(chan["shred"])' \o un'
  BY <1>3, <1>6, <1>10 DEF Cat
<1> QED BY <1>11 DEF Conserved, st, re, un, ev

LEMMA StampTimes ==
    ASSUME NEW key, NEW s \in Seq(ShredKey \X Time), NEW k \in ShredKey, NEW time \in Time
    PROVE  LET S == StampSet(key)
               longer == Append(s, <<k, time>>)
           IN  /\ k = key => Extract(StampTime, longer, S)
                                = Cat(Extract(StampTime, s, S), <<time>>)
               /\ k # key => Extract(StampTime, longer, S) = Extract(StampTime, s, S)
<1> DEFINE p == <<k, time>>
           st(q) == Extract(StampTime, q, StampSet(key))
<1>1. p \in ShredKey \X Time /\ p \in DOMAIN StampTime
  BY TimeFunctions
<1>2. (p \in StampSet(key) <=> k = key) /\ StampTime[p] = time
  BY <1>1 DEF StampSet, StampTime
<1> HIDE DEF p
<1> DEFINE h == <<p>>
<1>3. Append(s, p) = Cat(s, h) /\ h \in Seq(ShredKey \X Time)
  BY <1>1, AppendIsConcat DEF Cat
<1>4. /\ p \in StampSet(key) => st(h) = <<StampTime[p]>>
      /\ p \notin StampSet(key) => st(h) = <<>>
  BY <1>1, ExtractSmall
<1> HIDE DEF h
<1>5. st(Cat(s, h)) = Cat(st(s), st(h)) /\ st(s) \in Seq(Time)
  BY <1>3, TimeFunctions, ExtractConcat, ExtractType
<1> HIDE DEF st
<1>6. Cat(st(s), <<>>) = st(s)
  BY <1>5, CatEmpty
<1>7. /\ k = key => st(Append(s, p)) = Cat(st(s), <<time>>)
      /\ k # key => st(Append(s, p)) = st(s)
  BY <1>2, <1>3, <1>4, <1>5, <1>6
<1> QED BY <1>7 DEF st, p

(* The events made of a packet, as seen by one source and shred: one if    *)
(* the packet is that shred and the source takes it, none otherwise.       *)
LEMMA EventsOfPacket ==
    ASSUME NEW sources \in Seq(ShredSource), IsInjective(sources),
           NEW key2 \in ShredKey, NEW time \in Time, NEW src, NEW key
    PROVE  LET v == [i \in DOMAIN sources |->
                        [source |-> sources[i], key |-> key2, received_at |-> time]]
           IN  /\ v \in Seq(ShredEvent)
               /\ EventsFor(v, src, key)
                     = IF src \in Range(sources) /\ key = key2 THEN <<time>> ELSE <<>>
<1> DEFINE v == [i \in DOMAIN sources |->
                    [source |-> sources[i], key |-> key2, received_at |-> time]]
           S == EventSet(src, key)
<1>1. /\ DOMAIN sources = 1..Len(sources) /\ Len(sources) \in Nat
      /\ \A i \in DOMAIN sources : sources[i] \in ShredSource
  OBVIOUS
<1>2. \A i \in DOMAIN sources :
         v[i] = [source |-> sources[i], key |-> key2, received_at |-> time]
  OBVIOUS
<1>3. v \in [1..Len(sources) -> ShredEvent]
  BY <1>1 DEF ShredEvent
<1>4. DOMAIN v = DOMAIN sources
  OBVIOUS
<1>5. \A i \in DOMAIN sources :
         /\ v[i] \in S <=> sources[i] = src /\ key2 = key
         /\ v[i].received_at = time
  BY <1>2 DEF EventSet
<1> HIDE DEF v, S
<1>6. v \in Seq(ShredEvent)
  BY <1>1, <1>3
<1>7. EventsFor(v, src, key) = Mapped(EventTime, Kept(v, S))
  BY <1>6, EventsAsExtract DEF Extract, S
<1>8. CASE src \in Range(sources) /\ key = key2
  <2>1. PICK i \in DOMAIN sources : sources[i] = src
    BY <1>8 DEF Range
  <2>2. \A j \in DOMAIN sources : j # i => sources[j] # src
    BY <2>1 DEF IsInjective
  <2>3. Kept(v, S) = <<v[i]>>
    BY <1>4, <1>5, <1>6, <1>8, <2>1, <2>2, KeptOne
  <2>4. EventTime[v[i]] = time
    <3>1. v[i] \in ShredEvent
      BY <1>1, <1>3
    <3> QED BY <1>5, <3>1 DEF EventTime
  <2>5. Mapped(EventTime, <<v[i]>>) = <<EventTime[v[i]]>>
    BY DEF Mapped
  <2> QED BY <1>6, <1>7, <1>8, <2>3, <2>4, <2>5 DEF v
<1>9. CASE ~(src \in Range(sources) /\ key = key2)
  <2>1. \A i \in DOMAIN v : v[i] \notin S
    BY <1>4, <1>5, <1>9 DEF Range
  <2>2. Kept(v, S) = <<>>
    BY <1>6, <2>1, KeptNone
  <2>3. Mapped(EventTime, <<>>) = <<>>
    BY DEF Mapped
  <2> QED BY <1>6, <1>7, <1>9, <2>2, <2>3 DEF v
<1> QED BY <1>8, <1>9

\* l reads a packet: what it adds to the stamps it adds to its outbox.
LEMMA ConservedWhenStamped ==
    ASSUME PipeTypeOK, RegTypeOK, NEW src \in ShredSource, NEW key \in Network,
           NEW l \in Listener, Conserved(src, key, l),
           NEW key2 \in Network, NEW matched, ListenerRecv(l, key2, matched)
    PROVE  Conserved(src, key, l)'
<1>1. PICK sources \in Seq(ShredSource) :
         /\ IsInjective(sources) /\ outbox[l] = <<>> /\ now \in Time
         /\ outbox'[l] = ShredEvents(sources, key2)
         /\ \A s \in ShredSource :
               stamped'[s] = IF s \in Range(sources)
                             THEN Append(stamped[s], <<key2, now>>)
                             ELSE stamped[s]
  BY RecvFacts
<1>2. UNCHANGED <<chan, shreds>>
  BY DEF ListenerRecv, regVars
<1>3. key \in ShredKey /\ key2 \in ShredKey
  BY PipelineAssumption
<1> DEFINE v == [i \in DOMAIN sources |->
                    [source |-> sources[i], key |-> key2, received_at |-> now]]
           ev(s) == EventsFor(s, src, key)
           st == StampsOf(src, key)
           re == RecordedFor(src, key)
<1>4. /\ v \in Seq(ShredEvent)
      /\ ev(v) = IF src \in Range(sources) /\ key = key2 THEN <<now>> ELSE <<>>
  BY <1>1, <1>3, EventsOfPacket, SMTT(30)
<1>5. Unsent(l)' = v
  <2>1. /\ DOMAIN outbox'[l] = DOMAIN sources
        /\ \A i \in DOMAIN sources : outbox'[l][i].event = v[i]
    BY <1>1 DEF ShredEvents
  <2> QED BY <2>1 DEF Unsent
<1>6. ev(Unsent(l)) = <<>>
  <2>1. Unsent(l) = <<>>
    BY <1>1 DEF Unsent
  <2> QED BY <2>1, EventsOfNone
<1>7. /\ re' = re /\ ev(chan["shred"])' = ev(chan["shred"])
      /\ ev(Unsent(l))' = ev(v)
  BY <1>2, <1>5 DEF RecordedFor, EventsFor
<1>8. st \in Seq(Time) /\ re \in Seq(Time) /\ ev(chan["shred"]) \in Seq(Time)
  BY StagesTyped
<1>9. st' = Cat(st, ev(v))
  <2> DEFINE s == stamped[src]
             s2 == stamped'[src]
  <2>1. s \in Seq(ShredKey \X Time) /\ <<key2, now>> \in ShredKey \X Time
    BY <1>1, <1>3 DEF PipeTypeOK, ThreadsTyped
  <2>2. /\ s2 \in Seq(ShredKey \X Time)
        /\ s2 = IF src \in Range(sources) THEN Append(s, <<key2, now>>) ELSE s
    <3>1. s2 = IF src \in Range(sources) THEN Append(s, <<key2, now>>) ELSE s
      BY <1>1
    <3> HIDE DEF s, s2
    <3>2. Append(s, <<key2, now>>) \in Seq(ShredKey \X Time)
      BY <2>1
    <3> QED BY <2>1, <3>1, <3>2
  <2>3. /\ st = Extract(StampTime, s, StampSet(key))
        /\ st' = Extract(StampTime, s2, StampSet(key))
    BY <2>1, <2>2, StampsAsExtract
  <2> HIDE DEF s, s2, st, ev
  <2>4. /\ key2 = key => Extract(StampTime, Append(s, <<key2, now>>), StampSet(key))
                             = Cat(st, <<now>>)
        /\ key2 # key => Extract(StampTime, Append(s, <<key2, now>>), StampSet(key)) = st
    BY <1>1, <1>3, <2>1, <2>3, StampTimes
  <2>5. Cat(st, <<>>) = st
    BY <1>8, CatEmpty
  <2> QED BY <1>4, <2>2, <2>3, <2>4, <2>5
<1>10. st = Cat(Cat(re, ev(chan["shred"])), ev(Unsent(l)))
  BY DEF Conserved, Cat
<1> HIDE DEF st, re, ev, v
<1>11. st' = Cat(Cat(re, ev(chan["shred"])), ev(v))
  <2> DEFINE a == Cat(re, ev(chan["shred"]))
  <2>1. a \in Seq(Time)
    BY <1>8, CatRegroups
  <2> HIDE DEF a
  <2>2. Cat(a, <<>>) = a
    BY <2>1, CatEmpty
  <2> QED BY <1>6, <1>9, <1>10, <2>2 DEF a
<1>12. st' = re' \o ev(chan["shred"])' \o ev(Unsent(l))'
  BY <1>7, <1>11 DEF Cat
<1> QED BY <1>12 DEF Conserved, st, re, ev

\* Another listener reads a packet: none of its sources is this one.
LEMMA ConservedWhenOtherStamps ==
    ASSUME PipeTypeOK, NEW src \in ShredSource, NEW key, NEW l \in Listener, Own(l, src),
           Conserved(src, key, l), NEW t \in Listener, t # l,
           NEW key2 \in Network, NEW matched, ListenerRecv(t, key2, matched)
    PROVE  Conserved(src, key, l)'
<1>1. PICK sources \in Seq(ShredSource) :
         /\ Range(sources) \subseteq ToSet(Routes[t])
         /\ \A u \in Thread : u # t => outbox'[u] = outbox[u]
         /\ \A s \in ShredSource :
               stamped'[s] = IF s \in Range(sources)
                             THEN Append(stamped[s], <<key2, now>>)
                             ELSE stamped[s]
  BY RecvFacts
<1>2. src \notin Range(sources)
  BY <1>1, OthersAreNotOwn
<1>3. stamped'[src] = stamped[src] /\ outbox'[l] = outbox[l]
  BY <1>1, <1>2, RouteFacts
<1>4. UNCHANGED <<chan, shreds>>
  BY DEF ListenerRecv, regVars
<1> QED BY <1>3, <1>4, ConservedWhenQuiet

LEMMA ConservedNext ==
    ASSUME PipeTypeOK, RegTypeOK, [PipeNext]_pipeVars, NEW src \in ShredSource,
           NEW key \in Network, NEW l \in Listener, StartSlot = None, Wanted(key.slot),
           Own(l, src), Conserved(src, key, l)
    PROVE  Conserved(src, key, l)'
<1>1. l \in Thread /\ l \notin Stream
  BY RouteFacts
<1>2. CASE UNCHANGED <<stamped, outbox, chan, shreds>>
  BY <1>2, ConservedWhenQuiet
<1>3. CASE Tick \/ Cancel \/ UNCHANGED pipeVars
  BY <1>2, <1>3 DEF Tick, Cancel, pipeVars, threadVars, regVars
<1>4. CASE \E m \in Listener : ListenerCheck(m) \/ ListenerIdle(m)
  BY <1>2, <1>4 DEF ListenerCheck, ListenerIdle, regVars
<1>5. CASE \E s \in Stream : StreamStop(s)
  BY <1>2, <1>5 DEF StreamStop, regVars
<1>6. ASSUME NEW m \in Listener, NEW key2 \in Network, NEW matched,
             ListenerRecv(m, key2, matched)
      PROVE  Conserved(src, key, l)'
  <2>1. CASE m = l
    BY <1>6, <2>1, ConservedWhenStamped
  <2>2. CASE m # l
    BY <1>6, <2>2, ConservedWhenOtherStamps
  <2> QED BY <2>1, <2>2
<1>7. ASSUME NEW s \in Stream, NEW slot \in Slot, StreamRecv(s, slot)
      PROVE  Conserved(src, key, l)'
  <2>1. outbox'[l] = outbox[l] /\ UNCHANGED <<stamped, chan, shreds>>
    BY <1>1, <1>7, StreamRecvFacts DEF StreamRecv, regVars
  <2> QED BY <2>1, ConservedWhenQuiet
<1>8. ASSUME NEW t \in Thread, Send(t) PROVE Conserved(src, key, l)'
  <2>1. CASE t = l
    BY <1>8, <2>1, ConservedWhenSent
  <2>2. CASE t \in Listener /\ t # l
    BY <1>8, <2>2, ConservedWhenOtherSends
  <2>3. CASE t \in Stream
    <3>1. /\ outbox'[l] = outbox[l] /\ chan'["shred"] = chan["shred"]
          /\ shreds' = shreds /\ stamped' = stamped
      BY <1>1, <1>8, <2>3, SendFacts DEF Send, regVars
    <3> QED BY <3>1, ConservedWhenQuiet
  <2> QED BY <2>1, <2>2, <2>3 DEF Thread
<1>9. CASE AggShred
  BY <1>9, ConservedWhenTaken
<1>10. CASE AggSlot
  <2>1. chan'["shred"] = chan["shred"] /\ UNCHANGED <<stamped, outbox, shreds>>
    BY <1>10, AggSlotFacts DEF threadVars, record_slot_event, regVars
  <2> QED BY <2>1, ConservedWhenQuiet
<1>11. CASE AggGrpc
  <2>1. chan'["shred"] = chan["shred"] /\ UNCHANGED <<stamped, outbox, shreds>>
    BY <1>11, AggGrpcFacts DEF threadVars, record_grpc_latency
  <2> QED BY <2>1, ConservedWhenQuiet
<1> QED BY <1>3, <1>4, <1>5, <1>6, <1>7, <1>8, <1>9, <1>10, <1>11 DEF PipeNext

LEMMA NothingLostNext ==
    PipeTypeOK /\ RegTypeOK /\ NothingLostOrReordered /\ [PipeNext]_pipeVars
        => NothingLostOrReordered'
<1> SUFFICES ASSUME PipeTypeOK, RegTypeOK, NothingLostOrReordered, [PipeNext]_pipeVars,
                    StartSlot = None, NEW src \in ShredSource, NEW key \in Network,
                    NEW l \in Listener, Wanted(key.slot), Own(l, src)
             PROVE  Conserved(src, key, l)'
  BY DEF NothingLostOrReordered, Conserved, Own, Feeders, Wanted
<1>1. Conserved(src, key, l)
  BY DEF NothingLostOrReordered, Conserved, Own
<1> QED BY <1>1, ConservedNext

LEMMA NothingLostInit == PipeInit => NothingLostOrReordered
<1> SUFFICES ASSUME PipeInit, NEW src \in ShredSource, NEW key \in Network,
                    NEW l \in Listener
             PROVE  Conserved(src, key, l)
  BY DEF NothingLostOrReordered, Conserved
<1>1. /\ stamped[src] = <<>> /\ chan["shred"] = <<>> /\ outbox[l] = <<>>
      /\ key \notin DOMAIN shreds
  BY RouteFacts DEF PipeInit, RegInit, EmptyMap, Channel
<1>2. StampsOf(src, key) = <<>>
  <2>1. stamped[src] \in Seq(ShredKey \X Time)
    BY <1>1, EmptyIsSeq
  <2>2. StampsOf(src, key) = Extract(StampTime, <<>>, StampSet(key))
    BY <1>1, <2>1, StampsAsExtract
  <2> QED BY <2>2, ExtractSmall
<1>3. RecordedFor(src, key) = <<>>
  BY <1>1 DEF RecordedFor
<1>4. EventsFor(chan["shred"], src, key) = <<>>
  BY <1>1, EventsOfNone
<1>5. Unsent(l) = <<>>
  BY <1>1 DEF Unsent
<1>6. EventsFor(Unsent(l), src, key) = <<>>
  BY <1>5, EventsOfNone
<1>7. (<<>> \o <<>>) \o <<>> = <<>>
  OBVIOUS
<1> QED BY <1>2, <1>3, <1>4, <1>6, <1>7 DEF Conserved

(* Nothing is lost, duplicated or reordered between a socket and the       *)
(* registry: a source's stamps of a wanted shred are those recorded, then  *)
(* those in the channel, then those its listener has not sent yet.         *)
THEOREM PipelineNothingLost == PipeSpec => []NothingLostOrReordered
<1> QED BY NothingLostInit, NothingLostNext, PipelineTypes, PipelineImplementsRegistry,
           RegistryTypes, PTL DEF PipeSpec
=============================================================================
