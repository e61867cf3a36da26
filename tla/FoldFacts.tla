------------------------------ MODULE FoldFacts ------------------------------
(***************************************************************************)
(* What the proofs of several components need about numbers and folds.     *)
(* Induction is stated with sets in place of predicates, and the step of a *)
(* fold is a function, so that both can be cited with a value.             *)
(***************************************************************************)
EXTENDS Integers, Sequences, SequencesExt, SequenceTheorems, WellFoundedInduction, TLAPS

\* A set of numbers has a least one: what CHOOSE finds where the code takes
\* the first that matches.
LEMMA Least ==
    ASSUME NEW S, S \subseteq Nat, S # {}
    PROVE  \E m \in S : \A n \in S : m <= n
  <1>1. \E m \in S : \A n \in S : ~(<<n, m>> \in OpToRel(<, Nat))
    BY NatLessThanWellFounded, WFMin
  <1>2. PICK m \in S : \A n \in S : ~(<<n, m>> \in OpToRel(<, Nat))
    BY <1>1
  <1>3. ASSUME NEW n \in S, n < m
        PROVE  FALSE
    <2>1. <<n, m>> \in Nat \X Nat
      OBVIOUS
    <2>2. <<n, m>> \in OpToRel(<, Nat)
      BY <1>3, <2>1 DEF OpToRel
    <2> QED BY <1>2, <2>2
  <1>4. \A n \in S : n \in Nat /\ m \in Nat /\ ~(n < m)
    BY <1>3
  <1> QED BY <1>4

\* Induction up to a bound.
LEMMA UpTo ==
    ASSUME NEW n \in Nat, NEW S, 0 \in S,
           \A k \in 0 .. n - 1 : k \in S => k + 1 \in S
    PROVE  0 .. n \subseteq S
  <1> DEFINE out == (0 .. n) \ S
  <1>1. SUFFICES ASSUME out # {}
                 PROVE  FALSE
    OBVIOUS
  <1>2. PICK m \in out : \A k \in out : m <= k
    <2>1. out \subseteq Nat
      OBVIOUS
    <2> HIDE DEF out
    <2> QED BY <1>1, <2>1, Least
  <1>3. m \in 0 .. n /\ m # 0 /\ m - 1 \in 0 .. n - 1
    OBVIOUS
  <1>4. m - 1 \in S
    BY <1>2, <1>3
  <1>5. (m - 1) + 1 \in S
    BY <1>3, <1>4
  <1> QED BY <1>2, <1>3, <1>5

\* Max finds the greatest of the first numbers.
LEMMA Greatest ==
    ASSUME NEW n \in Nat, NEW S, S \subseteq 0 .. n, S # {}
    PROVE  Max(S) \in S /\ \A x \in S : x <= Max(S)
  <1> DEFINE gaps == {n - x : x \in S}
  <1>1. PICK g \in gaps : \A h \in gaps : g <= h
    <2>1. gaps \subseteq Nat /\ gaps # {}
      OBVIOUS
    <2> HIDE DEF gaps
    <2> QED BY <2>1, Least
  <1>2. PICK m \in S : g = n - m
    BY <1>1
  <1>3. \A x \in S : m >= x
    <2>1. ASSUME NEW x \in S
          PROVE  m >= x
      <3>1. n - x \in gaps /\ x \in 0 .. n /\ m \in 0 .. n
        OBVIOUS
      <3> QED BY <1>1, <1>2, <3>1
    <2> QED BY <2>1
  <1>4. Max(S) \in S /\ \A x \in S : Max(S) >= x
    BY <1>3 DEF Max
  <1>5. S \subseteq Int
    OBVIOUS
  <1> QED BY <1>4, <1>5

LEMMA MaxOfInterval ==
    ASSUME NEW k \in Nat, k > 0
    PROVE  Max(1 .. k) = k /\ (1 .. k) \ {k} = 1 .. k - 1
  <1>1. 1 .. k \subseteq 0 .. k /\ k \in 1 .. k
    OBVIOUS
  <1>2. Max(1 .. k) \in 1 .. k /\ \A x \in 1 .. k : x <= Max(1 .. k)
    BY <1>1, Greatest
  <1> QED BY <1>1, <1>2

\* The table that MapThenFoldSet chooses when FoldLeft calls it, for a step
\* that is a function, exists.
Steps(n, V) == [(1 .. n) \X V -> V]

FoldsBy(table, n, V, base, step) ==
    /\ table \in [SUBSET (1 .. n) -> V]
    /\ \A t \in SUBSET (1 .. n) :
         table[t] = IF t = {} THEN base ELSE step[<<Max(t), table[t \ {Max(t)}]>>]

LEMMA FoldTable ==
    ASSUME NEW n \in Nat, NEW V, NEW base \in V, NEW step \in Steps(n, V)
    PROVE  \E table : FoldsBy(table, n, V, base, step)
  <1> USE DEF Steps, FoldsBy
  <1> DEFINE Table(m, table) ==
               /\ table \in [SUBSET (1 .. m) -> V]
               /\ \A t \in SUBSET (1 .. m) :
                    table[t] = IF t = {} THEN base
                               ELSE step[<<Max(t), table[t \ {Max(t)}]>>]
             built == {m \in 0 .. n : \E table : Table(m, table)}
  <1>1. 0 \in built
    <2>1. Table(0, [t \in SUBSET (1 .. 0) |-> base])
      OBVIOUS
    <2>2. 0 \in 0 .. n
      OBVIOUS
    <2> HIDE DEF Table
    <2> QED BY <2>1, <2>2
  <1>2. ASSUME NEW m \in 0 .. n - 1, m \in built
        PROVE  m + 1 \in built
    <2>1. PICK old : Table(m, old)
      BY <1>2
    <2> DEFINE new == [t \in SUBSET (1 .. m + 1) |->
                         IF m + 1 \in t THEN step[<<m + 1, old[t \ {m + 1}]>>]
                         ELSE old[t]]
    <2>2. \A t \in SUBSET (1 .. m + 1) : t \ {m + 1} \in SUBSET (1 .. m)
      OBVIOUS
    <2>3. \A t \in SUBSET (1 .. m + 1) : m + 1 \notin t => t \in SUBSET (1 .. m)
      OBVIOUS
    <2>4. new \in [SUBSET (1 .. m + 1) -> V]
      <3>1. ASSUME NEW t \in SUBSET (1 .. m + 1)
            PROVE  (IF m + 1 \in t THEN step[<<m + 1, old[t \ {m + 1}]>>] ELSE old[t]) \in V
        <4>1. CASE m + 1 \in t
          <5>1. old[t \ {m + 1}] \in V
            BY <2>1, <2>2
          <5>2. m + 1 \in 1 .. n
            OBVIOUS
          <5> QED BY <4>1, <5>1, <5>2
        <4>2. CASE m + 1 \notin t
          BY <2>1, <2>3, <4>2
        <4> QED BY <4>1, <4>2
      <3> QED BY <3>1
    <2>5. ASSUME NEW t \in SUBSET (1 .. m + 1)
          PROVE  new[t] = IF t = {} THEN base
                          ELSE step[<<Max(t), new[t \ {Max(t)}]>>]
      <3>1. CASE t = {}
        <4>1. new[t] = old[t] /\ t \in SUBSET (1 .. m)
          BY <3>1
        <4> QED BY <2>1, <3>1, <4>1
      <3>2. CASE t # {} /\ m + 1 \notin t
        <4>1. t \in SUBSET (1 .. m) /\ t \ {Max(t)} \in SUBSET (1 .. m)
          BY <2>3, <3>2
        <4>2. new[t] = old[t] /\ new[t \ {Max(t)}] = old[t \ {Max(t)}]
          BY <3>2, <4>1
        <4> HIDE DEF new
        <4> QED BY <2>1, <3>2, <4>1, <4>2
      <3>3. CASE m + 1 \in t
        <4>1. Max(t) = m + 1
          <5>1. t \subseteq 0 .. m + 1 /\ t # {} /\ m + 1 \in Nat
            BY <3>3
          <5>2. Max(t) \in t /\ \A x \in t : x <= Max(t)
            BY <5>1, Greatest
          <5>3. Max(t) \in 0 .. m + 1 /\ m + 1 <= Max(t)
            BY <3>3, <5>1, <5>2
          <5> QED BY <5>3
        <4>2. /\ new[t] = step[<<m + 1, old[t \ {m + 1}]>>]
              /\ t \ {m + 1} \in SUBSET (1 .. m + 1)
              /\ new[t \ {m + 1}] = old[t \ {m + 1}]
          BY <3>3
        <4> HIDE DEF new
        <4> QED BY <3>3, <4>1, <4>2
      <3> QED BY <3>1, <3>2, <3>3
    <2>6. m + 1 \in 0 .. n
      OBVIOUS
    <2> HIDE DEF new
    <2> QED BY <2>4, <2>5, <2>6
  <1>3. 0 .. n \subseteq built
    <2> HIDE DEF built
    <2> QED BY <1>1, <1>2, UpTo
  <1>4. \E table : Table(n, table)
    <2>1. n \in 0 .. n
      OBVIOUS
    <2> HIDE DEF Table
    <2> QED BY <1>3, <2>1
  <1> QED BY <1>4

\* The results of a fold after each element.
Results(f, n, V, base, step, result) ==
    /\ f \in [0 .. n -> V] /\ f[0] = base /\ f[n] = result
    /\ \A k \in 1 .. n : f[k] = step[<<k, f[k - 1]>>]

Follows(table, n, V, base, step) ==
    /\ table[{}] = base
    /\ \A k \in 1 .. n :
         table[1 .. k - 1] \in V => table[1 .. k] = step[<<k, table[1 .. k - 1]>>]

LEMMA FoldSoFar ==
    ASSUME NEW n \in Nat, NEW V, NEW base \in V, NEW step \in Steps(n, V),
           NEW table, Follows(table, n, V, base, step)
    PROVE  \E f : Results(f, n, V, base, step, table[1 .. n])
  <1> DEFINE f == [k \in 0 .. n |-> table[1 .. k]]
             good == {k \in 0 .. n : f[k] \in V}
  <1>1. f[0] = base
    <2>1. 1 .. 0 = {} /\ 0 \in 0 .. n
      OBVIOUS
    <2> QED BY <2>1 DEF Follows
  <1>2. ASSUME NEW k \in 1 .. n, f[k - 1] \in V
        PROVE  f[k] \in V /\ f[k] = step[<<k, f[k - 1]>>]
    <2>1. k - 1 \in 0 .. n /\ k \in 0 .. n
      OBVIOUS
    <2>2. f[k] = step[<<k, f[k - 1]>>]
      BY <1>2, <2>1 DEF Follows
    <2>3. <<k, f[k - 1]>> \in (1 .. n) \X V
      BY <1>2
    <2> QED BY <2>2, <2>3 DEF Steps
  <1>3. 0 .. n \subseteq good
    <2>1. 0 \in good
      BY <1>1
    <2>2. ASSUME NEW k \in 0 .. n - 1, k \in good
          PROVE  k + 1 \in good
      <3>1. k + 1 \in 1 .. n /\ (k + 1) - 1 = k /\ k + 1 \in 0 .. n
        OBVIOUS
      <3> HIDE DEF f
      <3> QED BY <1>2, <2>2, <3>1
    <2> HIDE DEF good
    <2> QED BY <2>1, <2>2, UpTo
  <1>4. ASSUME NEW k \in 1 .. n
        PROVE  f[k] = step[<<k, f[k - 1]>>]
    <2>1. k - 1 \in 0 .. n
      OBVIOUS
    <2> HIDE DEF f
    <2> QED BY <1>2, <1>3, <2>1
  <1>5. f \in [0 .. n -> V] /\ f[n] = table[1 .. n]
    BY <1>3
  <1> HIDE DEF f
  <1> QED BY <1>1, <1>4, <1>5 DEF Results

\* The same table, as the element that a step takes and the result it takes up.
FoldsElements(table, n, V, base, step) ==
    /\ table = [t \in SUBSET (1 .. n) |-> table[t]] /\ table[{}] = base
    /\ \A t \in SUBSET (1 .. n) : t # {} =>
         /\ Max(t) \in 1 .. n /\ table[t \ {Max(t)}] \in V
         /\ table[t] = step[<<Max(t), table[t \ {Max(t)}]>>]

LEMMA FoldElements ==
    ASSUME NEW n \in Nat, NEW V, NEW base \in V, NEW step \in Steps(n, V)
    PROVE  \E table : FoldsElements(table, n, V, base, step)
  <1>1. PICK table : FoldsBy(table, n, V, base, step)
    BY FoldTable
  <1>2. ASSUME NEW t \in SUBSET (1 .. n), t # {}
        PROVE  Max(t) \in 1 .. n /\ table[t \ {Max(t)}] \in V
    <2>1. t \subseteq 0 .. n
      OBVIOUS
    <2>2. Max(t) \in t
      BY <1>2, <2>1, Greatest
    <2> QED BY <1>1, <2>2 DEF FoldsBy
  <1>3. FoldsElements(table, n, V, base, step)
    BY <1>1, <1>2 DEF FoldsBy, FoldsElements
  <1> QED BY <1>3

\* Of a set that every step stays in, a fold returns an element.
LEMMA FoldStays ==
    ASSUME NEW n \in Nat, NEW V, NEW base \in V, NEW step \in Steps(n, V),
           NEW table, table[{}] = base,
           \A t \in SUBSET (1 .. n) :
             t # {} /\ Max(t) \in 1 .. n /\ table[t \ {Max(t)}] \in V
               => table[t] = step[<<Max(t), table[t \ {Max(t)}]>>]
    PROVE  /\ table[1 .. n] \in V
           /\ \E f : Results(f, n, V, base, step, table[1 .. n])
  <1>1. ASSUME NEW k \in 1 .. n, table[1 .. k - 1] \in V
        PROVE  table[1 .. k] = step[<<k, table[1 .. k - 1]>>]
    <2>1. k \in 1 .. k /\ 1 .. k \subseteq 1 .. n /\ k > 0 /\ k \in Nat
      OBVIOUS
    <2>2. Max(1 .. k) = k /\ (1 .. k) \ {k} = 1 .. k - 1
      BY <2>1, MaxOfInterval
    <2> QED BY <1>1, <2>1, <2>2
  <1>2. Follows(table, n, V, base, step)
    BY <1>1 DEF Follows
  <1>3. PICK f : Results(f, n, V, base, step, table[1 .. n])
    BY <1>2, FoldSoFar
  <1>4. n \in 0 .. n
    OBVIOUS
  <1> QED BY <1>3, <1>4 DEF Results

\* One element of a sequence.
LEMMA OneOf ==
    ASSUME NEW S, NEW s \in Seq(S), NEW k \in 1 .. Len(s)
    PROVE  SubSeq(s, k, k) = <<s[k]>>
  <1>1. Len(s) \in Nat /\ k \in Int /\ s[k] \in S
    BY LenProperties, ElementOfSeq
  <1>2. \A i \in k .. k : s[i] \in S
    BY <1>1
  <1>3. /\ SubSeq(s, k, k) \in Seq(S) /\ Len(SubSeq(s, k, k)) = 1
        /\ SubSeq(s, k, k)[1] = s[k]
    BY <1>1, <1>2, SubSeqProperties
  <1>4. <<s[k]>> \in Seq(S) /\ Len(<<s[k]>>) = 1 /\ <<s[k]>>[1] = s[k]
    BY <1>1
  <1>5. \A i \in 1 .. Len(SubSeq(s, k, k)) : SubSeq(s, k, k)[i] = <<s[k]>>[i]
    BY <1>3, <1>4
  <1> QED BY <1>3, <1>4, <1>5, SeqEqual

=============================================================================
