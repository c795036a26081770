-------------------------- MODULE ExecutionProofs --------------------------
(***************************************************************************)
(* What execute_block computes from any body and any parent: the loop is   *)
(* a fold over the body, and its accumulator after i transactions is       *)
(* described by the first i transactions alone.  In particular the test    *)
(* for a repeated transaction decides nothing that the nonces do not.      *)
(***************************************************************************)
EXTENDS LedgerProperties, FoldLemmas

\* The positions up to i at which s is the sender, and those that write k.
SentUpTo(txs, i, s)    == {j \in 1 .. i : txs[j].sender = s}
WritesUpTo(txs, i, k)  == {j \in 1 .. i : txs[j].key = k}

\* The transaction at i is the next one of its sender, whose nonces are given,
\* and the first n transactions all are.
NextOfSender(txs, nonces, i) ==
    /\ txs[i] \notin Malformed
    /\ Owner[txs[i].key] = txs[i].sender
    /\ txs[i].nonce = nonces[txs[i].sender] + Cardinality(SentUpTo(txs, i - 1, txs[i].sender))

Accepted(txs, nonces, n) == \A i \in 1 .. n : NextOfSender(txs, nonces, i)

\* State and nonces after the first n transactions.
ValueAfter(txs, state, n, k) ==
    IF WritesUpTo(txs, n, k) = {} THEN state[k] ELSE txs[Max(WritesUpTo(txs, n, k))].value

StateAfter(txs, state, n) == [k \in Keys |-> ValueAfter(txs, state, n, k)]

NoncesAfter(txs, nonces, n) == [s \in Senders |-> nonces[s] + Cardinality(SentUpTo(txs, n, s))]

-----------------------------------------------------------------------------
(* The fold *)

\* The largest element of a set of integers.
LEMMA MaxIs ==
    ASSUME NEW S, NEW m \in S, \A y \in S : y \in Int /\ m >= y
    PROVE  Max(S) = m
<1>1. \A x \in S : (\A y \in S : x >= y) => x = m
  OBVIOUS
<1> QED
  BY <1>1 DEF Max

\* A set of positions up to n + 1 is one up to n, or has n + 1 as its largest.
LEMMA LastPosition ==
    ASSUME NEW n \in Nat, NEW s \in SUBSET (1 .. n + 1), s \notin SUBSET (1 .. n)
    PROVE  n + 1 \in s /\ Max(s) = n + 1 /\ s \ {n + 1} \in SUBSET (1 .. n)
<1>1. n + 1 \in s /\ \A y \in s : y \in Int /\ n + 1 >= y
  OBVIOUS
<1>2. Max(s) = n + 1
  BY <1>1, MaxIs
<1>3. s \ {n + 1} \in SUBSET (1 .. n)
  OBVIOUS
<1> QED
  BY <1>1, <1>2, <1>3

\* it gives the accumulator after the transactions at each set of positions.
Folds(it, b, txs) ==
    it = [s \in SUBSET DOMAIN txs |->
            IF s = {} THEN b ELSE ApplyTx(it[s \ {Max(s)}], txs[Max(s)])]

\* FoldLeft evaluates such a function.
LEMMA FoldIsFolds ==
    ASSUME NEW b, NEW txs
    PROVE  FoldLeft(ApplyTx, b, txs) = (CHOOSE it : Folds(it, b, txs))[DOMAIN txs]
  BY DEF FoldLeft, MapThenFoldSet, Folds

\* The recursion of the fold has a solution.
LEMMA FoldsExist ==
    ASSUME NEW b, NEW txs, NEW N \in Nat, DOMAIN txs = 1 .. N
    PROVE  \E it : Folds(it, b, txs)
<1> DEFINE Value(it, s) == IF s = {} THEN b ELSE ApplyTx(it[s \ {Max(s)}], txs[Max(s)])
           UpTo(it, n) == \A s \in SUBSET (1 .. n) : it[s] = Value(it, s)
           T == {n \in Nat : \E it : UpTo(it, n)}
<1>1. 0 \in T
  <2> DEFINE it == [s \in {{}} |-> b]
  <2>1. UpTo(it, 0)
    OBVIOUS
  <2> QED
    BY <2>1
<1>2. ASSUME NEW n \in T PROVE n + 1 \in T
  <2>0. n \in Nat /\ n + 1 \in Nat
    OBVIOUS
  <2>1. PICK g : UpTo(g, n)
    OBVIOUS
  <2> DEFINE h == [s \in SUBSET (1 .. n + 1) |-> IF s \in SUBSET (1 .. n) THEN g[s] ELSE Value(g, s)]
  <2>2. ASSUME NEW s \in SUBSET (1 .. n + 1) PROVE h[s] = Value(h, s)
    <3>0. h[s] = Value(g, s)
      BY <2>1
    <3>1. CASE s = {}
      BY <3>0, <3>1
    <3>2. CASE s # {}
      <4>1. s \ {Max(s)} \in SUBSET (1 .. n)
        BY <2>0, LastPosition
      <4>2. h[s \ {Max(s)}] = g[s \ {Max(s)}]
        BY <2>0, <4>1
      <4> QED
        BY <3>0, <3>2, <4>2
    <3> QED
      BY <3>1, <3>2
  <2>3. UpTo(h, n + 1)
    <3> HIDE DEF h, Value
    <3> QED
      BY <2>2
  <2> HIDE DEF UpTo, h
  <2> QED
    BY <2>0, <2>3
<1>3. N \in T
  <2> HIDE DEF T
  <2> QED
    BY <1>1, <1>2, Induction DEF T
<1>4. PICK g : UpTo(g, N)
  BY <1>3
<1> DEFINE it == [s \in SUBSET (1 .. N) |-> g[s]]
<1>5. \A s \in SUBSET (1 .. N) : it[s] = Value(it, s)
  BY <1>4
<1>6. Folds(it, b, txs)
  BY <1>5, Zenon DEF Folds
<1> QED
  BY <1>6

\* acc[i] is the accumulator after the first i transactions.
IsRun(acc, b, txs) ==
    acc[0] = b /\ \A i \in 1 .. Len(txs) : acc[i] = ApplyTx(acc[i - 1], txs[i])

\* The loop of execute_block goes through the body from its first transaction.
LEMMA FoldIsRun ==
    ASSUME NEW b, NEW txs, Len(txs) \in Nat, DOMAIN txs = 1 .. Len(txs)
    PROVE  \E acc : IsRun(acc, b, txs) /\ FoldLeft(ApplyTx, b, txs) = acc[Len(txs)]
<1> DEFINE it == CHOOSE it : Folds(it, b, txs)
           N == Len(txs)
           acc == [i \in 0 .. N |-> it[1 .. i]]
<1>1. Folds(it, b, txs)
  BY FoldsExist
<1>2. FoldLeft(ApplyTx, b, txs) = it[1 .. N]
  BY FoldIsFolds
<1> HIDE DEF it
<1>3. acc[0] = b
  <2>1. 1 .. 0 = {} /\ {} \in SUBSET DOMAIN txs
    OBVIOUS
  <2>2. it[{}] = b
    BY <1>1, <2>1 DEF Folds
  <2> QED
    BY <2>1, <2>2
<1>4. ASSUME NEW i \in 1 .. N PROVE acc[i] = ApplyTx(acc[i - 1], txs[i])
  <2>1. i \in 1 .. i /\ \A y \in 1 .. i : y \in Int /\ i >= y
    OBVIOUS
  <2>2. Max(1 .. i) = i
    BY <2>1, MaxIs
  <2>3. (1 .. i) \ {i} = 1 .. i - 1
    OBVIOUS
  <2>4. 1 .. i # {} /\ 1 .. i \in SUBSET DOMAIN txs
    <3>1. \A y \in 1 .. i : y \in 1 .. N
      OBVIOUS
    <3>2. 1 .. i \subseteq 1 .. N
      BY <3>1
    <3> QED
      BY <2>1, <3>2
  <2>5. it[1 .. i] = ApplyTx(it[1 .. i - 1], txs[i])
    BY <1>1, <2>2, <2>3, <2>4 DEF Folds
  <2> QED
    BY <2>5
<1>5. acc[N] = it[1 .. N]
  OBVIOUS
<1> HIDE DEF acc
<1> QED
  BY <1>2, <1>3, <1>4, <1>5 DEF IsRun

-----------------------------------------------------------------------------
(* Counting transactions *)

\* A count is a natural number, and zero at first.
LEMMA CountType ==
    ASSUME NEW txs, NEW n \in Nat, NEW s
    PROVE  Cardinality(SentUpTo(txs, n, s)) \in Nat
<1>1. IsFiniteSet(1 .. n) /\ SentUpTo(txs, n, s) \subseteq 1 .. n
  BY FS_Interval DEF SentUpTo
<1> QED
  BY <1>1, FS_Subset, FS_CardinalityType

LEMMA CountStart ==
    ASSUME NEW txs, NEW s
    PROVE  Cardinality(SentUpTo(txs, 0, s)) = 0
<1>1. SentUpTo(txs, 0, s) = {}
  BY DEF SentUpTo
<1> QED
  BY <1>1, FS_EmptySet

\* One position more is one transaction more of its sender.
LEMMA CountNext ==
    ASSUME NEW txs, NEW n \in Nat, NEW s
    PROVE  Cardinality(SentUpTo(txs, n + 1, s)) =
             Cardinality(SentUpTo(txs, n, s)) + (IF txs[n + 1].sender = s THEN 1 ELSE 0)
<1>1. IsFiniteSet(1 .. n) /\ SentUpTo(txs, n, s) \subseteq 1 .. n
  BY FS_Interval DEF SentUpTo
<1>2. IsFiniteSet(SentUpTo(txs, n, s)) /\ Cardinality(SentUpTo(txs, n, s)) \in Nat
  BY <1>1, FS_Subset, FS_CardinalityType
<1>4. 1 .. n + 1 = (1 .. n) \cup {n + 1} /\ n + 1 \notin SentUpTo(txs, n, s)
  BY <1>1
<1>5. SentUpTo(txs, n + 1, s) =
        SentUpTo(txs, n, s) \cup IF txs[n + 1].sender = s THEN {n + 1} ELSE {}
  BY <1>4 DEF SentUpTo
<1>6. CASE txs[n + 1].sender = s
  <2>1. SentUpTo(txs, n + 1, s) = SentUpTo(txs, n, s) \cup {n + 1}
    BY <1>5, <1>6
  <2>2. Cardinality(SentUpTo(txs, n + 1, s)) = Cardinality(SentUpTo(txs, n, s)) + 1
    BY <1>2, <1>4, <2>1, FS_AddElement
  <2> QED
    BY <1>6, <2>2
<1>7. CASE txs[n + 1].sender # s
  <2>1. SentUpTo(txs, n + 1, s) = SentUpTo(txs, n, s)
    BY <1>5, <1>7
  <2> QED
    BY <1>2, <1>7, <2>1
<1> QED
  BY <1>6, <1>7

\* A transaction counts for every position from its own on.
LEMMA CountGrows ==
    ASSUME NEW txs, NEW n \in Nat, NEW j \in 1 .. n
    PROVE  Cardinality(SentUpTo(txs, j - 1, txs[j].sender))
             < Cardinality(SentUpTo(txs, n, txs[j].sender))
<1> DEFINE s == txs[j].sender
           S(i) == SentUpTo(txs, i, s)
<1>0. j - 1 \in Nat /\ j - 1 + 1 = j
  OBVIOUS
<1>1. /\ Cardinality(S(j)) = Cardinality(S(j - 1)) + 1
      /\ Cardinality(S(j - 1)) \in Nat /\ Cardinality(S(n)) \in Nat
  BY <1>0, CountType, CountNext
<1>2. S(j) \subseteq S(n) /\ S(n) \subseteq 1 .. n /\ IsFiniteSet(1 .. n)
  BY FS_Interval DEF SentUpTo
<1>3. Cardinality(S(j)) <= Cardinality(S(n))
  BY <1>2, FS_Subset
<1> HIDE DEF S
<1>4. Cardinality(S(j - 1)) < Cardinality(S(n))
  BY <1>1, <1>3
<1> QED
  BY <1>4 DEF S

\* An accepted body has no transaction twice: of two at different positions,
\* with one sender, the later one carries the larger nonce.
LEMMA AcceptedOnce ==
    ASSUME NEW txs, NEW nonces, NEW n \in Nat, Accepted(txs, nonces, n),
           \A i \in 1 .. n : nonces[txs[i].sender] \in Nat,
           NEW i \in 1 .. n, NEW j \in 1 .. n, txs[i] = txs[j]
    PROVE  i = j
<1>1. ASSUME NEW a \in 1 .. n, NEW c \in 1 .. n, a < c, txs[a] = txs[c] PROVE FALSE
  <2> DEFINE s == txs[a].sender
             C(m) == Cardinality(SentUpTo(txs, m, s))
  <2>1. txs[a].nonce = nonces[s] + C(a - 1) /\ txs[a].nonce = nonces[s] + C(c - 1)
    BY <1>1 DEF Accepted, NextOfSender
  <2>2. C(a - 1) < C(c - 1)
    <3>1. a \in 1 .. c - 1 /\ c - 1 \in Nat
      BY <1>1
    <3> QED
      BY <3>1, CountGrows
  <2>3. nonces[s] \in Nat /\ C(a - 1) \in Nat /\ C(c - 1) \in Nat
    BY CountType
  <2> HIDE DEF C
  <2> QED
    BY <2>1, <2>2, <2>3
<1> QED
  BY <1>1

\* Nothing is written at first.
LEMMA StateStart ==
    ASSUME NEW txs, NEW state
    PROVE  StateAfter(txs, state, 0) = [k \in Keys |-> state[k]]
<1>1. \A k : WritesUpTo(txs, 0, k) = {}
  BY DEF WritesUpTo
<1> QED
  BY <1>1 DEF StateAfter, ValueAfter

\* One position more is one write more.
LEMMA StateNext ==
    ASSUME NEW txs, NEW state, NEW n \in Nat
    PROVE  StateAfter(txs, state, n + 1) =
             [StateAfter(txs, state, n) EXCEPT ![txs[n + 1].key] = txs[n + 1].value]
<1>1. 1 .. n + 1 = (1 .. n) \cup {n + 1} /\ n + 1 \in Nat
  OBVIOUS
<1>2. ASSUME NEW k \in Keys
      PROVE  ValueAfter(txs, state, n + 1, k) =
               IF k = txs[n + 1].key THEN txs[n + 1].value ELSE ValueAfter(txs, state, n, k)
  <2> DEFINE W(i) == WritesUpTo(txs, i, k)
  <2>1. CASE txs[n + 1].key = k
    <3>1. n + 1 \in W(n + 1) /\ \A y \in W(n + 1) : y \in Int /\ n + 1 >= y
      BY <1>1, <2>1 DEF WritesUpTo
    <3>2. Max(W(n + 1)) = n + 1
      BY <3>1, MaxIs
    <3> QED
      BY <2>1, <3>1, <3>2 DEF ValueAfter
  <2>2. CASE txs[n + 1].key # k
    <3>1. W(n + 1) = W(n)
      BY <1>1, <2>2 DEF WritesUpTo
    <3> QED
      BY <2>2, <3>1 DEF ValueAfter
  <2> QED
    BY <2>1, <2>2
<1> QED
  BY <1>2 DEF StateAfter

-----------------------------------------------------------------------------
(* The loop *)

\* The accumulator after n accepted transactions.
Loop(txs, state, nonces, n) ==
    [ok     |-> TRUE,
     seen   |-> {txs[j] : j \in 1 .. n},
     state  |-> StateAfter(txs, state, n),
     nonces |-> NoncesAfter(txs, nonces, n)]

\* The accumulator after n transactions is as described: what was accepted, or
\* a failure.
Described(acc, txs, state, nonces, n) ==
    IF Accepted(txs, nonces, n) THEN acc[n] = Loop(txs, state, nonces, n)
    ELSE "ok" \in DOMAIN acc[n] /\ acc[n].ok = FALSE

\* Before the first transaction nothing was done.
LEMMA LoopStarts ==
    ASSUME NEW txs, NEW state \in States, NEW nonces \in Nonces
    PROVE  /\ Accepted(txs, nonces, 0)
           /\ Loop(txs, state, nonces, 0) =
                [ok |-> TRUE, seen |-> {}, state |-> state, nonces |-> nonces]
<1>1. Accepted(txs, nonces, 0) /\ {txs[j] : j \in 1 .. 0} = {}
  BY DEF Accepted
<1>2. StateAfter(txs, state, 0) = state
  <2>1. state = [k \in Keys |-> state[k]]
    BY DEF States
  <2> QED
    BY <2>1, StateStart
<1>3. NoncesAfter(txs, nonces, 0) = nonces
  <2>1. \A s \in Senders : nonces[s] + Cardinality(SentUpTo(txs, 0, s)) = nonces[s]
    BY CountStart DEF Nonces
  <2> QED
    BY <2>1 DEF NoncesAfter, Nonces
<1> QED
  BY <1>1, <1>2, <1>3 DEF Loop

\* A transaction is applied if and only if it is the next one of its sender:
\* an earlier occurrence of it would have used its nonce.
LEMMA AppliedIfNext ==
    ASSUME NEW txs \in Seq(Txs), NEW state \in States, NEW nonces \in Nonces,
           NEW n \in Nat, n + 1 \in 1 .. Len(txs), Accepted(txs, nonces, n)
    PROVE  /\ txs[n + 1] \notin Loop(txs, state, nonces, n).seen
           /\ Valid(txs[n + 1], Loop(txs, state, nonces, n).nonces)
           <=> NextOfSender(txs, nonces, n + 1)
<1> DEFINE t == txs[n + 1]
           a == Loop(txs, state, nonces, n)
<1>1. t \in Txs /\ t.sender \in Senders /\ \A i \in 1 .. n : txs[i].sender \in Senders
  BY ExecutionAssumption
<1>2. Valid(t, a.nonces) <=> NextOfSender(txs, nonces, n + 1)
  <2>1. a.nonces[t.sender] = nonces[t.sender] + Cardinality(SentUpTo(txs, n, t.sender))
    BY <1>1 DEF Loop, NoncesAfter
  <2>2. n + 1 - 1 = n
    OBVIOUS
  <2> QED
    BY <2>1, <2>2 DEF Valid, NextOfSender
<1>3. ASSUME NextOfSender(txs, nonces, n + 1) PROVE t \notin a.seen
  <2>1. \A i \in 1 .. n + 1 : NextOfSender(txs, nonces, i)
    BY <1>3 DEF Accepted
  <2>2. Accepted(txs, nonces, n + 1)
    BY <2>1 DEF Accepted
  <2>3. \A i \in 1 .. n + 1 : nonces[txs[i].sender] \in Nat
    BY <1>1 DEF Nonces
  <2>4. ASSUME NEW i \in 1 .. n, txs[i] = t PROVE FALSE
    <3>1. i \in 1 .. n + 1 /\ n + 1 \in 1 .. n + 1 /\ n + 1 \in Nat /\ i # n + 1
      OBVIOUS
    <3> QED
      BY <2>2, <2>3, <2>4, <3>1, AcceptedOnce
  <2> QED
    BY <2>4 DEF Loop
<1> QED
  BY <1>2, <1>3

\* One transaction more.
LEMMA LoopNext ==
    ASSUME NEW txs \in Seq(Txs), NEW state \in States, NEW nonces \in Nonces,
           NEW n \in Nat, n + 1 \in 1 .. Len(txs), Accepted(txs, nonces, n)
    PROVE  ApplyTx(Loop(txs, state, nonces, n), txs[n + 1]) =
             IF NextOfSender(txs, nonces, n + 1) THEN Loop(txs, state, nonces, n + 1)
             ELSE [Loop(txs, state, nonces, n) EXCEPT !.ok = FALSE]
<1> DEFINE t == txs[n + 1]
           a == Loop(txs, state, nonces, n)
<1>1. t \in Txs /\ t.sender \in Senders /\ t.key \in Keys /\ n + 1 \in Nat
  BY ExecutionAssumption
<1>2. a.ok = TRUE /\ a.seen \cup {t} = {txs[j] : j \in 1 .. n + 1}
  BY DEF Loop
<1>3. [a.state EXCEPT ![t.key] = t.value] = StateAfter(txs, state, n + 1)
  <2>1. a.state = StateAfter(txs, state, n)
    BY DEF Loop
  <2> QED
    BY <2>1, StateNext
<1>4. [a.nonces EXCEPT ![t.sender] = @ + 1] = NoncesAfter(txs, nonces, n + 1)
  <2> DEFINE C(s) == Cardinality(SentUpTo(txs, n, s))
             D(s) == Cardinality(SentUpTo(txs, n + 1, s))
  <2>1. ASSUME NEW s \in Senders
        PROVE  nonces[s] + D(s) = IF t.sender = s THEN nonces[s] + C(s) + 1 ELSE nonces[s] + C(s)
    <3>1. C(s) \in Nat /\ D(s) = C(s) + IF t.sender = s THEN 1 ELSE 0
      BY CountType, CountNext
    <3>2. nonces[s] \in Nat
      BY DEF Nonces
    <3> HIDE DEF C, D
    <3> QED
      BY <3>1, <3>2
  <2>2. a.nonces = [s \in Senders |-> nonces[s] + C(s)]
    BY DEF Loop, NoncesAfter
  <2>3. NoncesAfter(txs, nonces, n + 1) = [s \in Senders |-> nonces[s] + D(s)]
    BY DEF NoncesAfter
  <2> HIDE DEF C, D, a, t
  <2> QED
    BY <2>1, <2>2, <2>3, <1>1
<1>5. t \notin a.seen /\ Valid(t, a.nonces) <=> NextOfSender(txs, nonces, n + 1)
  BY AppliedIfNext
<1>6. ApplyTx(a, t) = IF NextOfSender(txs, nonces, n + 1)
                      THEN [ok |-> TRUE, seen |-> a.seen \cup {t},
                            state |-> [a.state EXCEPT ![t.key] = t.value],
                            nonces |-> [a.nonces EXCEPT ![t.sender] = @ + 1]]
                      ELSE [a EXCEPT !.ok = FALSE]
  <2> HIDE DEF a, t
  <2> QED
    BY <1>2, <1>5 DEF ApplyTx
<1> QED
  BY <1>2, <1>3, <1>4, <1>6 DEF Loop

\* The accumulator is as described after every transaction of the body.
LEMMA RunIsDescribed ==
    ASSUME NEW txs \in Seq(Txs), NEW state \in States, NEW nonces \in Nonces, NEW acc,
           IsRun(acc, [ok |-> TRUE, seen |-> {}, state |-> state, nonces |-> nonces], txs)
    PROVE  Described(acc, txs, state, nonces, Len(txs))
<1> DEFINE T == {n \in Nat : n <= Len(txs) => Described(acc, txs, state, nonces, n)}
<1>1. 0 \in T
  BY LoopStarts DEF IsRun, Described
<1>2. ASSUME NEW n \in T, n + 1 <= Len(txs)
      PROVE  Described(acc, txs, state, nonces, n + 1)
  <2>0. /\ n \in Nat /\ n + 1 \in 1 .. Len(txs) /\ n + 1 - 1 = n
        /\ Described(acc, txs, state, nonces, n)
    BY <1>2
  <2>1. acc[n + 1] = ApplyTx(acc[n], txs[n + 1])
    BY <2>0 DEF IsRun
  <2>2. Accepted(txs, nonces, n + 1) <=>
           Accepted(txs, nonces, n) /\ NextOfSender(txs, nonces, n + 1)
    BY <2>0 DEF Accepted
  <2>3. CASE Accepted(txs, nonces, n)
    <3>1. acc[n + 1] = IF NextOfSender(txs, nonces, n + 1) THEN Loop(txs, state, nonces, n + 1)
                       ELSE [Loop(txs, state, nonces, n) EXCEPT !.ok = FALSE]
      BY <2>0, <2>1, <2>3, LoopNext DEF Described
    <3>2. "ok" \in DOMAIN Loop(txs, state, nonces, n)
      BY DEF Loop
    <3> QED
      BY <2>2, <2>3, <3>1, <3>2 DEF Described
  <2>4. CASE ~ Accepted(txs, nonces, n)
    <3>1. "ok" \in DOMAIN acc[n] /\ acc[n].ok = FALSE
      BY <2>0, <2>4 DEF Described
    <3>2. acc[n + 1] = [acc[n] EXCEPT !.ok = FALSE]
      BY <2>1, <3>1 DEF ApplyTx
    <3> QED
      BY <2>2, <2>4, <3>1, <3>2 DEF Described
  <2> QED
    BY <2>3, <2>4
<1>3. \A n \in T : n + 1 \in T
  BY <1>2
<1>4. T = Nat
  <2> HIDE DEF T
  <2> QED
    BY <1>1, <1>3, Induction DEF T
<1> QED
  BY <1>4

\* execute_block applies all of a body or nothing, and accepts the bodies in
\* which each transaction is the next one of its sender.
LEMMA ExecuteBlockIs ==
    ASSUME NEW txs \in Seq(Txs), NEW state \in States, NEW nonces \in Nonces
    PROVE  ExecuteBlock(txs, state, nonces) =
             [ok     |-> Accepted(txs, nonces, Len(txs)),
              state  |-> IF Accepted(txs, nonces, Len(txs))
                         THEN StateAfter(txs, state, Len(txs)) ELSE state,
              nonces |-> IF Accepted(txs, nonces, Len(txs))
                         THEN NoncesAfter(txs, nonces, Len(txs)) ELSE nonces]
<1> DEFINE b == [ok |-> TRUE, seen |-> {}, state |-> state, nonces |-> nonces]
           n == Len(txs)
<1>1. PICK acc : IsRun(acc, b, txs) /\ FoldLeft(ApplyTx, b, txs) = acc[n]
  <2>1. Len(txs) \in Nat /\ DOMAIN txs = 1 .. Len(txs)
    OBVIOUS
  <2> HIDE DEF b
  <2> QED
    BY <2>1, FoldIsRun
<1>2. Described(acc, txs, state, nonces, n)
  BY <1>1, RunIsDescribed
<1>3. ExecuteBlock(txs, state, nonces) =
        IF acc[n].ok THEN [ok |-> TRUE, state |-> acc[n].state, nonces |-> acc[n].nonces]
        ELSE [ok |-> FALSE, state |-> state, nonces |-> nonces]
  BY <1>1, Zenon DEF ExecuteBlock
<1> HIDE DEF n
<1>0. Accepted(txs, nonces, n) \in BOOLEAN
  BY DEF Accepted
<1>4. CASE Accepted(txs, nonces, n)
  <2>1. acc[n] = Loop(txs, state, nonces, n)
    BY <1>2, <1>4 DEF Described
  <2> QED
    BY <1>0, <1>3, <1>4, <2>1 DEF Loop, n
<1>5. CASE ~ Accepted(txs, nonces, n)
  <2>1. acc[n].ok = FALSE
    BY <1>2, <1>5 DEF Described
  <2> QED
    BY <1>0, <1>3, <1>5, <2>1 DEF n
<1> QED
  BY <1>4, <1>5

-----------------------------------------------------------------------------
(* The definitions of LedgerProperties *)

\* The bodies that are enumerated are sequences of signed transactions.
LEMMA BoundedIsSeq == BoundedSeq(Txs, MaxTxs) \subseteq Seq(Txs)
<1>1. ASSUME NEW txs \in BoundedSeq(Txs, MaxTxs) PROVE txs \in Seq(Txs)
  <2>1. PICK m \in 0 .. MaxTxs : txs \in [1 .. m -> Txs]
    BY DEF BoundedSeq, SeqOf
  <2>2. m \in Nat
    BY LedgerAssumption
  <2> QED
    BY <2>1, <2>2
<1> QED
  BY <1>1

\* A non-empty set of positions has its largest element in it.
LEMMA MaxIsIn ==
    ASSUME NEW n \in Nat, NEW s \in SUBSET (1 .. n), s # {}
    PROVE  Max(s) \in s
<1> DEFINE T == {m \in Nat : \A r \in SUBSET (1 .. m) : r # {} => Max(r) \in r}
<1>1. 0 \in T
  <2>1. 1 .. 0 = {}
    OBVIOUS
  <2> QED
    BY <2>1
<1>2. ASSUME NEW m \in T PROVE m + 1 \in T
  <2>1. ASSUME NEW r \in SUBSET (1 .. m + 1), r # {} PROVE Max(r) \in r
    <3>1. CASE r \in SUBSET (1 .. m)
      BY <2>1, <3>1
    <3>2. CASE r \notin SUBSET (1 .. m)
      <4>1. m \in Nat
        OBVIOUS
      <4> QED
        BY <3>2, <4>1, LastPosition
    <3> QED
      BY <3>1, <3>2
  <2>2. m + 1 \in Nat
    OBVIOUS
  <2> QED
    BY <2>1, <2>2
<1>3. T = Nat
  <2> HIDE DEF T
  <2> QED
    BY <1>1, <1>2, Induction DEF T
<1> QED
  BY <1>3

\* Counting in a prefix is counting up to its end.
LEMMA SentByIs ==
    ASSUME NEW txs \in Seq(Txs), NEW s
    PROVE  /\ SentBy(txs, s) = Cardinality(SentUpTo(txs, Len(txs), s))
           /\ \A i \in 1 .. Len(txs) :
                 SentBy(SubSeq(txs, 1, i - 1), s) = Cardinality(SentUpTo(txs, i - 1, s))
<1>1. DOMAIN txs = 1 .. Len(txs)
  OBVIOUS
<1>2. ASSUME NEW i \in 1 .. Len(txs)
      PROVE  SentBy(SubSeq(txs, 1, i - 1), s) = Cardinality(SentUpTo(txs, i - 1, s))
  <2>1. /\ DOMAIN SubSeq(txs, 1, i - 1) = 1 .. i - 1
        /\ \A j \in 1 .. i - 1 : SubSeq(txs, 1, i - 1)[j] = txs[j]
    OBVIOUS
  <2>2. {j \in DOMAIN SubSeq(txs, 1, i - 1) : SubSeq(txs, 1, i - 1)[j].sender = s}
          = SentUpTo(txs, i - 1, s)
    BY <2>1 DEF SentUpTo
  <2> QED
    BY <2>2 DEF SentBy
<1> QED
  BY <1>1, <1>2 DEF SentBy, SentUpTo

\* What a body was last written with tells its effect on every state, because
\* what is written is never NONE.
LEMMA LastWritesIs ==
    ASSUME NEW txs \in Seq(Txs)
    PROVE  /\ LastWrites(txs) = StateAfter(txs, EmptyState, Len(txs))
           /\ \A state : StateAfter(txs, state, Len(txs)) =
                 [k \in Keys |-> IF LastWrites(txs)[k] = NONE THEN state[k] ELSE LastWrites(txs)[k]]
<1> DEFINE W(k) == WritesUpTo(txs, Len(txs), k)
<1>1. DOMAIN txs = 1 .. Len(txs) /\ Len(txs) \in Nat
  OBVIOUS
<1>2. LastWrites(txs) = [k \in Keys |-> IF W(k) = {} THEN NONE ELSE txs[Max(W(k))].value]
  BY <1>1 DEF LastWrites, WritesUpTo
<1>3. ASSUME NEW k, W(k) # {} PROVE txs[Max(W(k))].value # NONE
  <2>1. Max(W(k)) \in 1 .. Len(txs)
    BY <1>1, <1>3, MaxIsIn DEF WritesUpTo
  <2> QED
    BY <2>1, ExecutionAssumption
<1> HIDE DEF W
<1>4. ASSUME NEW state PROVE StateAfter(txs, state, Len(txs)) =
        [k \in Keys |-> IF W(k) = {} THEN state[k] ELSE txs[Max(W(k))].value]
  BY DEF StateAfter, ValueAfter, W
<1>5. LastWrites(txs) = StateAfter(txs, EmptyState, Len(txs))
  BY <1>2, <1>4 DEF EmptyState
<1>6. ASSUME NEW k \in Keys PROVE (LastWrites(txs)[k] = NONE) <=> (W(k) = {})
  BY <1>2, <1>3
<1>7. ASSUME NEW state PROVE StateAfter(txs, state, Len(txs)) =
        [k \in Keys |-> IF LastWrites(txs)[k] = NONE THEN state[k] ELSE LastWrites(txs)[k]]
  BY <1>2, <1>4, <1>6
<1> QED
  BY <1>5, <1>7

\* On any well-typed parent a body is executed as ExecutionIsSequential says.
LEMMA Sequentially ==
    ASSUME NEW txs \in Seq(Txs), NEW state \in States, NEW nonces \in Nonces,
           NEW good, good <=> \A i \in DOMAIN txs :
               /\ txs[i] \notin Malformed
               /\ Owner[txs[i].key] = txs[i].sender
               /\ txs[i].nonce = nonces[txs[i].sender]
                                   + SentBy(SubSeq(txs, 1, i - 1), txs[i].sender),
           good \in BOOLEAN,
           NEW last, last = LastWrites(txs)
    PROVE  ExecuteBlock(txs, state, nonces) =
            [ok     |-> good,
             state  |-> IF good THEN [k \in Keys |-> IF last[k] = NONE THEN state[k] ELSE last[k]]
                        ELSE state,
             nonces |-> IF good THEN [s \in Senders |-> nonces[s] + SentBy(txs, s)]
                        ELSE nonces]
<1> DEFINE n == Len(txs)
<1>1. Accepted(txs, nonces, n) = good
  <2>1. \A i \in 1 .. n : SentBy(SubSeq(txs, 1, i - 1), txs[i].sender)
                            = Cardinality(SentUpTo(txs, i - 1, txs[i].sender))
    BY SentByIs
  <2>2. DOMAIN txs = 1 .. n
    OBVIOUS
  <2>3. Accepted(txs, nonces, n) <=> good
    BY <2>1, <2>2 DEF Accepted, NextOfSender
  <2>4. Accepted(txs, nonces, n) \in BOOLEAN
    BY DEF Accepted
  <2> QED
    BY <2>3, <2>4
<1>2. NoncesAfter(txs, nonces, n) = [s \in Senders |-> nonces[s] + SentBy(txs, s)]
  <2>1. \A s : SentBy(txs, s) = Cardinality(SentUpTo(txs, n, s))
    BY SentByIs
  <2> QED
    BY <2>1 DEF NoncesAfter
<1>3. StateAfter(txs, state, n) =
        [k \in Keys |-> IF last[k] = NONE THEN state[k] ELSE last[k]]
  BY LastWritesIs
<1>4. ExecuteBlock(txs, state, nonces) =
        [ok     |-> Accepted(txs, nonces, n),
         state  |-> IF Accepted(txs, nonces, n) THEN StateAfter(txs, state, n) ELSE state,
         nonces |-> IF Accepted(txs, nonces, n) THEN NoncesAfter(txs, nonces, n) ELSE nonces]
  BY ExecuteBlockIs
<1> HIDE DEF n
<1> QED
  BY <1>1, <1>2, <1>3, <1>4

\* ExecutionIsSequential needs no more of a state than well-typed parents.
LEMMA SequentialIfTyped ==
    ASSUME \A v \in Nodes : HasParent(v) => Parent(v).state \in States /\ Parent(v).nonces \in Nonces
    PROVE  ExecutionIsSequential
<1>1. ASSUME NEW v \in Nodes, NEW txs \in BoundedSeq(Txs, MaxTxs), HasParent(v)
      PROVE  LET p == Parent(v)
                 Count(i) == SentBy(SubSeq(txs, 1, i - 1), txs[i].sender)
                 good == \A i \in DOMAIN txs :
                            /\ txs[i] \notin Malformed
                            /\ Owner[txs[i].key] = txs[i].sender
                            /\ txs[i].nonce = p.nonces[txs[i].sender] + Count(i)
                 last == LastWrites(txs) IN
             Execute(v, txs) =
                 [ok     |-> good,
                  state  |-> IF good
                             THEN [k \in Keys |-> IF last[k] = NONE THEN p.state[k] ELSE last[k]]
                             ELSE p.state,
                  nonces |-> IF good
                             THEN [s \in Senders |-> p.nonces[s] + SentBy(txs, s)]
                             ELSE p.nonces]
  <2> DEFINE p == Parent(v)
             good == \A i \in DOMAIN txs :
                        /\ txs[i] \notin Malformed
                        /\ Owner[txs[i].key] = txs[i].sender
                        /\ txs[i].nonce = p.nonces[txs[i].sender]
                                            + SentBy(SubSeq(txs, 1, i - 1), txs[i].sender)
             last == LastWrites(txs)
             result == [ok     |-> good,
                        state  |-> IF good
                                   THEN [k \in Keys |-> IF last[k] = NONE THEN p.state[k] ELSE last[k]]
                                   ELSE p.state,
                        nonces |-> IF good
                                   THEN [s \in Senders |-> p.nonces[s] + SentBy(txs, s)]
                                   ELSE p.nonces]
  <2>1. txs \in Seq(Txs) /\ p.state \in States /\ p.nonces \in Nonces
    BY <1>1, BoundedIsSeq
  <2>2. ExecuteBlock(txs, p.state, p.nonces) = result
    <3>1. good \in BOOLEAN
      OBVIOUS
    <3>2. good <=> \A i \in DOMAIN txs :
                      /\ txs[i] \notin Malformed
                      /\ Owner[txs[i].key] = txs[i].sender
                      /\ txs[i].nonce = p.nonces[txs[i].sender]
                                          + SentBy(SubSeq(txs, 1, i - 1), txs[i].sender)
      OBVIOUS
    <3> HIDE DEF good, p
    <3> QED
      BY <2>1, <3>1, <3>2, Sequentially
  <2>3. Execute(v, txs) = result
    BY <2>2 DEF Execute
  <2> QED
    BY <2>3, Zenon
<1> QED
  BY <1>1, Zenon DEF ExecutionIsSequential

-----------------------------------------------------------------------------
(* One body after another *)

\* The elements of two sequences, one after the other.
LEMMA ConcatAt ==
    ASSUME NEW t \in Seq(Txs), NEW u \in Seq(Txs)
    PROVE  /\ t \o u \in Seq(Txs) /\ Len(t \o u) = Len(t) + Len(u)
           /\ Len(t) \in Nat /\ Len(u) \in Nat
           /\ \A i \in 1 .. Len(t) : (t \o u)[i] = t[i]
           /\ \A i \in 1 .. Len(u) : (t \o u)[Len(t) + i] = u[i]
  OBVIOUS

\* The transactions of a sender in two bodies, one after the other, add up.
LEMMA ConcatCounts ==
    ASSUME NEW t \in Seq(Txs), NEW u \in Seq(Txs), NEW s, NEW j \in 0 .. Len(u)
    PROVE  Cardinality(SentUpTo(t \o u, Len(t) + j, s))
             = Cardinality(SentUpTo(t, Len(t), s)) + Cardinality(SentUpTo(u, j, s))
<1> DEFINE w == t \o u
           l == Len(t)
           C(i) == Cardinality(SentUpTo(w, l + i, s))
           D(i) == Cardinality(SentUpTo(u, i, s))
           c == Cardinality(SentUpTo(t, l, s))
           T == {n \in Nat : n <= Len(u) => C(n) = c + D(n)}
<1>0. /\ l \in Nat /\ Len(u) \in Nat /\ c \in Nat
      /\ \A i \in 1 .. l : w[i] = t[i]
      /\ \A i \in 1 .. Len(u) : w[l + i] = u[i]
  BY ConcatAt, CountType
<1> HIDE DEF w, l
<1>1. 0 \in T
  <2>1. SentUpTo(w, l, s) = SentUpTo(t, l, s)
    BY <1>0 DEF SentUpTo
  <2>2. l + 0 = l /\ D(0) = 0
    BY <1>0, CountStart
  <2> QED
    BY <1>0, <2>1, <2>2
<1>2. ASSUME NEW n \in T PROVE n + 1 \in T
  <2>0. n \in Nat /\ n + 1 \in Nat
    OBVIOUS
  <2>1. ASSUME n + 1 <= Len(u) PROVE C(n + 1) = c + D(n + 1)
    <3>1. C(n) = c + D(n) /\ w[l + (n + 1)] = u[n + 1] /\ l + n \in Nat /\ l + (n + 1) = l + n + 1
      BY <1>0, <2>1
    <3>2. D(n) \in Nat /\ D(n + 1) = D(n) + IF u[n + 1].sender = s THEN 1 ELSE 0
      BY <2>0, CountType, CountNext
    <3>3. C(n + 1) = C(n) + IF u[n + 1].sender = s THEN 1 ELSE 0
      <4>1. PICK m \in Nat : m = l + n
        BY <3>1
      <4>2. Cardinality(SentUpTo(w, m + 1, s)) =
              Cardinality(SentUpTo(w, m, s)) + IF w[m + 1].sender = s THEN 1 ELSE 0
        BY CountNext
      <4> QED
        BY <3>1, <4>1, <4>2
    <3> HIDE DEF C, D, c
    <3> QED
      BY <1>0, <3>1, <3>2, <3>3
  <2> QED
    BY <2>0, <2>1
<1>3. T = Nat
  <2> HIDE DEF T
  <2> QED
    BY <1>1, <1>2, Induction DEF T
<1>4. C(j) = c + D(j)
  <2> HIDE DEF C, D, c
  <2>1. j \in Nat /\ j <= Len(u)
    BY <1>0
  <2> QED
    BY <1>3, <2>1
<1> QED
  BY <1>4 DEF w, l

\* The second body writes on top of the first.
LEMMA ConcatState ==
    ASSUME NEW t \in Seq(Txs), NEW u \in Seq(Txs), NEW state
    PROVE  StateAfter(t \o u, state, Len(t) + Len(u))
             = StateAfter(u, StateAfter(t, state, Len(t)), Len(u))
<1> DEFINE w == t \o u
           l == Len(t)
           A == StateAfter(t, state, l)
           T == {n \in Nat : n <= Len(u) => StateAfter(w, state, l + n) = StateAfter(u, A, n)}
<1>0. /\ l \in Nat /\ Len(u) \in Nat
      /\ \A i \in 1 .. l : w[i] = t[i]
      /\ \A i \in 1 .. Len(u) : w[l + i] = u[i]
  BY ConcatAt
<1> HIDE DEF w, l
<1>1. 0 \in T
  <2>1. ASSUME NEW k \in Keys PROVE ValueAfter(w, state, l, k) = ValueAfter(t, state, l, k)
    <3>1. WritesUpTo(w, l, k) = WritesUpTo(t, l, k)
      BY <1>0 DEF WritesUpTo
    <3>2. WritesUpTo(t, l, k) \in SUBSET (1 .. l)
      BY DEF WritesUpTo
    <3>3. WritesUpTo(t, l, k) # {} => Max(WritesUpTo(t, l, k)) \in 1 .. l
      BY <1>0, <3>2, MaxIsIn
    <3> QED
      BY <1>0, <3>1, <3>3 DEF ValueAfter
  <2>2. StateAfter(w, state, l) = A
    BY <2>1 DEF StateAfter
  <2>3. StateAfter(u, A, 0) = A
    <3>1. A = [k \in Keys |-> A[k]]
      BY DEF StateAfter
    <3> QED
      BY <3>1, StateStart
  <2>4. l + 0 = l
    BY <1>0
  <2> QED
    BY <2>2, <2>3, <2>4
<1> HIDE DEF A
<1>2. ASSUME NEW n \in T PROVE n + 1 \in T
  <2>0. n \in Nat /\ n + 1 \in Nat
    OBVIOUS
  <2>1. ASSUME n + 1 <= Len(u) PROVE StateAfter(w, state, l + (n + 1)) = StateAfter(u, A, n + 1)
    <3>1. /\ StateAfter(w, state, l + n) = StateAfter(u, A, n)
          /\ w[l + (n + 1)] = u[n + 1] /\ l + n \in Nat /\ l + (n + 1) = l + n + 1
      BY <1>0, <2>1
    <3>2. StateAfter(u, A, n + 1) = [StateAfter(u, A, n) EXCEPT ![u[n + 1].key] = u[n + 1].value]
      BY <2>0, StateNext
    <3>3. StateAfter(w, state, l + n + 1) =
            [StateAfter(w, state, l + n) EXCEPT ![w[l + n + 1].key] = w[l + n + 1].value]
      BY <3>1, StateNext
    <3> QED
      BY <3>1, <3>2, <3>3
  <2> QED
    BY <2>0, <2>1
<1>3. T = Nat
  <2> HIDE DEF T
  <2> QED
    BY <1>1, <1>2, Induction DEF T
<1>4. StateAfter(w, state, l + Len(u)) = StateAfter(u, A, Len(u))
  <2>1. Len(u) \in T /\ Len(u) <= Len(u)
    <3> HIDE DEF T
    <3> QED
      BY <1>0, <1>3
  <2> QED
    BY <2>1
<1> QED
  BY <1>4 DEF w, l, A

\* The nonces expected after a body on top of nothing.
NoncesOf(txs) == [s \in Senders |-> SentBy(txs, s)]

\* State and nonces after two bodies are those of the second on top of the
\* first, and have their types.
LEMMA ConcatIs ==
    ASSUME NEW t \in Seq(Txs), NEW u \in Seq(Txs)
    PROVE  /\ LastWrites(t \o u) = StateAfter(u, LastWrites(t), Len(u))
           /\ NoncesOf(t \o u) = NoncesAfter(u, NoncesOf(t), Len(u))
<1>1. t \o u \in Seq(Txs) /\ Len(t \o u) = Len(t) + Len(u) /\ Len(u) \in 0 .. Len(u)
  OBVIOUS
<1>2. LastWrites(t \o u) = StateAfter(u, LastWrites(t), Len(u))
  <2>1. LastWrites(t \o u) = StateAfter(t \o u, EmptyState, Len(t) + Len(u))
    BY <1>1, LastWritesIs
  <2>2. LastWrites(t) = StateAfter(t, EmptyState, Len(t))
    BY LastWritesIs
  <2> QED
    BY <2>1, <2>2, ConcatState
<1>3. ASSUME NEW s PROVE SentBy(t \o u, s) = SentBy(t, s) + Cardinality(SentUpTo(u, Len(u), s))
  <2>1. SentBy(t \o u, s) = Cardinality(SentUpTo(t \o u, Len(t) + Len(u), s))
    BY <1>1, SentByIs
  <2>2. SentBy(t, s) = Cardinality(SentUpTo(t, Len(t), s))
    BY SentByIs
  <2> QED
    BY <1>1, <2>1, <2>2, ConcatCounts
<1>4. NoncesOf(t \o u) = NoncesAfter(u, NoncesOf(t), Len(u))
  BY <1>3 DEF NoncesOf, NoncesAfter
<1> QED
  BY <1>2, <1>4

\* A body accepted on top of an accepted one continues it.
LEMMA ConcatAccepted ==
    ASSUME NEW t \in Seq(Txs), NEW u \in Seq(Txs),
           Accepted(t, NoNonces, Len(t)), Accepted(u, NoncesOf(t), Len(u))
    PROVE  Accepted(t \o u, NoNonces, Len(t \o u))
<1> DEFINE w == t \o u
           l == Len(t)
<1>0. /\ l \in Nat /\ Len(u) \in Nat /\ w \in Seq(Txs) /\ Len(w) = l + Len(u)
      /\ \A i \in 1 .. l : w[i] = t[i]
      /\ \A i \in 1 .. Len(u) : w[l + i] = u[i]
  BY ConcatAt
<1>1. ASSUME NEW i \in 1 .. l PROVE NextOfSender(w, NoNonces, i)
  <2>1. NextOfSender(t, NoNonces, i) /\ w[i] = t[i]
    BY <1>0 DEF Accepted
  <2>2. \A s : SentUpTo(w, i - 1, s) = SentUpTo(t, i - 1, s)
    BY <1>0 DEF SentUpTo
  <2> HIDE DEF w
  <2> QED
    BY <2>1, <2>2 DEF NextOfSender
<1>2. ASSUME NEW j \in 1 .. Len(u) PROVE NextOfSender(w, NoNonces, l + j)
  <2> DEFINE s == u[j].sender
  <2>1. NextOfSender(u, NoncesOf(t), j) /\ w[l + j] = u[j] /\ s \in Senders
    BY <1>0, ExecutionAssumption DEF Accepted
  <2>2. j - 1 \in 0 .. Len(u) /\ l + (j - 1) = l + j - 1
    BY <1>0
  <2>3. Cardinality(SentUpTo(w, l + (j - 1), s))
          = Cardinality(SentUpTo(t, l, s)) + Cardinality(SentUpTo(u, j - 1, s))
    BY <2>2, ConcatCounts
  <2>4. NoncesOf(t)[s] = Cardinality(SentUpTo(t, l, s))
    BY <2>1, SentByIs DEF NoncesOf
  <2>5. /\ NoNonces[s] = 0
        /\ Cardinality(SentUpTo(t, l, s)) \in Nat /\ Cardinality(SentUpTo(u, j - 1, s)) \in Nat
    BY <1>0, <2>1, <2>2, CountType DEF NoNonces
  <2>6. u[j].nonce = NoNonces[s] + Cardinality(SentUpTo(w, l + j - 1, s))
    BY <2>1, <2>2, <2>3, <2>4, <2>5 DEF NextOfSender
  <2>7. u[j] \notin Malformed /\ Owner[u[j].key] = u[j].sender
    BY <2>1 DEF NextOfSender
  <2>8. PICK m : m = l + j
    OBVIOUS
  <2>9. w[m] = u[j] /\ u[j].nonce = NoNonces[s] + Cardinality(SentUpTo(w, m - 1, s))
    BY <2>1, <2>6, <2>8
  <2> HIDE DEF w, l
  <2>10. NextOfSender(w, NoNonces, m)
    BY <2>7, <2>9, Zenon DEF NextOfSender
  <2> QED
    BY <2>8, <2>10
<1>3. ASSUME NEW i \in 1 .. Len(w) PROVE NextOfSender(w, NoNonces, i)
  <2>1. CASE i <= l
    BY <1>0, <1>1, <2>1
  <2>2. CASE ~ (i <= l)
    <3>1. PICK j \in 1 .. Len(u) : i = l + j
      <4>1. i - l \in 1 .. Len(u) /\ i = l + (i - l)
        BY <1>0, <2>2
      <4> QED
        BY <4>1
    <3> QED
      BY <1>2, <3>1
  <2> QED
    BY <2>1, <2>2
<1> HIDE DEF w
<1>4. Accepted(w, NoNonces, Len(w))
  BY <1>3 DEF Accepted
<1> QED
  BY <1>4 DEF w

\* The empty history.
LEMMA NothingApplied ==
    ASSUME NEW txs \in Seq(Txs), Len(txs) = 0
    PROVE  /\ LastWrites(txs) = EmptyState
           /\ NoncesOf(txs) = NoNonces
           /\ Accepted(txs, NoNonces, Len(txs))
<1>1. LastWrites(txs) = EmptyState
  <2>1. LastWrites(txs) = StateAfter(txs, EmptyState, 0)
    BY LastWritesIs
  <2>2. [k \in Keys |-> EmptyState[k]] = EmptyState
    BY DEF EmptyState
  <2> QED
    BY <2>1, <2>2, StateStart
<1>2. ASSUME NEW s PROVE SentBy(txs, s) = 0
  <2>1. SentBy(txs, s) = Cardinality(SentUpTo(txs, Len(txs), s))
    BY SentByIs
  <2> QED
    BY <2>1, CountStart
<1>3. NoncesOf(txs) = NoNonces
  BY <1>2 DEF NoncesOf, NoNonces
<1>4. Accepted(txs, NoNonces, Len(txs))
  BY DEF Accepted
<1> QED
  BY <1>1, <1>3, <1>4

\* What a history leaves behind has its type.
LEMMA HistoryTyped ==
    ASSUME NEW txs \in Seq(Txs)
    PROVE  LastWrites(txs) \in States /\ NoncesOf(txs) \in Nonces
<1>1. ASSUME NEW k \in Keys PROVE LastWrites(txs)[k] \in Values \cup {NONE}
  <2> DEFINE W == {i \in DOMAIN txs : txs[i].key = k}
  <2>1. LastWrites(txs)[k] = IF W = {} THEN NONE ELSE txs[Max(W)].value
    BY DEF LastWrites
  <2>2. W \in SUBSET (1 .. Len(txs)) /\ Len(txs) \in Nat
    OBVIOUS
  <2> HIDE DEF W
  <2>3. W # {} => Max(W) \in 1 .. Len(txs)
    BY <2>2, MaxIsIn
  <2>4. W # {} => txs[Max(W)].value \in Values
    BY <2>3, ExecutionAssumption
  <2> QED
    BY <2>1, <2>4
<1>2. LastWrites(txs) \in States
  <2>1. LastWrites(txs) = [k \in Keys |-> LastWrites(txs)[k]]
    BY DEF LastWrites
  <2> QED
    BY <1>1, <2>1 DEF States
<1>3. \A s : SentBy(txs, s) \in Nat
  <2>1. Len(txs) \in Nat
    OBVIOUS
  <2> QED
    BY <2>1, SentByIs, CountType
<1> QED
  BY <1>2, <1>3 DEF NoncesOf, Nonces
=============================================================================
