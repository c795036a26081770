---------------------------- MODULE LedgerProofs ---------------------------
(***************************************************************************)
(* Proofs about Ledger.  A recovered validator holds one entry and has     *)
(* forgotten the ones below, so no statement about the entries alone is    *)
(* inductive: the invariant says that some history post, the entry after   *)
(* each decided block, exists, and that every validator holds parts of it. *)
(* For that, what execute_block computes is left open; what it computes    *)
(* from equal arguments is equal, and that is all the first part uses.     *)
(* The second part says what the history holds: each block continues the   *)
(* transactions below it, so every entry is the result of all of them.     *)
(***************************************************************************)
EXTENDS ExecutionProofs

\* The entry after block b on top of entry e.
After(e, b) == [height |-> b.height,
                block  |-> b,
                state  |-> ExecuteBlock(b.txs, e.state, e.nonces).state,
                nonces |-> ExecuteBlock(b.txs, e.state, e.nonces).nonces]

IsSequence(s) == Len(s) \in Nat /\ s = [i \in 1 .. Len(s) |-> s[i]]

\* post[h] is the entry after the first h decided blocks.
IsHistory(post) ==
    /\ DOMAIN post = 0 .. Len(decided)
    /\ post[0] = Genesis
    /\ \A h \in 1 .. Len(decided) :
          /\ decided[h].height = h
          /\ post[h] = After(post[h - 1], decided[h])

\* v has the history up to height[v] - 1, on disk perhaps one entry more.
Follows(v, post) ==
    /\ height[v] \in 1 .. Len(decided) + 1
    /\ DOMAIN entries[v] \subseteq 1 .. height[v] - 1
    /\ height[v] = 1 \/ height[v] - 1 \in DOMAIN entries[v]
    /\ \A h \in DOMAIN entries[v] : entries[v][h] = post[h]
    /\ disk[v].height \in 0 .. Len(decided)
    /\ disk[v] = post[disk[v].height]
    /\ disk[v].height <= height[v]
    /\ v \in Stored => disk[v].height >= height[v] - 1
    /\ ~ Ready(v) => /\ height[v] <= Len(decided)
                     /\ unpublished[v] = post[height[v]]
                     /\ v \in Stored => disk[v].height = height[v]

Shape ==
    /\ IsSequence(decided)
    /\ height = [v \in Nodes |-> height[v]]
    /\ entries = [v \in Nodes |-> entries[v]]
    /\ disk = [v \in Nodes |-> disk[v]]
    /\ unpublished = [v \in Nodes |-> unpublished[v]]

Inv ==
    /\ Shape
    /\ \E post : IsHistory(post) /\ \A v \in Nodes : Follows(v, post)

-----------------------------------------------------------------------------
(* Lemmas *)

\* The facts about the constants that the proofs use.
LEMMA StoredNodes == Stored \subseteq Nodes
  BY LedgerAssumption

\* Ledger.finalized_height is one less than the height of the consensus.
LEMMA HeightIsNext ==
    ASSUME NEW v \in Nodes, NEW post, Shape, Follows(v, post)
    PROVE  FinalizedHeight(v) = height[v] - 1
<1>1. DOMAIN entries[v] \subseteq 1 .. height[v] - 1 /\ height[v] \in Nat
  BY DEF Follows, Shape, IsSequence
<1>2. CASE height[v] = 1
  BY <1>1, <1>2 DEF FinalizedHeight
<1>3. CASE height[v] # 1
  <2>1. /\ height[v] - 1 \in DOMAIN entries[v]
        /\ \A y \in DOMAIN entries[v] : y \in Int /\ height[v] - 1 >= y
    BY <1>1, <1>3 DEF Follows
  <2> QED
    BY <2>1, MaxIs DEF FinalizedHeight
<1> QED
  BY <1>2, <1>3

\* The parent that propose and try_finalize read is the history's.
LEMMA ParentIsPost ==
    ASSUME NEW v \in Nodes, NEW post, IsHistory(post), Follows(v, post)
    PROVE  HasParent(v) /\ Parent(v) = post[height[v] - 1]
  BY DEF HasParent, Parent, Follows, IsHistory

\* The entries of a history carry their heights.
LEMMA HeightOfPost ==
    ASSUME NEW post, IsHistory(post), NEW h \in 1 .. Len(decided)
    PROVE  post[h].height = h
<1>1. post[h] = After(post[h - 1], decided[h]) /\ decided[h].height = h
  BY DEF IsHistory
<1>2. After(post[h - 1], decided[h]).height = decided[h].height
  BY DEF After
<1> QED
  BY <1>1, <1>2

\* Appending a block keeps the decided blocks.
LEMMA AppendExtends ==
    ASSUME NEW s, NEW e, IsSequence(s)
    PROVE  /\ IsSequence(Append(s, e))
           /\ Len(Append(s, e)) = Len(s) + 1
           /\ \A i \in 1 .. Len(s) : Append(s, e)[i] = s[i]
           /\ Append(s, e)[Len(s) + 1] = e
<1> DEFINE S == {s[i] : i \in 1 .. Len(s)} \cup {e}
<1>1. s \in Seq(S) /\ e \in S
  BY DEF IsSequence
<1> HIDE DEF S
<1>2. Append(s, e) \in Seq(S) /\ Len(s) \in Nat /\ Len(Append(s, e)) = Len(s) + 1
  BY <1>1
<1>3. ASSUME NEW t \in Seq(S) PROVE t = [i \in 1 .. Len(t) |-> t[i]]
  OBVIOUS
<1>4. /\ \A i \in 1 .. Len(s) : Append(s, e)[i] = s[i]
      /\ Append(s, e)[Len(s) + 1] = e
  BY <1>1
<1>5. IsSequence(Append(s, e))
  <2>1. Append(s, e) = [i \in 1 .. Len(Append(s, e)) |-> Append(s, e)[i]]
    BY <1>2, <1>3, Zenon
  <2>2. Len(Append(s, e)) \in Nat
    BY <1>2
  <2> QED
    BY <2>1, <2>2, Zenon DEF IsSequence
<1> QED
  BY <1>2, <1>4, <1>5

\* A step that decides nothing keeps the history.
LEMMA HistoryStays ==
    ASSUME NEW post, IsHistory(post), UNCHANGED decided
    PROVE  IsHistory(post)'
  BY DEF IsHistory

\* A validator whose own state does not change goes on following the history.
LEMMA OthersFollow ==
    ASSUME NEW v \in Nodes, NEW post, Follows(v, post), UNCHANGED decided,
           entries[v]' = entries[v], disk[v]' = disk[v],
           unpublished[v]' = unpublished[v], height[v]' = height[v]
    PROVE  Follows(v, post)'
  BY DEF Follows, Ready

-----------------------------------------------------------------------------
(* The invariant *)

\* Initially the history is the genesis alone.
LEMMA InvInit == Init => Inv
<1> SUFFICES ASSUME Init PROVE Inv
  OBVIOUS
<1> DEFINE post == [h \in {0} |-> Genesis]
<1>1. Shape
  BY DEF Init, Shape, IsSequence
<1>2. Len(decided) = 0
  BY DEF Init
<1>3. IsHistory(post)
  BY <1>2 DEF IsHistory
<1>4. ASSUME NEW v \in Nodes PROVE Follows(v, post)
  BY <1>2, StoredNodes DEF Init, Follows, Ready, NoEntries, Genesis
<1> QED
  BY <1>1, <1>3, <1>4 DEF Inv

\* A new block extends the history by the entry after it.
LEMMA DecideKeepsInv ==
    ASSUME Inv, NEW v \in Nodes, NEW txs, Decide(v, txs)
    PROVE  Inv'
<1>1. PICK post : IsHistory(post) /\ \A w \in Nodes : Follows(w, post)
  BY DEF Inv
<1> DEFINE n == Len(decided)
           b == NewBlock(v, txs)
<1>0. PICK next : next = [h \in 0 .. n + 1 |-> IF h <= n THEN post[h] ELSE After(post[n], b)]
  OBVIOUS
<1>2. /\ IsSequence(decided') /\ Len(decided') = n + 1 /\ n \in Nat
      /\ \A i \in 1 .. n : decided'[i] = decided[i]
      /\ decided'[n + 1] = b
  BY AppendExtends DEF Inv, Shape, Decide, IsSequence
<1>3. Shape'
  BY <1>2 DEF Inv, Shape, Decide
<1>4. b.height = n + 1
  BY DEF Decide, NewBlock
<1>5. IsHistory(next)'
  <2> HIDE DEF b
  <2>1. DOMAIN next = 0 .. Len(decided') /\ next[0] = Genesis
    BY <1>0, <1>1, <1>2 DEF IsHistory
  <2>2. ASSUME NEW h \in 1 .. n + 1
        PROVE  decided'[h].height = h /\ next[h] = After(next[h - 1], decided'[h])
    <3>1. CASE h <= n
      <4>1. h \in 1 .. n /\ h - 1 \in 0 .. n + 1 /\ h - 1 <= n
        BY <3>1, <1>2
      <4>2. next[h] = post[h] /\ next[h - 1] = post[h - 1]
        BY <3>1, <4>1, <1>0, <1>2
      <4> QED
        BY <4>1, <4>2, <1>1, <1>2 DEF IsHistory
    <3>2. CASE h = n + 1
      BY <3>2, <1>0, <1>2, <1>4
    <3> QED
      BY <3>1, <3>2, <1>2
  <2>3. \A h \in 1 .. Len(decided') :
           decided'[h].height = h /\ next[h] = After(next[h - 1], decided'[h])
    BY <2>2, <1>2
  <2> QED
    BY <2>1, <2>3, Zenon DEF IsHistory
<1>6. ASSUME NEW w \in Nodes PROVE Follows(w, next)'
  <2>1. /\ Follows(w, post) /\ height[w] \in 1 .. n + 1
        /\ height'[w] = height[w] /\ entries'[w] = entries[w]
        /\ disk'[w] = disk[w] /\ unpublished'[w] = unpublished[w]
    BY <1>1 DEF Decide, Follows
  <2>2. \A h \in 0 .. n : next[h] = post[h]
    BY <1>0, <1>2
  <2>3. \A h \in DOMAIN entries[w] : h \in 0 .. n /\ entries[w][h] = next[h]
    BY <2>1, <2>2, <1>2 DEF Follows
  <2>4. disk[w].height \in 0 .. n + 1 /\ disk[w] = next[disk[w].height]
    BY <2>1, <2>2, <1>2 DEF Follows
  <2>5. ~ Ready(w) => height[w] \in 1 .. n /\ unpublished[w] = next[height[w]]
    BY <2>1, <2>2, <1>2 DEF Follows
  <2>6. /\ height[w] \in 1 .. Len(decided') + 1
        /\ DOMAIN entries[w] \subseteq 1 .. height[w] - 1
        /\ height[w] = 1 \/ height[w] - 1 \in DOMAIN entries[w]
        /\ disk[w].height \in 0 .. Len(decided') /\ disk[w].height <= height[w]
        /\ w \in Stored => disk[w].height >= height[w] - 1
    BY <2>1, <2>4, <1>2 DEF Follows
  <2>7. ~ Ready(w) => /\ height[w] <= Len(decided')
                      /\ w \in Stored => disk[w].height = height[w]
    BY <2>1, <2>5, <1>2 DEF Follows
  <2>8. Ready(w)' = Ready(w)
    BY <2>1 DEF Ready
  <2> QED
    BY <2>1, <2>3, <2>4, <2>5, <2>6, <2>7, <2>8 DEF Follows
<1> QED
  BY <1>3, <1>5, <1>6 DEF Inv

\* What finalize makes of the decided block is the next entry of the history.
LEMMA PersistKeepsInv ==
    ASSUME Inv, NEW v \in Nodes, Persist(v)
    PROVE  Inv'
<1>1. PICK post : IsHistory(post) /\ \A w \in Nodes : Follows(w, post)
  BY DEF Inv
<1> DEFINE h == height[v]
           e == Entry(v, decided[h])
<1>2. h \in 1 .. Len(decided) /\ Len(decided) \in Nat
  BY <1>1 DEF Persist, Inv, Shape, IsSequence
<1>3. e = post[h] /\ e.height = h
  <2>1. Parent(v) = post[h - 1]
    BY <1>1, ParentIsPost
  <2>2. post[h] = After(post[h - 1], decided[h]) /\ decided[h].height = h
    BY <1>1, <1>2 DEF IsHistory
  <2> QED
    BY <2>1, <2>2 DEF Entry, Execute, After
<1>4. Shape'
  BY DEF Inv, Shape, Persist, WriteSnapshot
<1>5. IsHistory(post)'
  BY <1>1, HistoryStays DEF Persist
<1>6. ASSUME NEW w \in Nodes PROVE Follows(w, post)'
  <2> HIDE DEF e
  <2>1. /\ unpublished' = [unpublished EXCEPT ![v] = e]
        /\ disk' = IF v \in Stored THEN [disk EXCEPT ![v] = e] ELSE disk
        /\ UNCHANGED <<decided, entries, height>>
    BY DEF Persist, WriteSnapshot, e
  <2>2. CASE w # v
    <3>1. disk'[w] = disk[w] /\ unpublished'[w] = unpublished[w]
      BY <2>1, <2>2 DEF Inv, Shape
    <3> QED
      BY <3>1, <2>1, <1>1, OthersFollow
  <2>3. CASE w = v
    <3>1. unpublished'[v] = e /\ disk'[v] = IF v \in Stored THEN e ELSE disk[v]
      BY <2>1 DEF Inv, Shape
    <3>2. Follows(v, post)
      BY <1>1
    <3> QED
      BY <3>1, <3>2, <2>1, <2>3, <1>2, <1>3 DEF Follows, Ready
  <2> QED
    BY <2>2, <2>3
<1> QED
  BY <1>4, <1>5, <1>6 DEF Inv

\* The published entry is the one of the history at the validator's height.
LEMMA PublishKeepsInv ==
    ASSUME Inv, NEW v \in Nodes, Publish(v)
    PROVE  Inv'
<1>1. PICK post : IsHistory(post) /\ \A w \in Nodes : Follows(w, post)
  BY DEF Inv
<1> DEFINE h == height[v]
           e == unpublished[v]
<1>2. h \in 1 .. Len(decided) /\ Len(decided) \in Nat /\ e = post[h] /\ e.height = h
  <2>1. h \in 1 .. Len(decided) /\ e = post[h] /\ Len(decided) \in Nat
    BY <1>1 DEF Publish, Follows, Inv, Shape, IsSequence
  <2> QED
    BY <2>1, <1>1, HeightOfPost
<1>3. /\ height' = [height EXCEPT ![v] = h + 1]
      /\ unpublished' = [unpublished EXCEPT ![v] = Genesis]
      /\ entries' = [entries EXCEPT ![v] =
                       [k \in DOMAIN @ \cup {h} |-> IF k = h THEN e ELSE @[k]]]
      /\ UNCHANGED <<decided, disk>>
  BY <1>2 DEF Publish
<1>4. Shape'
  BY <1>3 DEF Inv, Shape
<1>5. IsHistory(post)'
  BY <1>1, <1>3, HistoryStays
<1>6. ASSUME NEW w \in Nodes PROVE Follows(w, post)'
  <2>1. CASE w # v
    <3>1. /\ height'[w] = height[w] /\ unpublished'[w] = unpublished[w]
          /\ entries'[w] = entries[w]
      BY <1>3, <2>1 DEF Inv, Shape
    <3> QED
      BY <3>1, <1>3, <1>1, OthersFollow
  <2>2. CASE w = v
    <3>1. /\ height'[v] = h + 1 /\ unpublished'[v] = Genesis
          /\ DOMAIN entries'[v] = DOMAIN entries[v] \cup {h}
          /\ entries'[v][h] = e
          /\ \A k \in DOMAIN entries[v] : k # h => entries'[v][k] = entries[v][k]
      BY <1>3 DEF Inv, Shape
    <3>2. Follows(v, post) /\ ~ Ready(v)
      BY <1>1 DEF Publish
    <3> QED
      BY <3>1, <3>2, <1>2, <1>3, <2>2 DEF Follows, Ready
  <2> QED
    BY <2>1, <2>2
<1> QED
  BY <1>4, <1>5, <1>6 DEF Inv

\* After a failed write the snapshot may be one entry ahead, and nothing else.
LEMMA PersistRaisesKeepsInv ==
    ASSUME Inv, NEW v \in Nodes, PersistRaises(v)
    PROVE  Inv'
<1>1. PICK post : IsHistory(post) /\ \A w \in Nodes : Follows(w, post)
  BY DEF Inv
<1>2. /\ unpublished' = [unpublished EXCEPT ![v] = Genesis]
      /\ UNCHANGED <<decided, entries, disk, height>>
  BY DEF PersistRaises
<1>3. Shape'
  BY <1>2 DEF Inv, Shape
<1>4. IsHistory(post)'
  BY <1>1, <1>2, HistoryStays
<1>5. ASSUME NEW w \in Nodes PROVE Follows(w, post)'
  <2>1. unpublished'[w] = IF w = v THEN Genesis ELSE unpublished[w]
    BY <1>2 DEF Inv, Shape
  <2>2. Follows(w, post)
    BY <1>1
  <2> QED
    BY <2>1, <2>2, <1>2 DEF Follows, Ready
<1> QED
  BY <1>3, <1>4, <1>5 DEF Inv

\* What a snapshot holds is in the history, and nothing else is recovered.
LEMMA RestartKeepsInv ==
    ASSUME Inv, NEW v \in Nodes, Restart(v)
    PROVE  Inv'
<1>1. PICK post : IsHistory(post) /\ \A w \in Nodes : Follows(w, post)
  BY DEF Inv
<1> DEFINE d == disk[v].height
<1>2. /\ height' = [height EXCEPT ![v] = d + 1]
      /\ unpublished' = [unpublished EXCEPT ![v] = Genesis]
      /\ entries' = [entries EXCEPT ![v] = Recovered(v)]
      /\ UNCHANGED <<decided, disk>>
  BY DEF Restart
<1>3. Shape'
  BY <1>2 DEF Inv, Shape
<1>4. IsHistory(post)'
  BY <1>1, <1>2, HistoryStays
<1>5. ASSUME NEW w \in Nodes PROVE Follows(w, post)'
  <2>1. CASE w # v
    <3>1. /\ height'[w] = height[w] /\ unpublished'[w] = unpublished[w]
          /\ entries'[w] = entries[w]
      BY <1>2, <2>1 DEF Inv, Shape
    <3> QED
      BY <3>1, <1>2, <1>1, OthersFollow
  <2>2. CASE w = v
    <3>1. height'[v] = d + 1 /\ unpublished'[v] = Genesis /\ entries'[v] = Recovered(v)
      BY <1>2 DEF Inv, Shape
    <3>2. /\ d \in 0 .. Len(decided) /\ Len(decided) \in Nat
          /\ disk[v] = post[d] /\ (d = 0) = (disk[v] = Genesis)
      <4>1. d \in 0 .. Len(decided) /\ Len(decided) \in Nat /\ disk[v] = post[d]
        BY <1>1 DEF Follows, Inv, Shape, IsSequence
      <4>2. d = 0 => disk[v] = Genesis
        BY <4>1, <1>1 DEF IsHistory
      <4>3. disk[v] = Genesis => d = 0
        BY DEF Genesis
      <4> QED
        BY <4>1, <4>2, <4>3
    <3>3. CASE d = 0
      <4>1. entries'[v] = NoEntries
        BY <3>1, <3>2, <3>3 DEF Recovered
      <4> QED
        BY <4>1, <3>1, <3>2, <3>3, <2>2, <1>2 DEF Follows, Ready, NoEntries
    <3>4. CASE d # 0
      <4>1. entries'[v] = [k \in {d} |-> disk[v]]
        BY <3>1, <3>2, <3>4 DEF Recovered
      <4> QED
        BY <4>1, <3>1, <3>2, <3>4, <2>2, <1>2 DEF Follows, Ready
    <3> QED
      BY <3>3, <3>4
  <2> QED
    BY <2>1, <2>2
<1> QED
  BY <1>3, <1>4, <1>5 DEF Inv

\* Every step keeps the invariant.
LEMMA InvStep == Inv /\ [Next]_vars => Inv'
<1> SUFFICES ASSUME Inv, [Next]_vars PROVE Inv'
  OBVIOUS
<1>1. CASE UNCHANGED vars
  <2>1. PICK post : IsHistory(post) /\ \A w \in Nodes : Follows(w, post)
    BY DEF Inv
  <2>2. Shape' /\ IsHistory(post)'
    BY <1>1, <2>1, HistoryStays DEF Inv, Shape, vars, IsSequence
  <2>3. \A w \in Nodes : Follows(w, post)'
    BY <1>1, <2>1, OthersFollow DEF vars
  <2> QED
    BY <2>2, <2>3 DEF Inv
<1>2. ASSUME NEW v \in Nodes, NEW txs, Decide(v, txs) PROVE Inv'
  BY <1>2, DecideKeepsInv
<1>3. ASSUME NEW v \in Nodes, Persist(v) PROVE Inv'
  BY <1>3, PersistKeepsInv
<1>4. ASSUME NEW v \in Nodes, Publish(v) PROVE Inv'
  BY <1>4, PublishKeepsInv
<1>5. ASSUME NEW v \in Nodes, PersistRaises(v) PROVE Inv'
  BY <1>5, PersistRaisesKeepsInv
<1>6. ASSUME NEW v \in Nodes, Restart(v) PROVE Inv'
  BY <1>6, RestartKeepsInv
<1> QED
  BY <1>1, <1>2, <1>3, <1>4, <1>5, <1>6 DEF Next

\* In every reachable state each validator holds parts of one history.
THEOREM OneHistory == Spec => []Inv
<1> QED
  BY InvInit, InvStep, PTL DEF Spec

-----------------------------------------------------------------------------
(* What follows *)

\* Two validators hold the same entry for a height, the snapshot is never
\* behind the memory, and every validator can finalize the height it runs.
THEOREM LedgerSafety == Spec => [](SameHistory /\ DiskKeepsUp /\ NoGap)
<1>1. ASSUME Inv PROVE SameHistory /\ DiskKeepsUp /\ NoGap
  <2>1. PICK post : IsHistory(post) /\ \A v \in Nodes : Follows(v, post)
    BY <1>1 DEF Inv
  <2>2. \A v \in Nodes : FinalizedHeight(v) = height[v] - 1
    BY <1>1, <2>1, HeightIsNext DEF Inv
  <2>3. ASSUME NEW v \in Nodes, NEW e \in Holds(v) PROVE e = post[e.height]
    <3>1. ASSUME NEW h \in DOMAIN entries[v] PROVE entries[v][h] = post[entries[v][h].height]
      <4>1. h \in 1 .. Len(decided) /\ entries[v][h] = post[h]
        BY <1>1, <2>1 DEF Follows, Inv, Shape, IsSequence
      <4> QED
        BY <4>1, <2>1, HeightOfPost
    <3>2. disk[v] = post[disk[v].height]
      BY <2>1 DEF Follows
    <3>3. ASSUME unpublished[v] # Genesis
          PROVE  unpublished[v] = post[unpublished[v].height]
      <4>1. height[v] \in 1 .. Len(decided) /\ unpublished[v] = post[height[v]]
        BY <1>1, <2>1, <3>3 DEF Follows, Ready, Inv, Shape, IsSequence
      <4> QED
        BY <4>1, <2>1, HeightOfPost
    <3> QED
      BY <3>1, <3>2, <3>3 DEF Holds
  <2>4. SameHistory
    BY <2>3 DEF SameHistory
  <2>5. DiskKeepsUp
    BY <2>1, <2>2, StoredNodes DEF DiskKeepsUp, Follows
  <2>6. NoGap
    BY <1>1, <2>1, <2>2 DEF NoGap, HasParent, Follows, Inv, Shape, IsSequence
  <2> QED
    BY <2>4, <2>5, <2>6
<1> QED
  BY <1>1, OneHistory, PTL

\* A finalized height in a state and in the next one.
LEMMA Heights ==
    ASSUME Inv, Inv'
    PROVE  \A v \in Nodes : /\ FinalizedHeight(v) = height[v] - 1
                            /\ FinalizedHeight(v)' = height'[v] - 1
                            /\ height[v] \in 1 .. Len(decided) + 1
                            /\ height'[v] \in 1 .. Len(decided)' + 1
                            /\ disk[v].height <= height[v]
                            /\ v \in Stored => disk[v].height >= height[v] - 1
                            /\ disk[v].height \in 0 .. Len(decided)
                            /\ Len(decided) \in Nat
<1>1. PICK post : IsHistory(post) /\ \A v \in Nodes : Follows(v, post)
  BY DEF Inv
<1>2. PICK post2 : IsHistory(post2)' /\ \A v \in Nodes : Follows(v, post2)'
  BY DEF Inv
<1>3. ASSUME NEW v \in Nodes PROVE FinalizedHeight(v)' = height'[v] - 1
  <2>1. /\ DOMAIN entries'[v] \subseteq 1 .. height'[v] - 1 /\ height'[v] \in Nat
        /\ height'[v] = 1 \/ height'[v] - 1 \in DOMAIN entries'[v]
    BY <1>2 DEF Follows, Inv, Shape, IsSequence
  <2>2. CASE height'[v] = 1
    BY <2>1, <2>2 DEF FinalizedHeight
  <2>3. CASE height'[v] # 1
    <3>1. /\ height'[v] - 1 \in DOMAIN entries'[v]
          /\ \A y \in DOMAIN entries'[v] : y \in Int /\ height'[v] - 1 >= y
      BY <2>1, <2>3
    <3> QED
      BY <3>1, MaxIs DEF FinalizedHeight
  <2> QED
    BY <2>2, <2>3
<1>4. ASSUME NEW v \in Nodes
      PROVE  /\ height[v] \in 1 .. Len(decided) + 1
             /\ disk[v].height <= height[v]
             /\ v \in Stored => disk[v].height >= height[v] - 1
             /\ disk[v].height \in 0 .. Len(decided)
  BY <1>1 DEF Follows
<1>5. ASSUME NEW v \in Nodes PROVE height'[v] \in 1 .. Len(decided)' + 1
  BY <1>2 DEF Follows
<1>6. Len(decided) \in Nat
  BY DEF Inv, Shape, IsSequence
<1>7. \A v \in Nodes : FinalizedHeight(v) = height[v] - 1
  BY <1>1, HeightIsNext DEF Inv
<1> QED
  BY <1>3, <1>4, <1>5, <1>6, <1>7

\* A validator publishes the entry of its own height.
LEMMA PublishedHeight ==
    ASSUME Inv, NEW v \in Nodes, Publish(v)
    PROVE  unpublished[v].height = height[v]
<1>1. PICK post : IsHistory(post) /\ Follows(v, post)
  BY DEF Inv
<1>2. height[v] \in 1 .. Len(decided) /\ unpublished[v] = post[height[v]]
  BY <1>1 DEF Publish, Follows, Inv, Shape, IsSequence
<1> QED
  BY <1>1, <1>2, HeightOfPost

\* A validator with a snapshot file never rolls back: a recovery restores at
\* least what the memory held.
THEOREM LedgersNeverRollBack == Spec => NoRollback
<1>1. ASSUME Inv, Inv', [Next]_vars
      PROVE  [\A v \in Stored : FinalizedHeight(v)' >= FinalizedHeight(v)]_vars
  <2> SUFFICES ASSUME Next, NEW v \in Stored
               PROVE  FinalizedHeight(v)' >= FinalizedHeight(v)
    BY <1>1
  <2>1. v \in Nodes
    BY StoredNodes
  <2>2. height'[v] >= height[v]
    <3>1. ASSUME NEW w \in Nodes, Publish(w) PROVE height'[v] >= height[v]
      <4>1. unpublished[w].height = height[w]
        BY <1>1, <3>1, PublishedHeight
      <4>2. height' = [height EXCEPT ![w] = height[w] + 1]
        BY <3>1, <4>1 DEF Publish
      <4> QED
        BY <1>1, <2>1, <4>2, Heights DEF Inv, Shape
    <3>2. ASSUME NEW w \in Nodes, Restart(w) PROVE height'[v] >= height[v]
      BY <1>1, <3>2, <2>1, Heights DEF Restart, Inv, Shape
    <3>3. CASE UNCHANGED height
      BY <1>1, <3>3, <2>1, Heights
    <3> QED
      BY <3>1, <3>2, <3>3 DEF Next, Decide, Persist, PersistRaises
  <2> QED
    BY <1>1, <2>1, <2>2, Heights
<1> QED
  BY <1>1, OneHistory, PTL DEF Spec, NoRollback

\* The ledgers implement one replicated log when every validator has a
\* snapshot file.
THEOREM ImplementsReplicatedLog ==
    ASSUME Stored = Nodes
    PROVE  Spec => LogSpec
<1>1. Init => Log!Init
  BY DEF Init, Log!Init, FinalizedHeight, NoEntries
<1>2. ASSUME Inv, Inv', [Next]_vars PROVE [Log!Next]_(Log!vars)
  <2> DEFINE upTo == [v \in Nodes |-> FinalizedHeight(v)]
             upTo2 == [v \in Nodes |-> FinalizedHeight(v)']
  <2>1. CASE UNCHANGED <<decided, entries>>
    BY <2>1 DEF Log!vars, FinalizedHeight
  <2>2. ASSUME NEW v \in Nodes, NEW txs, Decide(v, txs) PROVE Log!Extend
    <3>1. /\ Len(decided') = Len(decided) + 1
          /\ \A i \in 1 .. Len(decided) : decided'[i] = decided[i]
      BY <1>2, <2>2, AppendExtends DEF Decide, Inv, Shape
    <3>2. DOMAIN decided = 1 .. Len(decided)
      BY <1>2 DEF Inv, Shape, IsSequence
    <3>3. FinalizedHeight(v) = Len(decided)
      BY <1>2, <2>2, Heights DEF Decide
    <3>4. upTo2 = upTo
      BY <2>2 DEF Decide, FinalizedHeight
    <3> QED
      BY <3>1, <3>2, <3>3, <3>4 DEF Log!Extend
  <2>3. ASSUME NEW v \in Nodes, UNCHANGED decided,
               height' = [height EXCEPT ![v] = height[v] + 1]
        PROVE  Log!Advance(v)
    <3>1. height'[v] = height[v] + 1 /\ \A w \in Nodes \ {v} : height'[w] = height[w]
      BY <1>2, <2>3 DEF Inv, Shape
    <3>2. FinalizedHeight(v) < Len(decided) /\ upTo2 = [upTo EXCEPT ![v] = @ + 1]
      <4>1. /\ \A w \in Nodes : FinalizedHeight(w) = height[w] - 1
            /\ \A w \in Nodes : FinalizedHeight(w)' = height'[w] - 1
            /\ \A w \in Nodes : height[w] \in Int
            /\ height'[v] - 1 <= Len(decided)' /\ Len(decided) \in Nat
        BY <1>2, Heights
      <4>2. FinalizedHeight(v) < Len(decided)
        BY <2>3, <3>1, <4>1
      <4>3. \A w \in Nodes : FinalizedHeight(w)' =
                               IF w = v THEN FinalizedHeight(v) + 1 ELSE FinalizedHeight(w)
        BY <3>1, <4>1
      <4> QED
        BY <4>2, <4>3
    <3> QED
      BY <2>3, <3>2 DEF Log!Advance
  <2>4. ASSUME UNCHANGED <<decided, height>> PROVE UNCHANGED Log!vars
    BY <1>2, <2>4, Heights DEF Log!vars
  <2>5. ASSUME NEW v \in Nodes, Publish(v) PROVE [Log!Next]_(Log!vars)
    BY <1>2, <2>5, <2>3, PublishedHeight DEF Publish, Log!Next
  <2>6. ASSUME NEW v \in Nodes, Restart(v) PROVE [Log!Next]_(Log!vars)
    <3>1. disk[v].height = height[v] \/ disk[v].height = height[v] - 1
      BY <1>2, Heights
    <3>2. CASE disk[v].height = height[v]
      BY <2>6, <3>2, <2>3 DEF Restart, Log!Next
    <3>3. CASE disk[v].height = height[v] - 1
      <4>1. height' = height
        BY <1>2, <2>6, <3>3, Heights DEF Restart, Inv, Shape
      <4> QED
        BY <4>1, <2>4, <2>6 DEF Restart
    <3> QED
      BY <3>1, <3>2, <3>3
  <2> QED
    BY <1>2, <2>1, <2>2, <2>5, <2>6 DEF Next, Persist, PersistRaises, Log!Next, vars
<1> QED
  BY <1>1, <1>2, OneHistory, PTL DEF Spec, LogSpec

-----------------------------------------------------------------------------
(* The decided chain and what it computes *)

\* All transactions of the first h blocks of a chain d, in order.
History(d, h) == FlattenSeq([k \in 1 .. h |-> d[k].txs])

\* Each block of d is accepted on top of the whole history below it and signs
\* the last writes of the history with it.
ChainOf(d) ==
    /\ Len(d) \in 0 .. MaxHeight
    /\ \A h \in 1 .. Len(d) :
          /\ d[h].txs \in Seq(Txs)
          /\ Accepted(d[h].txs, NoncesOf(History(d, h - 1)), Len(d[h].txs))
          /\ d[h].state = LastWrites(History(d, h))

Chained == ChainOf(decided)

\* The history grows by the body of the next block.
LEMMA HistoryNext ==
    ASSUME NEW d, NEW h \in Nat, \A k \in 1 .. h + 1 : d[k].txs \in Seq(Txs)
    PROVE  /\ History(d, h) \in Seq(Txs)
           /\ History(d, h + 1) = History(d, h) \o d[h + 1].txs
<1> DEFINE ss == [k \in 1 .. h |-> d[k].txs]
           tt == [k \in 1 .. h + 1 |-> d[k].txs]
           x == d[h + 1].txs
<1>1. ss \in Seq(Seq(Txs)) /\ x \in Seq(Txs)
  OBVIOUS
<1>2. tt = Append(ss, x)
  <2>1. tt \in Seq(Seq(Txs)) /\ Append(ss, x) \in Seq(Seq(Txs))
    BY <1>1
  <2>2. Len(tt) = h + 1 /\ Len(ss) = h /\ Len(Append(ss, x)) = h + 1
    BY <1>1
  <2>3. ASSUME NEW k \in 1 .. h + 1 PROVE tt[k] = Append(ss, x)[k]
    <3>1. CASE k = h + 1
      BY <1>1, <2>2, <3>1
    <3>2. CASE k # h + 1
      <4>1. k \in 1 .. h
        BY <3>2
      <4> QED
        BY <1>1, <2>2, <4>1
    <3> QED
      BY <3>1, <3>2
  <2> HIDE DEF tt, ss, x
  <2> QED
    BY <2>1, <2>2, <2>3
<1> HIDE DEF ss, x
<1>3. FlattenSeq(ss) \in Seq(Txs) /\ FlattenSeq(Append(ss, x)) = FlattenSeq(ss) \o x
  BY <1>1, FlattenAppend
<1> QED
  BY <1>2, <1>3 DEF History, ss, x

\* A history looks at the blocks up to its height only.
LEMMA HistorySame ==
    ASSUME NEW d, NEW c, NEW h \in Nat, \A k \in 1 .. h : c[k] = d[k]
    PROVE  History(c, h) = History(d, h)
<1>1. [k \in 1 .. h |-> c[k].txs] = [k \in 1 .. h |-> d[k].txs]
  OBVIOUS
<1> QED
  BY <1>1 DEF History

\* Nothing is applied at height 0.
LEMMA HistoryStart == \A d : History(d, 0) \in Seq(Txs) /\ Len(History(d, 0)) = 0
<1>1. ASSUME NEW d PROVE [k \in 1 .. 0 |-> d[k].txs] \in Seq(Txs) /\ Len([k \in 1 .. 0 |-> d[k].txs]) = 0
  OBVIOUS
<1>2. ASSUME NEW ss, Len(ss) = 0 PROVE FlattenSeq(ss) = ss
  BY <1>2, FlattenIsFlattens
<1> QED
  BY <1>1, <1>2 DEF History

\* The whole history up to any height is accepted on top of nothing.
LEMMA ChainAccepted ==
    ASSUME NEW d, ChainOf(d), NEW m \in 0 .. Len(d)
    PROVE  /\ History(d, m) \in Seq(Txs)
           /\ Accepted(History(d, m), NoNonces, Len(History(d, m)))
<1> DEFINE OK(h) == /\ History(d, h) \in Seq(Txs)
                    /\ Accepted(History(d, h), NoNonces, Len(History(d, h)))
           T == {h \in Nat : h <= Len(d) => OK(h)}
<1>1. 0 \in T
  BY HistoryStart, NothingApplied
<1>2. ASSUME NEW h \in T PROVE h + 1 \in T
  <2>1. h \in Nat /\ h + 1 \in Nat
    OBVIOUS
  <2>2. ASSUME h + 1 <= Len(d) PROVE OK(h + 1)
    <3>1. OK(h)
      BY <2>2 DEF ChainOf
    <3>2. /\ d[h + 1].txs \in Seq(Txs)
          /\ Accepted(d[h + 1].txs, NoncesOf(History(d, h)), Len(d[h + 1].txs))
          /\ \A k \in 1 .. h + 1 : d[k].txs \in Seq(Txs)
      <4>1. h + 1 \in 1 .. Len(d) /\ h + 1 - 1 = h /\ \A k \in 1 .. h + 1 : k \in 1 .. Len(d)
        BY <2>1, <2>2 DEF ChainOf
      <4> QED
        BY <4>1 DEF ChainOf
    <3>3. History(d, h + 1) = History(d, h) \o d[h + 1].txs
      BY <2>1, <3>2, HistoryNext
    <3>4. History(d, h) \o d[h + 1].txs \in Seq(Txs)
      BY <3>1, <3>2
    <3> QED
      BY <3>1, <3>2, <3>3, <3>4, ConcatAccepted
  <2> HIDE DEF OK
  <2> QED
    BY <2>1, <2>2
<1>3. T = Nat
  <2> HIDE DEF T
  <2> QED
    BY <1>1, <1>2, Induction DEF T
<1> HIDE DEF OK
<1>4. OK(m)
  BY <1>3 DEF ChainOf
<1> QED
  BY <1>4 DEF OK

\* The body of a chained block, on the history below it.
LEMMA NextBody ==
    ASSUME NEW d, ChainOf(d), NEW h \in Nat, h + 1 \in 1 .. Len(d)
    PROVE  /\ h \in 0 .. Len(d) /\ h + 1 \in 0 .. Len(d)
           /\ History(d, h) \in Seq(Txs) /\ d[h + 1].txs \in Seq(Txs)
           /\ History(d, h + 1) = History(d, h) \o d[h + 1].txs
           /\ Accepted(d[h + 1].txs, NoncesOf(History(d, h)), Len(d[h + 1].txs))
<1>1. /\ Len(d) \in Nat /\ h + 1 - 1 = h /\ h \in 0 .. Len(d) /\ h + 1 \in 0 .. Len(d)
      /\ \A k \in 1 .. h + 1 : k \in 1 .. Len(d)
  BY DEF ChainOf
<1>2. \A k \in 1 .. h + 1 : d[k].txs \in Seq(Txs)
  BY <1>1 DEF ChainOf
<1>3. History(d, h) \in Seq(Txs) /\ History(d, h + 1) = History(d, h) \o d[h + 1].txs
  BY <1>2, HistoryNext
<1> QED
  BY <1>1, <1>2, <1>3 DEF ChainOf

\* What execute_block makes of an accepted body on top of a history.
LEMMA ExecuteOnHistory ==
    ASSUME NEW t \in Seq(Txs), NEW u \in Seq(Txs)
    PROVE  LET e == ExecuteBlock(u, LastWrites(t), NoncesOf(t)) IN
           /\ e.ok = Accepted(u, NoncesOf(t), Len(u))
           /\ e.ok => e.state = LastWrites(t \o u) /\ e.nonces = NoncesOf(t \o u)
<1>1. LastWrites(t) \in States /\ NoncesOf(t) \in Nonces
  BY HistoryTyped
<1>2. ExecuteBlock(u, LastWrites(t), NoncesOf(t)) =
        [ok     |-> Accepted(u, NoncesOf(t), Len(u)),
         state  |-> IF Accepted(u, NoncesOf(t), Len(u))
                    THEN StateAfter(u, LastWrites(t), Len(u)) ELSE LastWrites(t),
         nonces |-> IF Accepted(u, NoncesOf(t), Len(u))
                    THEN NoncesAfter(u, NoncesOf(t), Len(u)) ELSE NoncesOf(t)]
  BY <1>1, ExecuteBlockIs
<1>3. /\ LastWrites(t \o u) = StateAfter(u, LastWrites(t), Len(u))
      /\ NoncesOf(t \o u) = NoncesAfter(u, NoncesOf(t), Len(u))
  BY ConcatIs
<1> QED
  BY <1>2, <1>3

\* The entries of the ledgers are what the transactions up to them compute.
LEMMA PostReplays ==
    ASSUME NEW post, IsHistory(post), Chained, NEW m \in 0 .. Len(decided)
    PROVE  /\ post[m].state = LastWrites(Applied(m))
           /\ post[m].nonces = NoncesOf(Applied(m))
<1> DEFINE H(h) == History(decided, h)
           OK(h) == post[h].state = LastWrites(H(h)) /\ post[h].nonces = NoncesOf(H(h))
           T == {h \in Nat : h <= Len(decided) => OK(h)}
<1>1. 0 \in T
  <2>1. LastWrites(H(0)) = EmptyState /\ NoncesOf(H(0)) = NoNonces
    BY HistoryStart, NothingApplied
  <2>2. post[0].state = EmptyState /\ post[0].nonces = NoNonces
    BY DEF IsHistory, Genesis
  <2> QED
    BY <2>1, <2>2
<1>2. ASSUME NEW h \in T PROVE h + 1 \in T
  <2>1. h \in Nat /\ h + 1 \in Nat
    OBVIOUS
  <2>2. ASSUME h + 1 <= Len(decided) PROVE OK(h + 1)
    <3> DEFINE b == decided[h + 1]
    <3>0. h + 1 \in 1 .. Len(decided) /\ h + 1 - 1 = h
      BY <2>1, <2>2 DEF Chained, ChainOf
    <3>1. OK(h)
      BY <2>2 DEF Chained, ChainOf
    <3>2. /\ H(h) \in Seq(Txs) /\ b.txs \in Seq(Txs)
          /\ H(h + 1) = H(h) \o b.txs
          /\ Accepted(b.txs, NoncesOf(H(h)), Len(b.txs))
      BY <2>1, <3>0, NextBody DEF Chained
    <3>3. post[h + 1] = After(post[h], b)
      BY <3>0 DEF IsHistory
    <3> HIDE DEF b, H
    <3>4. LET e == ExecuteBlock(b.txs, LastWrites(H(h)), NoncesOf(H(h))) IN
          e.state = LastWrites(H(h + 1)) /\ e.nonces = NoncesOf(H(h + 1))
      BY <3>2, ExecuteOnHistory
    <3> QED
      BY <3>1, <3>3, <3>4 DEF After
  <2> HIDE DEF OK
  <2> QED
    BY <2>1, <2>2
<1>3. T = Nat
  <2> HIDE DEF T
  <2> QED
    BY <1>1, <1>2, Induction DEF T
<1>4. OK(m)
  <2> HIDE DEF OK
  <2> QED
    BY <1>3 DEF Chained, ChainOf
<1>5. H(m) = Applied(m)
  BY DEF History, Applied
<1> QED
  BY <1>4, <1>5

\* A block is decided on top of the whole history, and continues it.
LEMMA DecideKeepsChained ==
    ASSUME Inv, Chained, NEW v \in Nodes, NEW txs \in Seq(Txs), Decide(v, txs)
    PROVE  Chained'
<1> DEFINE n == Len(decided)
           b == NewBlock(v, txs)
           H(h) == History(decided, h)
           G(h) == History(decided', h)
<1>0. PICK post : IsHistory(post) /\ Follows(v, post)
  BY DEF Inv
<1>1. /\ n \in Nat /\ n + 1 <= MaxHeight /\ n \in 0 .. n /\ height[v] = n + 1
      /\ height[v] - 1 = n
  BY DEF Decide, Chained, ChainOf
<1>2. /\ Len(decided') = n + 1 /\ decided'[n + 1] = b
      /\ \A h \in 1 .. n : decided'[h] = decided[h]
  BY AppendExtends DEF Decide, Inv, Shape
<1>3. Parent(v).state = LastWrites(H(n)) /\ Parent(v).nonces = NoncesOf(H(n))
  <2>1. Parent(v) = post[n]
    BY <1>0, <1>1, ParentIsPost
  <2>2. post[n].state = LastWrites(Applied(n)) /\ post[n].nonces = NoncesOf(Applied(n))
    BY <1>0, <1>1, PostReplays
  <2> QED
    BY <2>1, <2>2 DEF Applied, History
<1>4. ASSUME NEW h \in 0 .. n PROVE G(h) = H(h)
  <2>1. \A k \in 1 .. h : decided'[k] = decided[k]
    BY <1>1, <1>2
  <2>2. h \in Nat
    BY <1>1
  <2> QED
    BY <2>1, <2>2, HistorySame
<1>5. H(n) \in Seq(Txs) /\ b.txs = txs
  BY <1>1, ChainAccepted DEF Chained, NewBlock
<1>6. G(n + 1) = H(n) \o txs
  <2>1. \A k \in 1 .. n + 1 : decided'[k].txs \in Seq(Txs)
    BY <1>1, <1>2, <1>5 DEF Chained, ChainOf
  <2>2. G(n + 1) = G(n) \o decided'[n + 1].txs
    BY <1>1, <2>1, HistoryNext
  <2> QED
    BY <1>1, <1>2, <1>4, <1>5, <2>2
<1>7. Accepted(txs, NoncesOf(H(n)), Len(txs)) /\ b.state = LastWrites(H(n) \o txs)
  <2> HIDE DEF H
  <2>1. Execute(v, txs) = ExecuteBlock(txs, LastWrites(H(n)), NoncesOf(H(n)))
    BY <1>3 DEF Execute
  <2>2. Execute(v, txs).ok /\ b.state = Execute(v, txs).state
    BY DEF Decide, NewBlock
  <2> QED
    BY <1>5, <2>1, <2>2, ExecuteOnHistory
<1>8. ASSUME NEW h \in 1 .. n + 1
      PROVE  /\ decided'[h].txs \in Seq(Txs)
             /\ Accepted(decided'[h].txs, NoncesOf(G(h - 1)), Len(decided'[h].txs))
             /\ decided'[h].state = LastWrites(G(h))
  <2>1. CASE h = n + 1
    <3>1. h - 1 = n /\ G(h - 1) = H(n) /\ G(h) = H(n) \o txs /\ decided'[h] = b
      BY <1>1, <1>2, <1>4, <1>6, <2>1
    <3> HIDE DEF b, G, H
    <3> QED
      BY <1>5, <1>7, <3>1
  <2>2. CASE h # n + 1
    <3>1. h \in 1 .. n /\ h \in 0 .. n /\ h - 1 \in 0 .. n
      BY <1>1, <2>2
    <3>2. decided'[h] = decided[h] /\ G(h) = H(h) /\ G(h - 1) = H(h - 1)
      BY <1>2, <1>4, <3>1
    <3> HIDE DEF G
    <3> QED
      BY <3>1, <3>2 DEF Chained, ChainOf
  <2> QED
    BY <2>1, <2>2
<1>9. ChainOf(decided')
  BY <1>1, <1>2, <1>8 DEF ChainOf
<1> QED
  BY <1>9 DEF Chained

\* In every reachable state each decided block continues the history below it.
THEOREM DecidedChain == Spec => []Chained
<1>1. Init => Chained
  BY LedgerAssumption DEF Init, Chained, ChainOf
<1>2. ASSUME Inv, Chained, [Next]_vars PROVE Chained'
  <2>1. CASE UNCHANGED decided
    BY <1>2, <2>1 DEF Chained
  <2>2. ASSUME NEW v \in Nodes, NEW txs \in BoundedSeq(Txs, MaxTxs), Decide(v, txs) PROVE Chained'
    BY <1>2, <2>2, BoundedIsSeq, DecideKeepsChained
  <2> QED
    BY <1>2, <2>1, <2>2 DEF Next, Persist, Publish, PersistRaises, Restart, vars
<1> QED
  BY <1>1, <1>2, OneHistory, PTL DEF Spec

\* The entries of a history have their types.
LEMMA PostTyped ==
    ASSUME NEW post, IsHistory(post), Chained, NEW h \in 0 .. Len(decided)
    PROVE  EntryOK(post[h])
<1>1. History(decided, h) \in Seq(Txs) /\ h \in 0 .. MaxHeight
  BY LedgerAssumption, ChainAccepted DEF Chained, ChainOf
<1>2. post[h].state \in States /\ post[h].nonces \in Nonces
  <2>1. History(decided, h) = Applied(h)
    BY DEF History, Applied
  <2> QED
    BY <1>1, <2>1, PostReplays, HistoryTyped
<1>3. CASE h = 0
  <2>1. post[h] = Genesis
    BY <1>3 DEF IsHistory
  <2> QED
    BY <1>1, <1>2, <1>3, <2>1 DEF EntryOK, Genesis
<1>4. CASE h # 0
  <2>1. h \in 1 .. Len(decided)
    BY <1>4
  <2>2. post[h].height = h /\ post[h] = After(post[h - 1], decided[h])
    BY <2>1, HeightOfPost DEF IsHistory
  <2>3. DOMAIN post[h] = {"height", "block", "state", "nonces"}
    BY <2>2 DEF After
  <2> QED
    BY <1>1, <1>2, <2>2, <2>3 DEF EntryOK
<1> QED
  BY <1>3, <1>4

\* Every reachable state is well typed.
THEOREM LedgerTypes == Spec => []TypeOK
<1>1. ASSUME Inv, Chained PROVE TypeOK
  <2>1. PICK post : IsHistory(post) /\ \A v \in Nodes : Follows(v, post)
    BY <1>1 DEF Inv
  <2>2. DOMAIN decided = 1 .. Len(decided) /\ Len(decided) \in 0 .. MaxHeight /\ MaxHeight \in Nat
    BY <1>1, LedgerAssumption DEF Inv, Shape, IsSequence, Chained, ChainOf
  <2>3. ASSUME NEW h \in DOMAIN decided
        PROVE  /\ decided[h].height = h
               /\ decided[h].txs \in Seq(Txs) /\ decided[h].state \in States
    <3>1. h \in 1 .. Len(decided) /\ h \in 0 .. Len(decided)
      BY <2>2
    <3>2. History(decided, h) \in Seq(Txs)
      BY <1>1, <3>1, ChainAccepted DEF Chained
    <3> QED
      BY <1>1, <2>1, <3>1, <3>2, HistoryTyped DEF IsHistory, Chained, ChainOf
  <2>4. ASSUME NEW v \in Nodes
        PROVE  /\ height[v] \in 1 .. MaxHeight + 1
               /\ DOMAIN entries[v] \subseteq 1 .. MaxHeight
               /\ \A h \in DOMAIN entries[v] : EntryOK(entries[v][h])
               /\ EntryOK(disk[v]) /\ EntryOK(unpublished[v])
    <3>1. Follows(v, post) /\ height[v] \in 1 .. Len(decided) + 1
      BY <2>1 DEF Follows
    <3>2. height[v] \in 1 .. MaxHeight + 1
      BY <2>2, <3>1
    <3>3. ASSUME NEW h \in DOMAIN entries[v]
          PROVE  h \in 1 .. MaxHeight /\ EntryOK(entries[v][h])
      <4>1. h \in 1 .. height[v] - 1 /\ entries[v][h] = post[h]
        BY <3>1 DEF Follows
      <4>2. h \in 1 .. MaxHeight /\ h \in 0 .. Len(decided)
        BY <2>2, <3>1, <4>1
      <4> QED
        BY <1>1, <2>1, <4>1, <4>2, PostTyped
    <3>4. EntryOK(disk[v])
      BY <1>1, <2>1, <3>1, PostTyped DEF Follows
    <3>5. EntryOK(unpublished[v])
      <4>1. CASE Ready(v)
        <5>1. unpublished[v] = post[0] /\ 0 \in 0 .. Len(decided)
          BY <2>1, <2>2, <4>1 DEF Ready, IsHistory
        <5> QED
          BY <1>1, <2>1, <5>1, PostTyped
      <4>2. CASE ~ Ready(v)
        <5>1. unpublished[v] = post[height[v]] /\ height[v] \in 0 .. Len(decided)
          BY <2>2, <3>1, <4>2 DEF Follows
        <5> QED
          BY <1>1, <2>1, <5>1, PostTyped
      <4> QED
        BY <4>1, <4>2
    <3> QED
      BY <3>2, <3>3, <3>4, <3>5
  <2> QED
    BY <2>3, <2>4 DEF TypeOK
<1> QED
  BY <1>1, OneHistory, DecidedChain, PTL

\* On every parent that a reachable state offers, execute_block accepts the
\* bodies and computes the results that ExecutionIsSequential says.
THEOREM ExecutesSequentially == Spec => []ExecutionIsSequential
<1>1. ASSUME Inv, Chained PROVE ExecutionIsSequential
  <2>1. PICK post : IsHistory(post) /\ \A v \in Nodes : Follows(v, post)
    BY <1>1 DEF Inv
  <2>2. ASSUME NEW v \in Nodes PROVE Parent(v).state \in States /\ Parent(v).nonces \in Nonces
    <3>1. Parent(v) = post[height[v] - 1]
      BY <2>1, ParentIsPost
    <3>2. height[v] - 1 \in 0 .. Len(decided)
      BY <2>1, <1>1 DEF Follows, Chained, ChainOf
    <3>3. EntryOK(post[height[v] - 1])
      BY <1>1, <2>1, <3>2, PostTyped
    <3> QED
      BY <3>1, <3>3 DEF EntryOK
  <2> QED
    BY <2>2, SequentialIfTyped
<1> QED
  BY <1>1, OneHistory, DecidedChain, PTL

\* No transaction is in the decided chain twice: all of them have been accepted
\* one after the other, whoever proposed the blocks and whatever crashed.
THEOREM TransactionsApplyOnce == Spec => []AppliedOnce
<1>1. ASSUME Chained PROVE AppliedOnce
  <2> DEFINE txs == History(decided, Len(decided))
  <2>1. txs \in Seq(Txs) /\ Accepted(txs, NoNonces, Len(txs))
    BY <1>1, ChainAccepted DEF Chained, ChainOf
  <2> HIDE DEF txs
  <2>2. \A i \in 1 .. Len(txs) : NoNonces[txs[i].sender] \in Nat
    BY <2>1, ExecutionAssumption DEF NoNonces
  <2>3. Len(txs) \in Nat /\ DOMAIN txs = 1 .. Len(txs)
    BY <2>1
  <2>4. \A i, j \in DOMAIN txs : txs[i] = txs[j] => i = j
    BY <2>1, <2>2, <2>3, AcceptedOnce
  <2> QED
    BY <2>4 DEF AppliedOnce, IsInjective, Applied, History, txs
<1> QED
  BY <1>1, DecidedChain, PTL

\* Whatever a validator holds, in memory, on disk or about to be published, is
\* what the transactions up to its height compute, also after a recovery.
THEOREM EntriesReplay == Spec => []HoldsReplay
<1>1. ASSUME Inv, Chained PROVE HoldsReplay
  <2>1. PICK post : IsHistory(post) /\ \A v \in Nodes : Follows(v, post)
    BY <1>1 DEF Inv
  <2>2. ASSUME NEW h \in 1 .. Len(decided)
        PROVE  LET txs == Applied(post[h].height) IN
               /\ post[h].block = decided[post[h].height]
               /\ post[h].state = LastWrites(txs)
               /\ post[h].nonces = [s \in Senders |-> SentBy(txs, s)]
    <3>1. post[h].height = h /\ post[h] = After(post[h - 1], decided[h])
      BY <2>1, HeightOfPost DEF IsHistory
    <3>2. h \in 0 .. Len(decided)
      OBVIOUS
    <3>3. post[h].state = LastWrites(Applied(h)) /\ post[h].nonces = NoncesOf(Applied(h))
      BY <1>1, <2>1, <3>2, PostReplays
    <3>4. post[h].block = decided[h]
      BY <3>1 DEF After
    <3> QED
      BY <3>1, <3>3, <3>4 DEF NoncesOf
  <2>3. ASSUME NEW v \in Nodes, NEW e \in Holds(v)
        PROVE  \E h \in 1 .. Len(decided) : e = post[h]
    <3>0. Follows(v, post) /\ Len(decided) \in Nat
      BY <1>1, <2>1 DEF Chained, ChainOf
    <3>1. ASSUME NEW h \in DOMAIN entries[v] PROVE h \in 1 .. Len(decided) /\ entries[v][h] = post[h]
      BY <3>0 DEF Follows
    <3>2. ASSUME disk[v] # Genesis PROVE \E h \in 1 .. Len(decided) : disk[v] = post[h]
      <4>1. disk[v] = post[disk[v].height] /\ disk[v].height \in 0 .. Len(decided)
        BY <3>0 DEF Follows
      <4>2. disk[v].height # 0
        BY <2>1, <3>2, <4>1 DEF IsHistory
      <4> QED
        BY <4>1, <4>2
    <3>3. ASSUME unpublished[v] # Genesis PROVE \E h \in 1 .. Len(decided) : unpublished[v] = post[h]
      <4>1. unpublished[v] = post[height[v]] /\ height[v] \in 1 .. Len(decided)
        BY <3>0, <3>3 DEF Follows, Ready
      <4> QED
        BY <4>1
    <3> QED
      BY <3>1, <3>2, <3>3 DEF Holds
  <2> QED
    BY <2>2, <2>3 DEF HoldsReplay
<1> QED
  BY <1>1, OneHistory, DecidedChain, PTL
=============================================================================
