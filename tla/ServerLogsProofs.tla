-------------------------- MODULE ServerLogsProofs --------------------------
(***************************************************************************)
(* Proofs about ServerLogs, for every capacity and any number of entries   *)
(* and subscribers: the ring, what a subscriber was sent, and what a poll  *)
(* may lose.                                                               *)
(***************************************************************************)
EXTENDS ServerLogs, WellFoundedInduction, TLAPS

\* Ring positions: two offsets below the capacity from the same head address
\* different slots, which is what lets Append overwrite only the oldest item.
LEMMA SlotsAreDistinct ==
    ASSUME NEW c \in Nat \ {0}, NEW h \in 0..c-1,
           NEW i \in 0..c-1, NEW j \in 0..c-1, i # j
    PROVE  (h + i) % c # (h + j) % c
<1>1. (h + i) % c = IF h + i < c THEN h + i ELSE h + i - c
  OBVIOUS
<1>2. (h + j) % c = IF h + j < c THEN h + j ELSE h + j - c
  OBVIOUS
<1> QED BY <1>1, <1>2

\* Moving head one slot forward shifts every offset by one, wrap-around included.
LEMMA HeadShift ==
    ASSUME NEW c \in Nat \ {0}, NEW h \in 0..c-1, NEW i \in 0..c-1
    PROVE  /\ (h + 1) % c \in 0..c-1
           /\ (((h + 1) % c) + i) % c = (h + (i + 1)) % c
<1>1. (h + 1) % c = IF h + 1 < c THEN h + 1 ELSE 0
  OBVIOUS
<1>2. CASE h + 1 < c
  BY <1>1, <1>2
<1>3. CASE h + 1 = c
  <2>1. (h + (i + 1)) % c = (i + c) % c
    BY <1>3
  <2>2. (i + c) % c = i
    OBVIOUS
  <2>3. (0 + i) % c = i
    OBVIOUS
  <2> QED BY <1>1, <1>3, <2>1, <2>2, <2>3
<1> QED BY <1>2, <1>3

RingInv == RingTypeOK /\ RingIsWindow

LEMMA RingInit == Init => RingInv
BY CapacityAssumption DEF Init, RingInv, RingTypeOK, RingIsWindow, Item

\* Append keeps the window: below capacity the new slot is the one after the
\* newest, at capacity it is the oldest one's and head moves past it.
LEMMA AppendKeepsWindow ==
    ASSUME RingInv, NEW e \in Entry, Append1(e)
    PROVE  RingInv'
<1> USE CapacityAssumption
<1>a. /\ buf \in [0..Capacity-1 -> Item] /\ next \in Nat \ {0}
      /\ head \in 0..Capacity-1 /\ size \in 0..Capacity /\ hist \in Seq(Entry)
      /\ next = Len(hist) + 1
      /\ size = IF Len(hist) < Capacity THEN Len(hist) ELSE Capacity
  BY DEF RingInv, RingTypeOK, RingIsWindow
<1>b. \A i \in 0..size-1 :
         buf[(head + i) % Capacity] = [seq |-> next - size + i, val |-> hist[next - size + i]]
  BY DEF RingInv, RingIsWindow, Slot
<1> DEFINE pos == (head + size) % Capacity
<1>1. pos \in 0..Capacity-1
  BY <1>a
<1>2. buf' = [buf EXCEPT ![pos] = [seq |-> next, val |-> e]]
  BY DEF Append1
<1>c. next' = next + 1 /\ hist' = Append(hist, e)
  BY DEF Append1
<1>d. IF size < Capacity
      THEN size' = size + 1 /\ head' = head
      ELSE size' = size     /\ head' = (head + 1) % Capacity
  BY Zenon DEF Append1
<1>e. next' \in Nat \ {0}
  BY <1>a, <1>c
<1>3. /\ hist' \in Seq(Entry) /\ Len(hist') = Len(hist) + 1
      /\ hist'[Len(hist) + 1] = e
      /\ \A n \in 1..Len(hist) : hist'[n] = hist[n]
  BY <1>a, <1>c
<1>4. buf' \in [0..Capacity-1 -> Item]
  BY <1>a, <1>1, <1>2 DEF Item
<1>5. CASE size < Capacity
  <2>1. size' = size + 1 /\ head' = head
    BY <1>5, <1>d
  <2>2. RingTypeOK'
    BY <1>a, <1>e, <1>3, <1>4, <1>5, <2>1 DEF RingTypeOK
  <2>3. ASSUME NEW i \in 0..size'-1
        PROVE  Slot(i)' = [seq |-> next' - size' + i, val |-> hist'[next' - size' + i]]
    <3>1. CASE i = size
      <4>1. Slot(i)' = [seq |-> next, val |-> e]
        BY <1>a, <1>1, <1>2, <2>1, <3>1 DEF Slot
      <4>2. next' - size' + i = next
        BY <1>a, <1>c, <2>1, <3>1
      <4> QED BY <4>1, <4>2, <1>a, <1>3
    <3>2. CASE i # size
      <4>1. i \in 0..size-1
        BY <1>a, <2>1, <3>2
      <4>2. (head + i) % Capacity # pos
        <5>1. size \in 0..Capacity-1 /\ i \in 0..Capacity-1
          BY <1>a, <1>5, <4>1
        <5> QED BY <1>a, <3>2, <5>1, SlotsAreDistinct
      <4>3. Slot(i)' = buf[(head + i) % Capacity]
        BY <1>a, <1>1, <1>2, <2>1, <4>1, <4>2 DEF Slot
      <4>4. next' - size' + i = next - size + i /\ next - size + i \in 1..Len(hist)
        BY <1>a, <1>c, <2>1, <4>1
      <4>5. buf[(head + i) % Capacity]
              = [seq |-> next - size + i, val |-> hist[next - size + i]]
        BY <1>b, <4>1
      <4> QED BY <1>3, <4>3, <4>4, <4>5
    <3> QED BY <3>1, <3>2
  <2>4. RingIsWindow'
    BY <1>a, <1>c, <1>3, <1>5, <2>1, <2>3 DEF RingIsWindow
  <2> QED BY <2>2, <2>4 DEF RingInv
<1>6. CASE size = Capacity
  <2>1. size' = size /\ head' = (head + 1) % Capacity
    <3>1. ~(size < Capacity)
      BY <1>6
    <3> QED BY <3>1, <1>d
  <2>2. pos = head
    BY <1>6, <1>a
  <2>3. head' \in 0..Capacity-1
    BY <1>a, <2>1
  <2>4. RingTypeOK'
    BY <1>a, <1>e, <1>3, <1>4, <2>1, <2>3 DEF RingTypeOK
  <2>5. ASSUME NEW i \in 0..size'-1
        PROVE  Slot(i)' = [seq |-> next' - size' + i, val |-> hist'[next' - size' + i]]
    <3>0. i \in 0..Capacity-1
      BY <1>6, <2>1
    <3>1. Slot(i)' = buf'[(head + (i + 1)) % Capacity]
      BY <1>a, <2>1, <3>0, HeadShift DEF Slot
    <3>2. CASE i = Capacity - 1
      <4>1. (head + (i + 1)) % Capacity = head
        BY <1>a, <3>2
      <4>2. Slot(i)' = [seq |-> next, val |-> e]
        BY <1>a, <1>1, <1>2, <2>2, <3>1, <4>1
      <4>3. next' - size' + i = next
        BY <1>a, <1>c, <1>6, <2>1, <3>2
      <4> QED BY <1>a, <1>3, <4>2, <4>3
    <3>3. CASE i # Capacity - 1
      <4>1. i + 1 \in 0..size-1 /\ i + 1 \in 0..Capacity-1 /\ i + 1 # 0
        BY <1>6, <3>0, <3>3
      <4>2. (head + (i + 1)) % Capacity # (head + 0) % Capacity
        <5>1. 0 \in 0..Capacity-1
          OBVIOUS
        <5> QED BY <1>a, <4>1, <5>1, SlotsAreDistinct
      <4>3. (head + 0) % Capacity = head /\ (head + (i + 1)) % Capacity \in 0..Capacity-1
        BY <1>a, <3>0
      <4>4. Slot(i)' = buf[(head + (i + 1)) % Capacity]
        BY <1>a, <1>2, <2>2, <3>1, <4>2, <4>3
      <4>5. buf[(head + (i + 1)) % Capacity]
              = [seq |-> next - size + (i + 1), val |-> hist[next - size + (i + 1)]]
        BY <1>b, <4>1
      <4>6. next' - size' + i = next - size + (i + 1)
            /\ next - size + (i + 1) \in 1..Len(hist)
        BY <1>a, <1>c, <2>1, <4>1
      <4> QED BY <1>3, <4>4, <4>5, <4>6
    <3> QED BY <3>2, <3>3
  <2>6. RingIsWindow'
    <3>1. size' = size
      BY <2>1
    <3>2. next' = Len(hist') + 1
          /\ size' = IF Len(hist') < Capacity THEN Len(hist') ELSE Capacity
      BY <1>a, <1>c, <1>3, <1>6, <3>1
    <3> QED BY <2>5, <3>2, Zenon DEF RingIsWindow
  <2> QED BY <2>4, <2>6 DEF RingInv
<1> QED BY <1>a, <1>5, <1>6

LEMMA RingInvStutter == RingInv /\ UNCHANGED ringVars => RingInv'
BY DEF RingInv, RingTypeOK, RingIsWindow, Slot, ringVars

LEMMA RingStep == RingInv /\ [Next]_vars => RingInv'
<1> SUFFICES ASSUME RingInv, [Next]_vars PROVE RingInv'
  OBVIOUS
<1>1. ASSUME NEW e \in Entry, LogEntry(e) PROVE RingInv'
  BY <1>1, AppendKeepsWindow DEF LogEntry
<1>2. ASSUME NEW s \in Streams, NEW b \in 0..Capacity, Connect(s, b) PROVE RingInv'
  BY <1>2, RingInvStutter DEF Connect
<1>3. ASSUME NEW s \in Streams, Poll(s) PROVE RingInv'
  BY <1>3, RingInvStutter DEF Poll, ringVars
<1>4. ASSUME NEW s \in Streams, Leave(s) PROVE RingInv'
  BY <1>4, RingInvStutter DEF Leave, ringVars
<1>5. CASE UNCHANGED vars
  BY <1>5, RingInvStutter DEF vars, ringVars
<1> QED BY <1>1, <1>2, <1>3, <1>4, <1>5 DEF Next

\* For every capacity: the ring that Append maintains is the window of the last
\* entries of the history, and its indices stay in range.
THEOREM RingCorrect == Spec => [](RingTypeOK /\ RingIsWindow)
<1>1. Spec => []RingInv
  BY RingInit, RingStep, PTL DEF Spec
<1> QED BY <1>1, PTL DEF RingInv

-----------------------------------------------------------------------------
(* The loop of Since *)

\* Induction over the naturals in the form the provers can use: a set of naturals has a
\* least member.
LEMMA LeastNat ==
    ASSUME NEW T, T \subseteq Nat, T # {}
    PROVE  \E n \in T : \A m \in T : n <= m
<1>1. PICK n \in T : \A y \in T : ~(<<y, n>> \in OpToRel(<, Nat))
  BY WFMin, NatLessThanWellFounded
<1>2. \A y \in T : ~(y < n)
  BY <1>1 DEF OpToRel
<1> QED BY <1>2

\* The result of the loop after each of the first n items.
Loop(out, items, keep, n) ==
    out = [i \in 0..n |-> IF i = 0 THEN <<>>
                          ELSE IF items[i] \in keep THEN Append(out[i - 1], items[i]) ELSE out[i - 1]]

Increasing(items) ==
    \A j, k \in 1..Len(items) : j < k => items[j].seq < items[k].seq

LEMMA LoopExists ==
    ASSUME NEW items, NEW keep, NEW n \in Nat
    PROVE  \E out : Loop(out, items, keep, n)
<1> DEFINE T == {m \in Nat : ~\E out : Loop(out, items, keep, m)}
<1> SUFFICES ASSUME T # {} PROVE FALSE
  OBVIOUS
<1>1. PICK m \in T : \A k \in T : m <= k
  BY LeastNat
<1>2. m # 0
  <2> DEFINE f == [i \in 0..0 |-> <<>>]
  <2>1. Loop(f, items, keep, 0)
    BY DEF Loop
  <2> QED BY <2>1
<1>3. PICK g : Loop(g, items, keep, m - 1)
  BY <1>1, <1>2
<1> DEFINE last == IF items[m] \in keep THEN Append(g[m - 1], items[m]) ELSE g[m - 1]
           h == [i \in 0..m |-> IF i = m THEN last ELSE g[i]]
<1>4. \A i \in 0..(m - 1) :
        g[i] = IF i = 0 THEN <<>>
               ELSE IF items[i] \in keep THEN Append(g[i - 1], items[i]) ELSE g[i - 1]
  BY <1>3 DEF Loop
<1>5. h[m] = last /\ \A i \in 0..(m - 1) : h[i] = g[i]
  OBVIOUS
<1> HIDE DEF last
<1>6. ASSUME NEW i \in 0..m
      PROVE  h[i] = IF i = 0 THEN <<>>
                    ELSE IF items[i] \in keep THEN Append(h[i - 1], items[i]) ELSE h[i - 1]
  <2>1. CASE i = m
    <3>1. h[i - 1] = g[m - 1]
      BY <1>2, <1>5, <2>1
    <3> QED BY <1>2, <1>5, <2>1, <3>1 DEF last
  <2>2. CASE i # m
    <3>1. i \in 0..(m - 1) /\ (i # 0 => i - 1 \in 0..(m - 1))
      BY <2>2
    <3> QED BY <1>4, <1>5, <3>1
  <2> QED BY <2>1, <2>2
<1>7. h = [i \in 0..m |-> h[i]]
  OBVIOUS
<1> HIDE DEF h
<1>8. Loop(h, items, keep, m)
  BY <1>6, <1>7 DEF Loop
<1> QED BY <1>8

LEMMA KeptIsLoop ==
    ASSUME NEW items, NEW keep, Len(items) \in Nat
    PROVE  \E out : Loop(out, items, keep, Len(items)) /\ Kept(items, keep) = out[Len(items)]
<1> DEFINE out == CHOOSE f : Loop(f, items, keep, Len(items))
<1>1. Loop(out, items, keep, Len(items))
  BY LoopExists
<1>2. Kept(items, keep) = out[Len(items)]
  BY DEF Kept, Loop
<1> HIDE DEF out
<1> QED BY <1>1, <1>2

\* After n items the result holds exactly those of them that are to be kept, in order.
KeptSoFar(r, items, keep, n) ==
    /\ r \in Seq(Item)
    /\ \A j \in 1..Len(r) : \E m \in 1..n : r[j] = items[m] /\ items[m] \in keep
    /\ \A m \in 1..n : items[m] \in keep => \E j \in 1..Len(r) : r[j] = items[m]
    /\ Increasing(r)

LEMMA LoopStep ==
    ASSUME NEW items \in Seq(Item), Increasing(items), NEW keep, NEW n \in 1..Len(items),
           NEW r, KeptSoFar(r, items, keep, n - 1)
    PROVE  KeptSoFar(IF items[n] \in keep THEN Append(r, items[n]) ELSE r, items, keep, n)
<1>1. n \in Nat /\ n - 1 \in Nat /\ items[n] \in Item /\ r \in Seq(Item) /\ Len(r) \in Nat
  BY DEF KeptSoFar
<1>2. CASE items[n] \notin keep
  BY <1>1, <1>2 DEF KeptSoFar
<1>3. CASE items[n] \in keep
  <2> DEFINE t == Append(r, items[n])
  <2>1. /\ t \in Seq(Item) /\ Len(t) = Len(r) + 1 /\ t[Len(r) + 1] = items[n]
        /\ \A j \in 1..Len(r) : t[j] = r[j]
    BY <1>1
  <2> HIDE DEF t
  <2>2. ASSUME NEW j \in 1..Len(t) PROVE (j \in 1..Len(r) /\ t[j] = r[j]) \/ (j = Len(r) + 1 /\ t[j] = items[n])
    BY <1>1, <2>1
  <2>3. ASSUME NEW j \in 1..Len(t) PROVE \E m \in 1..n : t[j] = items[m] /\ items[m] \in keep
    <3>1. CASE j \in 1..Len(r) /\ t[j] = r[j]
      <4>1. PICK m \in 1..(n - 1) : r[j] = items[m] /\ items[m] \in keep
        BY <3>1 DEF KeptSoFar
      <4> QED BY <1>1, <3>1, <4>1
    <3>2. CASE t[j] = items[n]
      BY <1>1, <1>3, <3>2
    <3> QED BY <2>2, <3>1, <3>2
  <2>4. ASSUME NEW m \in 1..n, items[m] \in keep PROVE \E j \in 1..Len(t) : t[j] = items[m]
    <3>1. CASE m = n
      BY <1>1, <2>1, <3>1
    <3>2. CASE m # n
      <4>1. PICK j \in 1..Len(r) : r[j] = items[m]
        BY <1>1, <2>4, <3>2 DEF KeptSoFar
      <4> QED BY <1>1, <2>1, <4>1
    <3> QED BY <3>1, <3>2
  <2>5. ASSUME NEW j \in 1..Len(t), NEW k \in 1..Len(t), j < k PROVE t[j].seq < t[k].seq
    <3>1. j \in 1..Len(r) /\ t[j] = r[j]
      BY <1>1, <2>1, <2>5
    <3>2. CASE k \in 1..Len(r) /\ t[k] = r[k]
      BY <2>5, <3>1, <3>2 DEF KeptSoFar, Increasing
    <3>3. CASE t[k] = items[n]
      <4>1. PICK m \in 1..(n - 1) : r[j] = items[m]
        BY <3>1 DEF KeptSoFar
      <4>2. items[m].seq < items[n].seq
        BY <1>1, <4>1 DEF Increasing
      <4> QED BY <3>1, <3>3, <4>1, <4>2
    <3> QED BY <2>2, <3>2, <3>3
  <2>6. KeptSoFar(t, items, keep, n)
    BY <2>1, <2>3, <2>4, <2>5 DEF KeptSoFar, Increasing
  <2> QED BY <1>3, <2>6 DEF t
<1> QED BY <1>2, <1>3

\* The loop returns the items to be kept, all of them and no other, in their order.
LEMMA KeptIs ==
    ASSUME NEW items \in Seq(Item), Increasing(items), NEW keep
    PROVE  KeptSoFar(Kept(items, keep), items, keep, Len(items))
<1>1. Len(items) \in Nat
  OBVIOUS
<1>2. PICK out : Loop(out, items, keep, Len(items)) /\ Kept(items, keep) = out[Len(items)]
  BY <1>1, KeptIsLoop
<1>3. \A i \in 0..Len(items) :
        out[i] = IF i = 0 THEN <<>>
                 ELSE IF items[i] \in keep THEN Append(out[i - 1], items[i]) ELSE out[i - 1]
  BY <1>2 DEF Loop
<1> DEFINE T == {n \in 0..Len(items) : ~KeptSoFar(out[n], items, keep, n)}
<1>4. T = {}
  <2> SUFFICES ASSUME T # {} PROVE FALSE
    OBVIOUS
  <2>1. T \subseteq Nat
    BY <1>1
  <2> HIDE DEF T
  <2>2. PICK n \in T : \A m \in T : n <= m
    BY <2>1, LeastNat
  <2>3. n \in 0..Len(items) /\ ~KeptSoFar(out[n], items, keep, n)
    BY DEF T
  <2>4. n # 0
    <3>1. KeptSoFar(<<>>, items, keep, 0)
      BY DEF KeptSoFar, Increasing
    <3> QED BY <1>1, <1>3, <2>3, <3>1
  <2>5. n - 1 \in 0..Len(items) /\ n \in 1..Len(items) /\ n - 1 \notin T
    BY <1>1, <2>2, <2>3, <2>4
  <2>6. KeptSoFar(out[n - 1], items, keep, n - 1)
    BY <2>5 DEF T
  <2>7. out[n] = IF items[n] \in keep THEN Append(out[n - 1], items[n]) ELSE out[n - 1]
    BY <1>3, <2>3, <2>4
  <2> QED BY <2>3, <2>5, <2>6, <2>7, LoopStep
<1>5. Len(items) \in 0..Len(items)
  BY <1>1
<1> QED BY <1>2, <1>4, <1>5

-----------------------------------------------------------------------------
(* Since, as a subscriber sees it *)

\* What the ring says of one item: it is an entry of the history, still buffered.
OfHistory(it) ==
    /\ it.seq \in 1..Len(hist) /\ it.seq > Len(hist) - Capacity
    /\ it.val = hist[it.seq]

LEMMA BufferedIs ==
    ASSUME RingInv
    PROVE  /\ Buffered \in Seq(Item) /\ Increasing(Buffered)
           /\ \A j \in 1..Len(Buffered) : OfHistory(Buffered[j])
           /\ \A n \in 1..Len(hist) : n > Len(hist) - Capacity =>
                \E j \in 1..Len(Buffered) : Buffered[j].seq = n
<1> USE CapacityAssumption
<1>1. /\ buf \in [0..Capacity-1 -> Item] /\ head \in 0..Capacity-1 /\ size \in 0..Capacity
      /\ Len(hist) \in Nat /\ next = Len(hist) + 1
      /\ size = IF Len(hist) < Capacity THEN Len(hist) ELSE Capacity
  BY DEF RingInv, RingTypeOK, RingIsWindow
<1>2. ASSUME NEW j \in 1..size
      PROVE  /\ Buffered[j] \in Item /\ Buffered[j].seq = Len(hist) - size + j
             /\ Buffered[j].val = hist[Len(hist) - size + j]
  <2>1. j - 1 \in 0..size-1 /\ (head + (j - 1)) % Capacity \in 0..Capacity-1
    BY <1>1
  <2>2. Buffered[j] = Slot(j - 1) /\ Slot(j - 1) \in Item
    BY <1>1, <2>1 DEF Buffered, Slot
  <2>3. Slot(j - 1) = [seq |-> next - size + (j - 1), val |-> hist[next - size + (j - 1)]]
    BY <2>1 DEF RingInv, RingIsWindow
  <2>4. next - size + (j - 1) = Len(hist) - size + j
    BY <1>1
  <2> QED BY <2>2, <2>3, <2>4
<1>3. Buffered \in Seq(Item) /\ Len(Buffered) = size
  <2>1. Buffered \in [1..size -> Item]
    BY <1>2 DEF Buffered
  <2> QED BY <1>1, <2>1
<1>4. Increasing(Buffered)
  BY <1>1, <1>2, <1>3 DEF Increasing
<1>5. ASSUME NEW j \in 1..size PROVE OfHistory(Buffered[j])
  <2>1. Len(hist) - size + j \in 1..Len(hist) /\ Len(hist) - size + j > Len(hist) - Capacity
    BY <1>1
  <2> QED BY <1>2, <2>1 DEF OfHistory
<1>6. ASSUME NEW n \in 1..Len(hist), n > Len(hist) - Capacity
      PROVE  \E j \in 1..size : Buffered[j].seq = n
  <2> DEFINE j == n - (Len(hist) - size)
  <2>1. j \in 1..size /\ Len(hist) - size + j = n
    BY <1>1, <1>6
  <2> HIDE DEF j
  <2> QED BY <1>2, <2>1
<1> QED BY <1>3, <1>4, <1>5, <1>6

\* serverlogs.Since: the buffered entries after the cursor that the organisation may see,
\* all of them, in order; and the cursor of the newest entry.
Tails(r, seq, org) ==
    LET items == VisibleItems(r.items, org) IN
    /\ r.latest = Len(hist)
    /\ items \in Seq(Item) /\ Increasing(items)
    /\ \A j \in 1..Len(items) : /\ OfHistory(items[j]) /\ items[j].seq > seq
                                /\ Visible(items[j].val, org)
    /\ \A n \in 1..Len(hist) :
          n > seq /\ n > Len(hist) - Capacity /\ Visible(hist[n], org) =>
            \E j \in 1..Len(items) : items[j].seq = n

LEMMA SinceTails ==
    ASSUME RingInv, NEW seq \in Nat, seq <= Len(hist), NEW org
    PROVE  Tails(RingSince(seq), seq, org)
<1> USE CapacityAssumption
<1> DEFINE r == RingSince(seq)
           vis == {it \in Item : Visible(it.val, org)}
           new == {it \in Item : it.seq > seq}
           items == VisibleItems(r.items, org)
<1>1. /\ size \in 0..Capacity /\ Len(hist) \in Nat /\ next = Len(hist) + 1
      /\ size = IF Len(hist) < Capacity THEN Len(hist) ELSE Capacity
  BY DEF RingInv, RingTypeOK, RingIsWindow
<1>2. /\ r.latest = Len(hist) /\ r.items \in Seq(Item) /\ Increasing(r.items)
      /\ \A j \in 1..Len(r.items) : OfHistory(r.items[j]) /\ r.items[j].seq > seq
      /\ \A n \in 1..Len(hist) : n > seq /\ n > Len(hist) - Capacity =>
            \E j \in 1..Len(r.items) : r.items[j].seq = n
  <2>1. CASE size = 0 \/ seq >= next - 1
    <3>1. r.items = <<>> /\ r.latest = seq
      BY <2>1 DEF RingSince
    <3>2. seq = Len(hist)
      BY <1>1, <2>1
    <3> HIDE DEF r
    <3> QED BY <1>1, <3>1, <3>2 DEF Increasing
  <2>2. CASE ~(size = 0 \/ seq >= next - 1)
    <3>1. r.items = Kept(Buffered, new) /\ r.latest = Len(hist)
      BY <1>1, <2>2 DEF RingSince
    <3>2. KeptSoFar(r.items, Buffered, new, Len(Buffered))
      BY <3>1, BufferedIs, KeptIs
    <3> HIDE DEF r
    <3>3. r.items \in Seq(Item) /\ Increasing(r.items)
      BY <3>2 DEF KeptSoFar
    <3>4. ASSUME NEW j \in 1..Len(r.items) PROVE OfHistory(r.items[j]) /\ r.items[j].seq > seq
      <4>1. PICK m \in 1..Len(Buffered) : r.items[j] = Buffered[m] /\ Buffered[m] \in new
        BY <3>2 DEF KeptSoFar
      <4> QED BY <4>1, BufferedIs
    <3>5. ASSUME NEW n \in 1..Len(hist), n > seq, n > Len(hist) - Capacity
          PROVE  \E j \in 1..Len(r.items) : r.items[j].seq = n
      <4>1. PICK m \in 1..Len(Buffered) : Buffered[m].seq = n
        BY <3>5, BufferedIs
      <4>2. Buffered[m] \in new
        BY <3>5, <4>1, BufferedIs
      <4>3. PICK j \in 1..Len(r.items) : r.items[j] = Buffered[m]
        BY <3>2, <4>2 DEF KeptSoFar
      <4> QED BY <4>1, <4>3
    <3> QED BY <3>1, <3>3, <3>4, <3>5
  <2> QED BY <2>1, <2>2
<1> HIDE DEF r
<1>3. KeptSoFar(items, r.items, vis, Len(r.items))
  BY <1>2, KeptIs DEF VisibleItems
<1> HIDE DEF items
<1>4. items \in Seq(Item) /\ Increasing(items)
  BY <1>3 DEF KeptSoFar
<1>5. ASSUME NEW j \in 1..Len(items)
      PROVE  OfHistory(items[j]) /\ items[j].seq > seq /\ Visible(items[j].val, org)
  <2>1. PICK m \in 1..Len(r.items) : items[j] = r.items[m] /\ r.items[m] \in vis
    BY <1>3 DEF KeptSoFar
  <2> QED BY <1>2, <2>1
<1>6. ASSUME NEW n \in 1..Len(hist), n > seq, n > Len(hist) - Capacity, Visible(hist[n], org)
      PROVE  \E j \in 1..Len(items) : items[j].seq = n
  <2>1. PICK m \in 1..Len(r.items) : r.items[m].seq = n
    BY <1>2, <1>6
  <2>2. r.items[m] \in vis
    <3>1. r.items[m] \in Item /\ r.items[m].val = hist[n]
      BY <1>2, <2>1 DEF OfHistory
    <3> QED BY <1>6, <3>1
  <2>3. PICK j \in 1..Len(items) : items[j] = r.items[m]
    BY <1>3, <2>2 DEF KeptSoFar
  <2> QED BY <2>1, <2>3
<1> QED BY <1>2, <1>4, <1>5, <1>6 DEF Tails, r, items

\* The backlog of a request is the end of what Since returned.
LEMMA LastNIs ==
    ASSUME NEW items \in Seq(Item), Increasing(items), NEW n \in Nat
    PROVE  /\ LastN(items, n) \in Seq(Item) /\ Increasing(LastN(items, n))
           /\ \A j \in 1..Len(LastN(items, n)) : \E k \in 1..Len(items) : LastN(items, n)[j] = items[k]
<1>1. CASE Len(items) > n
  <2> DEFINE m == Len(items) - n
             t == SubSeq(items, m + 1, Len(items))
  <2>1. m \in Nat /\ Len(items) \in Nat
    BY <1>1
  <2>2. /\ t \in Seq(Item) /\ Len(t) = n
        /\ \A j \in 1..n : t[j] = items[m + j] /\ m + j \in 1..Len(items)
    BY <1>1, <2>1
  <2>3. LastN(items, n) = t
    BY <1>1 DEF LastN
  <2> HIDE DEF t
  <2>4. ASSUME NEW j \in 1..Len(t), NEW k \in 1..Len(t), j < k PROVE t[j].seq < t[k].seq
    <3>1. /\ t[j] = items[m + j] /\ m + j \in 1..Len(items)
          /\ t[k] = items[m + k] /\ m + k \in 1..Len(items)
      BY <2>2
    <3>2. m + j < m + k
      BY <2>1, <2>2, <2>4
    <3> QED BY <3>1, <3>2 DEF Increasing
  <2> QED BY <2>2, <2>3, <2>4 DEF Increasing
<1>2. CASE ~(Len(items) > n)
  BY <1>2 DEF LastN
<1> QED BY <1>1, <1>2

-----------------------------------------------------------------------------
(* The subscribers *)

\* A cursor never runs ahead of the history.
CursorInRange == \A s \in Streams : cursor[s] <= Len(hist)

StreamInv == RingInv /\ TypeOK /\ CursorInRange /\ SentIsOrderedAndVisible

\* What was sent to one request.
SentTo(s, items, upto) ==
    /\ \A i \in 1..Len(items) : LET it == items[i] IN
          it.seq \in 1..Len(hist) /\ it.seq <= upto /\ it.val = hist[it.seq] /\ Visible(it.val, StreamOrg[s])
    /\ Increasing(items)

LEMMA SentIs ==
    ASSUME TypeOK
    PROVE  SentIsOrderedAndVisible <=> \A s \in Streams : SentTo(s, sent[s], cursor[s])
<1>1. \A s \in Streams : DOMAIN sent[s] = 1..Len(sent[s])
  BY DEF TypeOK
<1> QED BY <1>1 DEF SentIsOrderedAndVisible, SentTo, Increasing

LEMMA StreamInit == Init => StreamInv
<1> SUFFICES ASSUME Init PROVE StreamInv
  OBVIOUS
<1>1. RingInv /\ Len(hist) = 0
  BY RingInit DEF Init
<1>2. TypeOK
  BY <1>1 DEF Init, TypeOK, RingInv
<1>3. CursorInRange /\ SentIsOrderedAndVisible
  BY <1>1 DEF Init, CursorInRange, SentIsOrderedAndVisible
<1> QED BY <1>1, <1>2, <1>3 DEF StreamInv

LEMMA LogStep ==
    ASSUME StreamInv, NEW e \in Entry, LogEntry(e)
    PROVE  StreamInv'
<1>1. RingInv'
  BY AppendKeepsWindow DEF StreamInv, LogEntry
<1>2. UNCHANGED <<status, cursor, sent>>
  BY DEF LogEntry
<1>3. TypeOK'
  BY <1>1, <1>2 DEF StreamInv, TypeOK, RingInv
<1>4. /\ hist \in Seq(Entry) /\ Len(hist) \in Nat /\ Len(hist') = Len(hist) + 1
      /\ \A n \in 1..Len(hist) : hist'[n] = hist[n]
  BY DEF StreamInv, RingInv, RingTypeOK, LogEntry, Append1
<1>5. CursorInRange'
  BY <1>2, <1>4 DEF StreamInv, CursorInRange, TypeOK
<1>6. ASSUME NEW s \in Streams PROVE SentTo(s, sent[s], cursor[s])'
  <2>1. SentTo(s, sent[s], cursor[s])
    BY SentIs DEF StreamInv
  <2> QED BY <1>2, <1>4, <2>1 DEF SentTo
<1>7. SentIsOrderedAndVisible'
  <2>1. \A s \in Streams : DOMAIN sent'[s] = 1..Len(sent'[s])
    BY <1>3 DEF TypeOK
  <2>2. ASSUME NEW s \in Streams, NEW i \in DOMAIN sent'[s]
        PROVE  /\ sent'[s][i].seq \in 1..Len(hist') /\ sent'[s][i].seq <= cursor'[s]
               /\ sent'[s][i].val = hist'[sent'[s][i].seq]
               /\ Visible(sent'[s][i].val, StreamOrg[s])
    BY <1>6, <2>1, <2>2 DEF SentTo
  <2>3. ASSUME NEW s \in Streams, NEW i \in DOMAIN sent'[s], NEW j \in DOMAIN sent'[s], i < j
        PROVE  sent'[s][i].seq < sent'[s][j].seq
    BY <1>6, <2>1, <2>3 DEF SentTo, Increasing
  <2> QED BY <2>2, <2>3 DEF SentIsOrderedAndVisible
<1> QED BY <1>1, <1>3, <1>5, <1>7 DEF StreamInv

\* A step that sends something to one request keeps the invariant.
LEMMA SendStep ==
    ASSUME StreamInv, NEW s \in Streams, UNCHANGED ringVars, NEW items \in Seq(Item), NEW c \in Nat,
           c <= Len(hist), SentTo(s, items, c),
           cursor' = [cursor EXCEPT ![s] = c], sent' = [sent EXCEPT ![s] = items],
           status' \in [Streams -> {"new", "open", "closed"}]
    PROVE  StreamInv'
<1>1. RingInv' /\ RingTypeOK'
  BY RingInvStutter DEF StreamInv, RingInv
<1>2. TypeOK'
  BY <1>1 DEF StreamInv, TypeOK
<1>3. hist' = hist
  BY DEF ringVars
<1>4. CursorInRange'
  BY <1>3 DEF StreamInv, CursorInRange, TypeOK
<1>5. ASSUME NEW u \in Streams PROVE SentTo(u, sent[u], cursor[u])'
  <2>1. CASE u = s
    <3>1. sent'[u] = items /\ cursor'[u] = c
      BY <2>1 DEF StreamInv, TypeOK
    <3> QED BY <1>3, <2>1, <3>1 DEF SentTo
  <2>2. CASE u # s
    <3>1. sent'[u] = sent[u] /\ cursor'[u] = cursor[u]
      BY <2>2 DEF StreamInv, TypeOK
    <3>2. SentTo(u, sent[u], cursor[u])
      BY SentIs DEF StreamInv
    <3> QED BY <1>3, <3>1, <3>2 DEF SentTo
  <2> QED BY <2>1, <2>2
<1>6. SentIsOrderedAndVisible'
  <2>1. \A u \in Streams : DOMAIN sent'[u] = 1..Len(sent'[u])
    BY <1>2 DEF TypeOK
  <2>2. ASSUME NEW u \in Streams, NEW i \in DOMAIN sent'[u]
        PROVE  /\ sent'[u][i].seq \in 1..Len(hist') /\ sent'[u][i].seq <= cursor'[u]
               /\ sent'[u][i].val = hist'[sent'[u][i].seq]
               /\ Visible(sent'[u][i].val, StreamOrg[u])
    BY <1>5, <2>1, <2>2 DEF SentTo
  <2>3. ASSUME NEW u \in Streams, NEW i \in DOMAIN sent'[u], NEW j \in DOMAIN sent'[u], i < j
        PROVE  sent'[u][i].seq < sent'[u][j].seq
    BY <1>5, <2>1, <2>3 DEF SentTo, Increasing
  <2> QED BY <2>2, <2>3 DEF SentIsOrderedAndVisible
<1> QED BY <1>1, <1>2, <1>4, <1>6 DEF StreamInv

LEMMA ConnectStep ==
    ASSUME StreamInv, NEW s \in Streams, NEW b \in 0..Capacity, Connect(s, b)
    PROVE  StreamInv'
<1> DEFINE r == RingSince(0)
           org == StreamOrg[s]
           items == VisibleItems(r.items, org)
           out == IF b > 0 THEN LastN(items, b) ELSE <<>>
<1>1. /\ status' = [status EXCEPT ![s] = "open"] /\ cursor' = [cursor EXCEPT ![s] = r.latest]
      /\ sent' = [sent EXCEPT ![s] = out] /\ UNCHANGED ringVars
  BY DEF Connect
<1>2. Len(hist) \in Nat /\ RingInv /\ b \in Nat
  BY CapacityAssumption DEF StreamInv, RingInv, RingTypeOK
<1>3. Tails(r, 0, org)
  BY <1>2, SinceTails
<1> HIDE DEF r, org
<1>4. /\ r.latest = Len(hist) /\ items \in Seq(Item) /\ Increasing(items)
      /\ \A j \in 1..Len(items) : OfHistory(items[j]) /\ Visible(items[j].val, org)
  BY <1>3 DEF Tails
<1> HIDE DEF items
<1>5. /\ out \in Seq(Item) /\ Increasing(out)
      /\ \A j \in 1..Len(out) : \E k \in 1..Len(items) : out[j] = items[k]
  <2>1. CASE b > 0
    BY <1>2, <1>4, <2>1, LastNIs
  <2>2. CASE ~(b > 0)
    BY <2>2 DEF Increasing
  <2> QED BY <2>1, <2>2
<1> HIDE DEF out
<1>6. SentTo(s, out, r.latest)
  <2>1. ASSUME NEW j \in 1..Len(out)
        PROVE  /\ out[j].seq \in 1..Len(hist) /\ out[j].seq <= r.latest /\ out[j].val = hist[out[j].seq]
               /\ Visible(out[j].val, org)
    <3>1. PICK k \in 1..Len(items) : out[j] = items[k]
      BY <1>5
    <3> QED BY <1>2, <1>4, <3>1 DEF OfHistory
  <2> QED BY <1>5, <2>1 DEF SentTo, org
<1>7. status' \in [Streams -> {"new", "open", "closed"}]
  BY <1>1 DEF StreamInv, TypeOK
<1>8. r.latest \in Nat /\ r.latest <= Len(hist) /\ out \in Seq(Item)
  BY <1>2, <1>4, <1>5
<1> QED BY <1>1, <1>6, <1>7, <1>8, SendStep, Zenon

\* What a poll does to its request.
LEMMA Polls ==
    ASSUME StreamInv, NEW s \in Streams, Poll(s)
    PROVE  \E items \in Seq(Item) :
             /\ cursor' = [cursor EXCEPT ![s] = Len(hist)]
             /\ sent' = [sent EXCEPT ![s] = @ \o items]
             /\ UNCHANGED ringVars /\ UNCHANGED status
             /\ Increasing(items)
             /\ \A j \in 1..Len(items) : /\ OfHistory(items[j]) /\ items[j].seq > cursor[s]
                                         /\ Visible(items[j].val, StreamOrg[s])
             /\ \A n \in 1..Len(hist) :
                   n > cursor[s] /\ n > Len(hist) - Capacity /\ Visible(hist[n], StreamOrg[s]) =>
                     \E j \in 1..Len(items) : items[j].seq = n
<1> DEFINE r == RingSince(cursor[s])
           items == VisibleItems(r.items, StreamOrg[s])
<1>1. /\ cursor' = [cursor EXCEPT ![s] = r.latest] /\ sent' = [sent EXCEPT ![s] = @ \o items]
      /\ UNCHANGED ringVars /\ UNCHANGED status
  BY DEF Poll
<1>2. cursor[s] \in Nat /\ cursor[s] <= Len(hist) /\ RingInv
  BY DEF StreamInv, TypeOK, CursorInRange
<1>3. Tails(r, cursor[s], StreamOrg[s])
  BY <1>2, SinceTails
<1> HIDE DEF r
<1>4. /\ r.latest = Len(hist) /\ items \in Seq(Item) /\ Increasing(items)
      /\ \A j \in 1..Len(items) : /\ OfHistory(items[j]) /\ items[j].seq > cursor[s]
                                  /\ Visible(items[j].val, StreamOrg[s])
      /\ \A n \in 1..Len(hist) :
            n > cursor[s] /\ n > Len(hist) - Capacity /\ Visible(hist[n], StreamOrg[s]) =>
              \E j \in 1..Len(items) : items[j].seq = n
  BY <1>3 DEF Tails
<1> HIDE DEF items
<1> QED BY <1>1, <1>4

\* The concatenation of what was sent and what is new.
LEMMA Concat ==
    ASSUME NEW a \in Seq(Item), NEW b \in Seq(Item)
    PROVE  /\ a \o b \in Seq(Item) /\ Len(a \o b) = Len(a) + Len(b)
           /\ Len(a) \in Nat /\ Len(b) \in Nat
           /\ \A i \in 1..Len(a) : (a \o b)[i] = a[i]
           /\ \A i \in 1..Len(b) : (a \o b)[Len(a) + i] = b[i]
           /\ \A i \in 1..Len(a \o b) : i \in 1..Len(a) \/ i - Len(a) \in 1..Len(b)
OBVIOUS

LEMMA PollStep ==
    ASSUME StreamInv, NEW s \in Streams, Poll(s)
    PROVE  StreamInv'
<1>1. PICK items \in Seq(Item) :
             /\ cursor' = [cursor EXCEPT ![s] = Len(hist)]
             /\ sent' = [sent EXCEPT ![s] = @ \o items]
             /\ UNCHANGED ringVars /\ UNCHANGED status
             /\ Increasing(items)
             /\ \A j \in 1..Len(items) : /\ OfHistory(items[j]) /\ items[j].seq > cursor[s]
                                         /\ Visible(items[j].val, StreamOrg[s])
  BY Polls
<1>2. /\ sent[s] \in Seq(Item) /\ Len(hist) \in Nat /\ cursor[s] \in Nat /\ cursor[s] <= Len(hist)
      /\ status' \in [Streams -> {"new", "open", "closed"}]
  BY <1>1 DEF StreamInv, TypeOK, RingTypeOK, CursorInRange
<1>3. SentTo(s, sent[s], cursor[s])
  BY SentIs DEF StreamInv
<1> DEFINE a == sent[s]
           t == a \o items
<1>4. sent' = [sent EXCEPT ![s] = t]
  BY <1>1
<1> HIDE DEF a
<1>5. a \in Seq(Item)
  BY <1>2 DEF a
<1>6. /\ t \in Seq(Item) /\ Len(t) = Len(a) + Len(items) /\ Len(a) \in Nat /\ Len(items) \in Nat
      /\ \A i \in 1..Len(t) : \/ i \in 1..Len(a) /\ t[i] = a[i]
                              \/ i - Len(a) \in 1..Len(items) /\ t[i] = items[i - Len(a)]
  <2>1. ASSUME NEW i \in 1..Len(t), i - Len(a) \in 1..Len(items) PROVE t[i] = items[i - Len(a)]
    <3>1. Len(a) + (i - Len(a)) = i
      BY <1>5, Concat
    <3> QED BY <1>5, <2>1, <3>1, Concat
  <2> QED BY <1>5, <2>1, Concat
<1> HIDE DEF t
<1>7. ASSUME NEW i \in 1..Len(t)
      PROVE  /\ t[i].seq \in 1..Len(hist) /\ t[i].seq <= Len(hist) /\ t[i].val = hist[t[i].seq]
             /\ Visible(t[i].val, StreamOrg[s])
  <2>1. CASE i \in 1..Len(a) /\ t[i] = a[i]
    BY <1>2, <1>3, <2>1 DEF SentTo, a
  <2>2. CASE i - Len(a) \in 1..Len(items) /\ t[i] = items[i - Len(a)]
    BY <1>1, <1>2, <2>2 DEF OfHistory
  <2> QED BY <1>6, <2>1, <2>2
<1>8. ASSUME NEW i \in 1..Len(t), NEW j \in 1..Len(t), i < j PROVE t[i].seq < t[j].seq
  <2>1. CASE i \in 1..Len(a) /\ t[i] = a[i]
    <3>1. CASE j \in 1..Len(a) /\ t[j] = a[j]
      BY <1>3, <1>8, <2>1, <3>1 DEF SentTo, Increasing, a
    <3>2. CASE j - Len(a) \in 1..Len(items) /\ t[j] = items[j - Len(a)]
      <4>1. t[i].seq <= cursor[s] /\ t[i].seq \in Nat
        BY <1>2, <1>3, <2>1 DEF SentTo, a
      <4>2. t[j].seq > cursor[s] /\ t[j].seq \in Nat
        BY <1>1, <1>2, <3>2 DEF OfHistory
      <4> QED BY <1>2, <4>1, <4>2
    <3> QED BY <1>6, <3>1, <3>2
  <2>2. CASE i - Len(a) \in 1..Len(items) /\ t[i] = items[i - Len(a)]
    <3>1. j - Len(a) \in 1..Len(items) /\ t[j] = items[j - Len(a)] /\ i - Len(a) < j - Len(a)
      BY <1>6, <1>8, <2>2
    <3> QED BY <1>1, <2>2, <3>1 DEF Increasing
  <2> QED BY <1>6, <2>1, <2>2
<1>9. SentTo(s, t, Len(hist))
  BY <1>7, <1>8 DEF SentTo, Increasing
<1>10. Len(hist) <= Len(hist)
  BY <1>2
<1> QED BY <1>1, <1>2, <1>4, <1>6, <1>9, <1>10, SendStep, Zenon

LEMMA StreamStep == StreamInv /\ [Next]_vars => StreamInv'
<1> SUFFICES ASSUME StreamInv, [Next]_vars PROVE StreamInv'
  OBVIOUS
<1>1. ASSUME NEW s \in Streams, Leave(s) PROVE StreamInv'
  <2>1. UNCHANGED <<ringVars, cursor, sent>> /\ status' \in [Streams -> {"new", "open", "closed"}]
    BY <1>1 DEF Leave, StreamInv, TypeOK
  <2>2. RingInv'
    BY <2>1, RingInvStutter DEF StreamInv
  <2> QED BY <2>1, <2>2
      DEF StreamInv, TypeOK, RingInv, CursorInRange, SentIsOrderedAndVisible, ringVars
<1>2. CASE UNCHANGED vars
  <2>1. RingInv'
    BY <1>2, RingInvStutter DEF StreamInv, vars, ringVars
  <2> QED BY <1>2, <2>1 DEF StreamInv, TypeOK, RingInv, CursorInRange, SentIsOrderedAndVisible, vars
<1> QED BY <1>1, <1>2, LogStep, ConnectStep, PollStep DEF Next

LEMMA StreamInvariant == Spec => []StreamInv
BY StreamInit, StreamStep, PTL DEF Spec

\* Every variable of the ring and of its subscribers has its type.
THEOREM ServerLogsTypeCorrect == Spec => []TypeOK
BY StreamInvariant, PTL DEF StreamInv

\* serverlogs.Since as Stream uses it: a subscriber is never sent an entry twice, out of
\* order, altered, or one of another organisation's agents.
THEOREM SentCorrect == Spec => []SentIsOrderedAndVisible
BY StreamInvariant, PTL DEF StreamInv

\* Stream's poll loop: a poll sends every visible entry since the previous one, except
\* those the ring had evicted by then.
THEOREM PollCorrect == Spec => PollLosesOnlyEvicted
<1> DEFINE Act(s) ==
      status[s] = "open" /\ cursor'[s] # cursor[s] =>
        /\ cursor'[s] = Len(hist)
        /\ \A n \in 1..Len(hist) :
              (/\ n > cursor[s]
               /\ n > Len(hist) - Capacity
               /\ Visible(hist[n], StreamOrg[s]))
              <=> (\E i \in Len(sent[s])+1..Len(sent'[s]) : sent'[s][i].seq = n)
<1>1. StreamInv /\ [Next]_vars => [\A s \in Streams : Act(s)]_vars
  <2> SUFFICES ASSUME StreamInv, Next, NEW s \in Streams, status[s] = "open", cursor'[s] # cursor[s]
               PROVE  Act(s)
    OBVIOUS
  <2>1. Poll(s)
    <3>1. ASSUME NEW e \in Entry, LogEntry(e) PROVE FALSE
      BY <3>1 DEF LogEntry
    <3>2. ASSUME NEW u \in Streams, NEW b \in 0..Capacity, Connect(u, b) PROVE FALSE
      BY <3>2 DEF Connect, StreamInv, TypeOK
    <3>3. ASSUME NEW u \in Streams, Leave(u) PROVE FALSE
      BY <3>3 DEF Leave
    <3>4. ASSUME NEW u \in Streams, Poll(u) PROVE u = s
      BY <3>4 DEF Poll, StreamInv, TypeOK
    <3> QED BY <3>1, <3>2, <3>3, <3>4 DEF Next
  <2>2. PICK items \in Seq(Item) :
             /\ cursor' = [cursor EXCEPT ![s] = Len(hist)]
             /\ sent' = [sent EXCEPT ![s] = @ \o items]
             /\ \A j \in 1..Len(items) : /\ OfHistory(items[j]) /\ items[j].seq > cursor[s]
                                         /\ Visible(items[j].val, StreamOrg[s])
             /\ \A n \in 1..Len(hist) :
                   n > cursor[s] /\ n > Len(hist) - Capacity /\ Visible(hist[n], StreamOrg[s]) =>
                     \E j \in 1..Len(items) : items[j].seq = n
    BY <2>1, Polls
  <2> DEFINE a == sent[s]
             t == sent'[s]
  <2>3. cursor'[s] = Len(hist) /\ t = a \o items /\ a \in Seq(Item)
    BY <2>2 DEF StreamInv, TypeOK
  <2> HIDE DEF a, t
  <2>4. /\ Len(t) = Len(a) + Len(items) /\ Len(a) \in Nat /\ Len(items) \in Nat
        /\ \A j \in 1..Len(items) : t[Len(a) + j] = items[j]
    BY <2>3, Concat
  <2>5. ASSUME NEW n \in 1..Len(hist), n > cursor[s], n > Len(hist) - Capacity, Visible(hist[n], StreamOrg[s])
        PROVE  \E i \in Len(a)+1..Len(t) : t[i].seq = n
    <3>1. PICK j \in 1..Len(items) : items[j].seq = n
      BY <2>2, <2>5
    <3>2. Len(a) + j \in Len(a)+1..Len(t) /\ t[Len(a) + j].seq = n
      BY <2>4, <3>1
    <3> QED BY <3>2
  <2>6. ASSUME NEW n \in 1..Len(hist), NEW i \in Len(a)+1..Len(t), t[i].seq = n
        PROVE  n > cursor[s] /\ n > Len(hist) - Capacity /\ Visible(hist[n], StreamOrg[s])
    <3> DEFINE j == i - Len(a)
    <3>1. j \in 1..Len(items) /\ Len(a) + j = i
      BY <2>4
    <3> HIDE DEF j
    <3>2. t[i] = items[j]
      BY <2>4, <3>1
    <3> QED BY <2>2, <2>6, <3>1, <3>2 DEF OfHistory
  <2> QED BY <2>3, <2>5, <2>6 DEF a, t
<1> QED BY <1>1, StreamInvariant, PTL DEF Spec, PollLosesOnlyEvicted
=============================================================================
