--------------------------- MODULE AuditWalProofs ---------------------------
(***************************************************************************)
(* Proofs about AuditWal, for any number of writers and closers, any cap   *)
(* and any number of entries and failures.                                 *)
(***************************************************************************)
EXTENDS AuditWal, FiniteSetTheorems, SequenceTheorems, WellFoundedInduction, TLAPS

\* A non-empty set of numbers up to n has a largest one.
LEMMA MaxExists ==
    ASSUME NEW n \in Nat, NEW S \in SUBSET (0..n), S # {}
    PROVE  \E a \in S : \A b \in S : b <= a
<1> DEFINE T == {n - a : a \in S}
<1>1. T \subseteq Nat /\ T # {}
  <2>1. \A a \in S : n - a \in Nat
    OBVIOUS
  <2>2. PICK a \in S : TRUE
    OBVIOUS
  <2>3. n - a \in T
    OBVIOUS
  <2>4. QED
    BY <2>1, <2>3
<1>2. \E x \in T : \A y \in T : ~(<<y, x>> \in OpToRel(<, Nat))
  BY <1>1, WFMin, NatLessThanWellFounded
<1>3. PICK x \in T : \A y \in T : ~(y < x)
  BY <1>1, <1>2 DEF OpToRel
<1>4. PICK a \in S : x = n - a
  OBVIOUS
<1>5. \A b \in S : b <= a
  BY <1>3, <1>4
<1>6. QED
  BY <1>5

-----------------------------------------------------------------------------
(* One flush *)

\* The window a flush reads: what it takes is within the log.
LEMMA WindowTyped ==
    ASSUME TypeOK, StreamIsPrefix, Available # 0
    PROVE  /\ StartIndex \in Nat /\ StartIndex >= 2 /\ StartIndex = MaxOf(last, 1) + 1
           /\ Room \in Nat /\ Room >= 1
           /\ Taken \in Nat /\ Taken >= 1 /\ Taken <= Available
           /\ Available \in Nat /\ Available = Len(wal) + 2 - StartIndex
           /\ \A i \in Window : i - 1 \in 1..Len(wal)
<1>1. Len(wal) \in Nat /\ Len(blob) \in Nat
  BY DEF TypeOK
<1>2. StartIndex \in Nat /\ StartIndex >= 2 /\ StartIndex = MaxOf(last, 1) + 1
  BY <1>1 DEF StartIndex, MaxOf, TypeOK
<1>3. Available \in Nat /\ Available >= 1 /\ Available = Len(wal) + 2 - StartIndex
  BY <1>1, <1>2 DEF Available, StreamIsPrefix, MaxOf, TypeOK
<1>4. Room \in Nat /\ Room >= 1
  BY BoundsAssumption DEF Room, MaxOf, TypeOK
<1>5. Taken \in Nat /\ Taken >= 1 /\ Taken <= Available
  BY <1>3, <1>4 DEF Taken, CapReached
<1>6. \A i \in Window : i - 1 \in 1..Len(wal)
  BY <1>1, <1>2, <1>3, <1>5 DEF Window
<1>7. QED
  BY <1>2, <1>3, <1>4, <1>5, <1>6

\* The verdicts a flush folds in are numbers in range.
LEMMA VerdictsTyped ==
    ASSUME TypeOK, StreamIsPrefix, Available # 0
    PROVE  NewVerdicts \subseteq 0..MaxVerdicts /\ DedupSeq \in Nat
<1>1. \A i \in Window : wal[i - 1] \in 0..MaxVerdicts
  <2> SUFFICES ASSUME NEW i \in Window PROVE wal[i - 1] \in 0..MaxVerdicts
    OBVIOUS
  <2>1. i - 1 \in 1..Len(wal)
    BY WindowTyped
  <2>2. wal[i - 1] \in Event
    BY <2>1, ElementOfSeq DEF TypeOK
  <2>3. QED
    BY <2>2 DEF Event
<1>2. NewVerdicts \subseteq 0..MaxVerdicts
  BY <1>1 DEF NewVerdicts
<1>3. CASE NewVerdicts = {}
  BY <1>2, <1>3 DEF DedupSeq, TypeOK
<1>4. CASE NewVerdicts # {}
  <2>1. \E a \in NewVerdicts : \A b \in NewVerdicts : b <= a
    BY <1>2, <1>4, MaxExists, BoundsAssumption
  <2>2. DedupSeq \in NewVerdicts
    BY <1>4, <2>1 DEF DedupSeq
  <2>3. QED
    BY <1>2, <2>2, BoundsAssumption
<1>5. QED
  BY <1>2, <1>3, <1>4

\* What the flush leaves in the stream.
FlushTyped ==
    /\ last \in Nat /\ bytesRead \in Nat /\ lastSeq \in Nat /\ failures \in Nat
    /\ truncated \in BOOLEAN /\ repeated \in BOOLEAN
    /\ counted \subseteq 0..MaxVerdicts /\ blob \in Seq(Nat)

\* The bytes counted are at least those persisted, and a stream that is not flagged
\* as truncated is below the cap.
BoundInv ==
    /\ Len(blob) <= bytesRead
    /\ ~repeated => /\ truncated \/ Len(blob) <= MaxRead
                    /\ Len(blob) <= MaxRead + 1

\* The next flush begins after an entry that is in the stream.
LastIsFlushed == last >= 2 => \E j \in 1..Len(blob) : blob[j] = last

\* What an append adds to the stream: the entries of the window.
Appended ==
    /\ blob' \in Seq(Nat) /\ Len(blob') = Len(blob) + Taken
    /\ \A j \in 1..Len(blob) : blob'[j] = blob[j]
    /\ \A j \in 1..Taken : blob'[Len(blob) + j] = StartIndex + j - 1

LEMMA AppendAdds ==
    ASSUME TypeOK, StreamIsPrefix, Available # 0, AppendSessionStream(FlushedIndices)
    PROVE  Appended
<1>1. StartIndex \in Nat /\ StartIndex >= 2 /\ Taken \in Nat /\ Taken >= 1
  BY WindowTyped
<1>2. FlushedIndices \in Seq(Nat) /\ Len(FlushedIndices) = Taken
  BY <1>1 DEF FlushedIndices
<1>3. \A j \in 1..Taken : FlushedIndices[j] = StartIndex + j - 1
  BY DEF FlushedIndices
<1>4. /\ blob' \in Seq(Nat) /\ Len(blob') = Len(blob) + Taken
      /\ \A j \in 1..Len(blob) + Taken :
            blob'[j] = IF j <= Len(blob) THEN blob[j] ELSE FlushedIndices[j - Len(blob)]
  BY <1>2, ConcatProperties DEF TypeOK, AppendSessionStream
<1>5. Len(blob) \in Nat
  BY DEF TypeOK
<1>6. \A j \in 1..Len(blob) : blob'[j] = blob[j]
  BY <1>1, <1>4, <1>5
<1>7. ASSUME NEW j \in 1..Taken PROVE blob'[Len(blob) + j] = StartIndex + j - 1
  <2>1. Len(blob) + j \in 1..Len(blob) + Taken /\ ~(Len(blob) + j <= Len(blob))
        /\ (Len(blob) + j) - Len(blob) = j
    BY <1>1, <1>5
  <2>2. QED
    BY <1>3, <1>4, <2>1
<1>8. QED
  BY <1>4, <1>6, <1>7 DEF Appended

\* flushSession: one flush, committed or not, keeps the stream an exact prefix of the
\* log within the cap.
LEMMA FlushKeeps ==
    ASSUME TypeOK, StreamIsPrefix, BoundInv, LastIsFlushed,
           NEW r \in Outcomes, FlushSession(r), wal' = wal
    PROVE  FlushTyped' /\ StreamIsPrefix' /\ BoundInv' /\ LastIsFlushed'
<1>1. CASE UNCHANGED flushVars
  BY <1>1 DEF flushVars, FlushTyped, TypeOK, StreamIsPrefix, BoundInv, LastIsFlushed
<1>2. CASE ~(closed \/ truncated \/ Available = 0)
  <2>1. /\ Available # 0 /\ ~truncated
        /\ r # "unread" => bytesRead' = bytesRead + Taken /\ lastSeq' = DedupSeq
    BY <1>2 DEF FlushSession
  <2>2. /\ StartIndex \in Nat /\ StartIndex >= 2 /\ StartIndex = MaxOf(last, 1) + 1
        /\ Room \in Nat /\ Room >= 1
        /\ Taken \in Nat /\ Taken >= 1 /\ Taken <= Available
        /\ Available \in Nat /\ Available = Len(wal) + 2 - StartIndex
    BY <2>1, WindowTyped
  <2>3. NewVerdicts \subseteq 0..MaxVerdicts /\ DedupSeq \in Nat
    BY <2>1, VerdictsTyped
  <2>4. /\ Len(wal) \in Nat /\ Len(blob) \in Nat /\ bytesRead \in Nat /\ MaxRead \in Nat
        /\ last \in Nat
    BY BoundsAssumption DEF TypeOK
  <2>5. CASE r = "ok"
    <3>1. /\ AppendSessionStream(FlushedIndices)
          /\ last' = StartIndex + Taken - 1
          /\ truncated' = CapReached
          /\ counted' = counted \union NewVerdicts
          /\ failures' = failures /\ repeated' = repeated
      BY <1>2, <2>5 DEF FlushSession
    <3>2. Appended
      BY <2>1, <3>1, AppendAdds
    <3>3. /\ blob' \in Seq(Nat) /\ Len(blob') = Len(blob) + Taken
          /\ \A j \in 1..Len(blob) : blob'[j] = blob[j]
          /\ \A j \in 1..Taken : blob'[Len(blob) + j] = StartIndex + j - 1
      BY <3>2 DEF Appended
    <3>4. last' \in Nat /\ MaxOf(last', 1) = last' /\ last' - 1 <= Len(wal)
      BY <2>2, <2>4, <3>1 DEF MaxOf
    <3>5. ASSUME ~repeated
          PROVE  blob' = [j \in 1..Len(blob') |-> j + 1] /\ Len(blob') = last' - 1
      <4>1. StartIndex = Len(blob) + 2
        BY <2>2, <2>4, <3>5 DEF StreamIsPrefix, MaxOf
      <4>2. \A j \in 1..Len(blob') : blob'[j] = j + 1
        <5> SUFFICES ASSUME NEW j \in 1..Len(blob') PROVE blob'[j] = j + 1
          OBVIOUS
        <5>1. CASE j <= Len(blob)
          BY <2>4, <3>3, <3>5, <5>1 DEF StreamIsPrefix
        <5>2. CASE j > Len(blob)
          <6>1. j - Len(blob) \in 1..Taken /\ Len(blob) + (j - Len(blob)) = j
            BY <2>2, <2>4, <3>3, <5>2
          <6>2. blob'[j] = StartIndex + (j - Len(blob)) - 1
            BY <3>3, <6>1
          <6>3. QED
            BY <2>4, <4>1, <6>2
        <5>3. QED
          BY <2>4, <5>1, <5>2
      <4>3. blob' = [j \in 1..Len(blob') |-> j + 1]
        BY <3>3, <4>2
      <4>4. QED
        BY <2>2, <2>4, <3>1, <3>3, <4>1, <4>3
    <3>6. StreamIsPrefix'
      BY <3>1, <3>4, <3>5 DEF StreamIsPrefix
    <3>7. BoundInv'
      <4>1. CASE bytesRead <= MaxRead
        <5>1. Room = MaxRead - bytesRead + 1
          BY <2>4, <4>1 DEF Room, MaxOf
        <5>2. Taken <= Room /\ (~CapReached => Taken < Room)
          BY <2>2 DEF Taken, CapReached
        <5>3. Len(blob') = Len(blob) + Taken /\ repeated' = repeated /\ truncated' = CapReached
          BY <3>1, <3>3
        <5>4. Len(blob) + Taken <= MaxRead + 1 /\ (CapReached \/ Len(blob) + Taken <= MaxRead)
          BY <2>2, <2>4, <5>1, <5>2 DEF BoundInv
        <5>5. Len(blob') <= bytesRead'
          BY <2>1, <2>5, <2>2, <2>4, <5>3 DEF BoundInv
        <5>6. QED
          BY <5>3, <5>4, <5>5 DEF BoundInv
      <4>2. CASE bytesRead > MaxRead
        <5>1. Room = 1
          BY <2>4, <4>2 DEF Room, MaxOf
        <5>2. CapReached /\ Taken = 1
          BY <2>2, <5>1 DEF Taken, CapReached
        <5>3. QED
          BY <2>1, <2>5, <2>4, <3>1, <3>3, <5>2 DEF BoundInv
      <4>3. QED
        BY <2>4, <4>1, <4>2
    <3>8. LastIsFlushed'
      <4>1. Len(blob) + Taken \in 1..Len(blob') /\ Taken \in 1..Taken
        BY <2>2, <2>4, <3>3
      <4>2. blob'[Len(blob) + Taken] = last'
        BY <3>1, <3>3, <4>1
      <4>3. QED
        BY <4>1, <4>2 DEF LastIsFlushed
    <3>9. FlushTyped'
      <4>1. CapReached \in BOOLEAN
        BY <2>2 DEF CapReached
      <4>2. bytesRead' \in Nat /\ lastSeq' \in Nat
        BY <2>1, <2>5, <2>2, <2>3, <2>4
      <4>3. counted' \subseteq 0..MaxVerdicts
        BY <2>3, <3>1 DEF TypeOK
      <4>4. blob' \in Seq(Nat) /\ last' \in Nat
        BY <3>3, <3>4
      <4>5. failures' \in Nat /\ repeated' \in BOOLEAN /\ truncated' \in BOOLEAN
        BY <3>1, <4>1 DEF TypeOK
      <4>6. QED
        BY <4>2, <4>3, <4>4, <4>5 DEF FlushTyped
    <3>10. QED
      BY <3>6, <3>7, <3>8, <3>9
  <2>6. CASE r # "ok"
    <3>1. /\ UNCHANGED <<last, truncated, counted>> /\ failures' = failures + 1
          /\ repeated' = (repeated \/ r = "unknown")
      BY <1>2, <2>6 DEF FlushSession
    <3>0. CASE r = "unread"
      <4>1. blob' = blob /\ repeated' = repeated
        BY <1>2, <3>0, <3>1 DEF FlushSession, TypeOK
      <4>2. bytesRead' \in Nat /\ bytesRead' >= bytesRead
        <5>1. bytesRead' \in bytesRead..bytesRead + Taken
          BY <1>2, <3>0 DEF FlushSession
        <5>2. QED
          BY <2>2, <2>4, <5>1
      <4>3. lastSeq' \in Nat
        <5>1. lastSeq' \in lastSeq..DedupSeq
          BY <1>2, <3>0 DEF FlushSession
        <5>2. QED
          BY <2>3, <5>1 DEF TypeOK
      <4>4. BoundInv'
        BY <2>4, <3>1, <4>1, <4>2 DEF BoundInv
      <4>5. QED
        BY <3>1, <4>1, <4>2, <4>3, <4>4
        DEF FlushTyped, TypeOK, StreamIsPrefix, LastIsFlushed
    <3>2. CASE r = "failed"
      <4>1. blob' = blob /\ repeated' = repeated
        BY <1>2, <3>1, <3>2 DEF FlushSession, TypeOK
      <4>2. BoundInv'
        BY <2>1, <3>2, <2>2, <2>4, <3>1, <4>1 DEF BoundInv
      <4>3. QED
        BY <2>1, <3>2, <2>2, <2>3, <3>1, <4>1, <4>2
        DEF FlushTyped, TypeOK, StreamIsPrefix, LastIsFlushed
    <3>3. CASE r = "unknown"
      <4>1. AppendSessionStream(FlushedIndices) /\ repeated'
        BY <1>2, <3>1, <3>3 DEF FlushSession
      <4>2. Appended
        BY <2>1, <4>1, AppendAdds
      <4>3. LastIsFlushed'
        <5> SUFFICES ASSUME last >= 2 PROVE \E j \in 1..Len(blob') : blob'[j] = last
          BY <3>1 DEF LastIsFlushed
        <5>1. PICK j \in 1..Len(blob) : blob[j] = last
          BY DEF LastIsFlushed
        <5>2. j \in 1..Len(blob') /\ blob'[j] = blob[j]
          BY <2>2, <2>4, <4>2 DEF Appended
        <5>3. QED
          BY <5>1, <5>2
      <4>4. BoundInv'
        BY <2>1, <3>3, <2>2, <2>4, <3>1, <4>1, <4>2 DEF BoundInv, Appended
      <4>5. FlushTyped'
        BY <2>1, <3>3, <2>2, <2>3, <2>4, <3>1, <4>2 DEF FlushTyped, TypeOK, Appended
      <4>6. QED
        BY <3>1, <4>1, <4>3, <4>4, <4>5 DEF StreamIsPrefix
    <3>4. QED
      BY <2>6, <3>0, <3>2, <3>3 DEF Outcomes
  <2>7. QED
    BY <2>5, <2>6
<1>3. QED
  BY <1>1, <1>2 DEF FlushSession

-----------------------------------------------------------------------------
(* The log and its owner *)

\* The types, the stream and its bounds belong together: what a flush leaves depends
\* on all of them.
WalInv == TypeOK /\ StreamIsPrefix /\ BoundInv /\ LastIsFlushed

\* The invariant of the stream: writers, ticks, drops and closers in any order.
LEMMA WalInvariant == Spec => []WalInv
<1>1. Init => WalInv
  <2> SUFFICES ASSUME Init PROVE WalInv
    OBVIOUS
  <2>1. TypeOK
    <3>1. wal \in Seq(Event) /\ blob \in Seq(Nat)
      BY EmptySeq DEF Init
    <3>2. writer \in [Writers -> {"idle", "got"}] /\ closer \in [Closers -> CloserStates]
      BY DEF Init, CloserStates
    <3>3. counted \subseteq 0..MaxVerdicts
      BY DEF Init
    <3>4. QED
      BY <3>1, <3>2, <3>3 DEF Init, TypeOK
  <2>2. Len(blob) = 0 /\ Len(wal) = 0
    BY DEF Init
  <2>3. blob = [j \in 1..Len(blob) |-> j + 1]
    <3>1. 1..Len(blob) = {} /\ blob = <<>>
      BY <2>2 DEF Init
    <3>2. QED
      BY <3>1, <2>1, LenProperties DEF TypeOK
  <2>4. QED
    BY <2>1, <2>2, <2>3, BoundsAssumption DEF Init, WalInv, StreamIsPrefix, BoundInv, LastIsFlushed, MaxOf
<1>2. WalInv /\ [Next]_vars => WalInv'
  <2> SUFFICES ASSUME WalInv, [Next]_vars PROVE WalInv'
    OBVIOUS
  <2> USE DEF WalInv, TypeOK, CloserStates, Closer, Cancelled, FlushCancel
  <2>0. ASSUME UNCHANGED flushVars, wal' = wal
        PROVE  StreamIsPrefix' /\ BoundInv' /\ LastIsFlushed'
    BY <2>0 DEF flushVars, StreamIsPrefix, BoundInv, LastIsFlushed
  <2>1. CASE UNCHANGED vars
    BY <2>1 DEF vars, flushVars, StreamIsPrefix, BoundInv, LastIsFlushed
  <2>2. CASE WriteOnConnect
    BY <2>2, <2>0 DEF WriteOnConnect, flushVars
  <2>3. CASE StartFlushTicker
    BY <2>3, <2>0 DEF StartFlushTicker, UpsertSession, CreateEmptySessionStreamBlob, Started, flushVars
  <2>4. CASE ConnectFails
    BY <2>4 DEF ConnectFails, StreamIsPrefix, BoundInv, LastIsFlushed
  <2>5. ASSUME NEW w \in Writers, GetWal(w) PROVE WalInv'
    BY <2>5, <2>0 DEF GetWal, flushVars
  <2>6. ASSUME NEW w \in Writers, WriteWal(w) PROVE WalInv'
    <3>1. wal' \in Seq(Event) /\ Len(wal') >= Len(wal)
      <4>1. CASE wal' = wal
        BY <4>1
      <4>2. CASE \E e \in Recorded : wal' = Append(wal, e)
        <5>1. PICK e \in Recorded : wal' = Append(wal, e)
          BY <4>2
        <5>3. e \in Event
          BY BoundsAssumption DEF Recorded, Event
        <5>4. QED
          BY <5>1, <5>3, AppendProperties, LenProperties
      <4>3. QED
        BY <2>6, <4>1, <4>2 DEF WriteWal
    <3>2. UNCHANGED flushVars
      BY <2>6, <2>0 DEF WriteWal, flushVars
    <3>3. StreamIsPrefix' /\ BoundInv' /\ LastIsFlushed'
      <4>1. Len(wal) \in Nat /\ Len(wal') \in Nat /\ MaxOf(last, 1) \in Nat
        BY <3>1 DEF MaxOf
      <4>2. StreamIsPrefix'
        BY <3>1, <3>2, <4>1 DEF flushVars, StreamIsPrefix
      <4>3. QED
        BY <3>2, <4>2 DEF flushVars, BoundInv, LastIsFlushed
    <3>4. QED
      BY <2>6, <3>1, <3>3 DEF WriteWal, flushVars
  <2>7. CASE Tick
    BY <2>7, <2>0 DEF Tick, flushVars
  <2>8. ASSUME NEW r \in Outcomes, TickFlush(r) PROVE WalInv'
    <3>1. FlushTyped' /\ StreamIsPrefix' /\ BoundInv' /\ LastIsFlushed'
      BY <2>8, FlushKeeps DEF TickFlush
    <3>2. QED
      BY <2>8, <3>1 DEF TickFlush, FlushTyped
  <2>9. CASE DropPop
    <3>1. ticker' \in {"off", "on", "due", "last"}
      BY <2>9 DEF DropPop
    <3>2. StreamIsPrefix' /\ BoundInv' /\ LastIsFlushed'
      BY <2>9, <2>0 DEF DropPop, flushVars
    <3>3. TypeOK'
      BY ZenonT(60), <2>9, <3>1 DEF DropPop, flushVars
    <3>4. QED
      BY <3>2, <3>3
  <2>10. CASE DropRemove
    BY ZenonT(60), <2>10, <2>0 DEF DropRemove, flushVars
  <2>11. ASSUME NEW c \in Closers, CheckFolder(c) PROVE WalInv'
    <3>1. closer' \in [Closers -> CloserStates]
      BY <2>11 DEF CheckFolder
    <3>2. StreamIsPrefix' /\ BoundInv' /\ LastIsFlushed'
      BY <2>11, <2>0 DEF CheckFolder, flushVars
    <3>3. QED
      BY <2>11, <3>1, <3>2 DEF CheckFolder, flushVars
  <2>12. ASSUME NEW c \in Closers, PopWal(c) PROVE WalInv'
    <3>1. closer' \in [Closers -> CloserStates] /\ ticker' \in {"off", "on", "due", "last"}
      BY <2>12, <2>0 DEF PopWal, flushVars
    <3>2. StreamIsPrefix' /\ BoundInv' /\ LastIsFlushed'
      BY <2>12, <2>0 DEF PopWal, flushVars
    <3>3. TypeOK'
      BY ZenonT(60), <2>12, <3>1 DEF PopWal, flushVars
    <3>4. QED
      BY <3>2, <3>3
  <2>13. ASSUME NEW c \in Closers, WriteError(c) PROVE WalInv'
    <3>1. wal' \in Seq(Event) /\ Len(wal') >= Len(wal)
      <4>1. 0 \in Event
        BY BoundsAssumption DEF Event
      <4>2. QED
        <5>1. CASE wal' = wal
          BY <5>1
        <5>2. CASE wal' = Append(wal, 0)
          BY <4>1, <5>2, AppendProperties, LenProperties
        <5>3. QED
          BY <2>13, <5>1, <5>2 DEF WriteError
    <3>2. UNCHANGED flushVars
      BY <2>13, <2>0 DEF WriteError, flushVars
    <3>3. StreamIsPrefix' /\ BoundInv' /\ LastIsFlushed'
      <4>1. Len(wal) \in Nat /\ Len(wal') \in Nat /\ MaxOf(last, 1) \in Nat
        BY <3>1 DEF MaxOf
      <4>2. StreamIsPrefix'
        BY <3>1, <3>2, <4>1 DEF flushVars, StreamIsPrefix
      <4>3. QED
        BY <3>2, <4>2 DEF flushVars, BoundInv, LastIsFlushed
    <3>4. QED
      BY <2>13, <3>1, <3>3 DEF WriteError, flushVars
  <2>14. ASSUME NEW c \in Closers, NEW r \in Outcomes, FinalFlush(c, r) PROVE WalInv'
    <3>1. FlushTyped' /\ StreamIsPrefix' /\ BoundInv' /\ LastIsFlushed'
      BY <2>14, FlushKeeps DEF FinalFlush
    <3>2. QED
      BY <2>14, <3>1 DEF FinalFlush, FlushTyped
  <2>15. ASSUME NEW c \in Closers, RemoveWal(c) PROVE WalInv'
    <3>1. StreamIsPrefix' /\ BoundInv' /\ LastIsFlushed'
      BY <2>15, <2>0 DEF RemoveWal, flushVars
    <3>2. closer' \in [Closers -> CloserStates]
      BY <2>15 DEF RemoveWal
    <3>3. closed' \in BOOLEAN /\ folder' \in BOOLEAN
      BY <2>15 DEF RemoveWal
    <3>4. TypeOK'
      BY <2>15, <3>2, <3>3 DEF RemoveWal, flushVars
    <3>5. QED
      BY <3>1, <3>4
  <2>16. ASSUME NEW c \in Closers, MarkSessionDone(c) PROVE WalInv'
    BY <2>16, <2>0 DEF MarkSessionDone, flushVars
  <2>17. ASSUME NEW c \in Closers, MarkSessionDonePlaceholder(c) PROVE WalInv'
    BY ZenonT(60), <2>17, <2>0 DEF MarkSessionDonePlaceholder, UpdateSessionEventStream, flushVars
  <2>18. ASSUME NEW c \in Closers, MarkFails(c) PROVE WalInv'
    <3>1. closer' \in [Closers -> CloserStates] /\ inStore' \in BOOLEAN
      BY <2>18, <2>0 DEF MarkFails, flushVars
    <3>2. StreamIsPrefix' /\ BoundInv' /\ LastIsFlushed'
      BY <2>18 DEF MarkFails, StreamIsPrefix, BoundInv, LastIsFlushed
    <3>3. QED
      BY <2>18, <3>1, <3>2 DEF MarkFails
  <2>19. CASE Restart
    <3>1. StreamIsPrefix' /\ BoundInv' /\ LastIsFlushed'
      BY <2>19, <2>0 DEF Restart, flushVars
    <3>2. closer' \in [Closers -> CloserStates] /\ writer' \in [Writers -> {"idle", "got"}]
      BY <2>19 DEF Restart
    <3>f. folder' \in BOOLEAN
      BY <2>19 DEF Restart
    <3>m. inStore' = FALSE /\ closed' = TRUE /\ ticker' = "off" /\ restarts' = restarts + 1
      BY <2>19 DEF Restart
    <3>n. restarts' \in Nat /\ ticker' \in {"off", "on", "due", "last"}
      BY <3>m
    <3>3. inStore' \in BOOLEAN /\ closed' \in BOOLEAN
      BY <3>m
    <3>p. phase' \in {"new", "opened", "leaked", "open"}
      BY <2>19 DEF Restart
    <3>q. dropper' \in {"idle", "popped", "end", "stopped"}
      BY <2>19 DEF Restart
    <3>0. UNCHANGED <<shared, wal, blobKind, session, last, bytesRead, truncated, lastSeq, counted, blob,
                      failures, repeated>>
      BY <2>19 DEF Restart, flushVars
    <3>4. TypeOK'
      BY <3>0, <3>2, <3>3, <3>f, <3>n, <3>p, <3>q
    <3>5. QED
      BY <3>1, <3>4
  <2>21. CASE OtherRemoves
    BY ZenonT(60), <2>21, <2>0 DEF OtherRemoves, flushVars
  <2>22. CASE OtherSets
    BY ZenonT(60), <2>22, <2>0 DEF OtherSets, flushVars
  <2>23. CASE OtherStarts
    BY <2>23, <2>0 DEF OtherStarts, Started, CreateEmptySessionStreamBlob, flushVars
  <2>20. QED
    BY <2>1, <2>2, <2>3, <2>4, <2>5, <2>6, <2>7, <2>8, <2>9, <2>10,
       <2>11, <2>12, <2>13, <2>14, <2>15, <2>16, <2>17, <2>18, <2>19, <2>21, <2>22, <2>23
    DEF Next
<1>3. QED
  BY <1>1, <1>2, PTL DEF Spec

\* Every variable keeps its type.
THEOREM WalTypeCorrect == Spec => []TypeOK
<1>1. WalInv => TypeOK
  BY DEF WalInv
<1>2. QED
  BY <1>1, WalInvariant, PTL

\* flushSession: the persisted stream is always an ordered prefix of the log, without
\* gaps or repetitions.
THEOREM StreamCorrect == Spec => []StreamIsPrefix
<1>1. WalInv => StreamIsPrefix
  BY DEF WalInv
<1>2. QED
  BY <1>1, WalInvariant, PTL

\* flushSession: the stream never outgrows the cap by more than one entry, although a
\* failed append leaves bytesRead ahead of the stream.
THEOREM StreamBoundCorrect == Spec => []StreamIsBounded
<1>1. WalInv => StreamIsBounded
  BY DEF WalInv, BoundInv, StreamIsBounded
<1>2. QED
  BY <1>1, WalInvariant, PTL

-----------------------------------------------------------------------------
(* Ownership *)

Owning == {"error", "flush", "remove"}

\* Whoever popped the log owns it: nobody finds it any more, nobody else removes
\* it, and it is open until its owner closes it.
OwnerInv ==
    /\ StoreHoldsLiveWal
    /\ phase # "open" /\ ~shared => dropper = "idle" /\ \A c \in Closers : closer[c] = "idle"
    /\ phase = "opened" /\ ~shared => ~closed
    /\ phase = "new" => /\ ~closed /\ ~inStore /\ dropper = "idle"
                        /\ \A c \in Closers : closer[c] \notin Owning
    /\ dropper = "popped" => ~closed /\ ~inStore
    /\ \A c \in Closers : closer[c] \in Owning => ~closed /\ ~inStore /\ dropper # "popped"
    /\ \A c, d \in Closers : closer[c] \in Owning /\ closer[d] \in Owning => c = d

\* At most one closer or dropWalLog owns the log.
LEMMA OwnerInvariant == Spec => []OwnerInv
<1>1. Init => OwnerInv
  BY DEF Init, OwnerInv, StoreHoldsLiveWal, Owning
<1>2. WalInv /\ OwnerInv /\ [Next]_vars => OwnerInv'
  <2> SUFFICES ASSUME WalInv, OwnerInv, [Next]_vars PROVE OwnerInv'
    OBVIOUS
  <2> USE DEF WalInv, TypeOK, OwnerInv, StoreHoldsLiveWal, Owning, Closer, InUse
  <2>1. CASE UNCHANGED vars
    BY <2>1 DEF vars
  <2>2. CASE WriteOnConnect
    BY <2>2 DEF WriteOnConnect
  <2>3. CASE StartFlushTicker
    BY <2>3 DEF StartFlushTicker
  <2>4. CASE ConnectFails
    BY <2>4 DEF ConnectFails
  <2>5. ASSUME NEW w \in Writers, GetWal(w) PROVE OwnerInv'
    BY <2>5 DEF GetWal
  <2>6. ASSUME NEW w \in Writers, WriteWal(w) PROVE OwnerInv'
    BY <2>6 DEF WriteWal
  <2>7. CASE Tick
    BY <2>7 DEF Tick
  <2>8. ASSUME NEW r \in Outcomes, TickFlush(r) PROVE OwnerInv'
    BY <2>8 DEF TickFlush
  <2>9. CASE DropPop
    BY <2>9 DEF DropPop
  <2>10. CASE DropRemove
    BY <2>10 DEF DropRemove
  <2>11. ASSUME NEW c \in Closers, CheckFolder(c) PROVE OwnerInv'
    BY <2>11 DEF CheckFolder
  <2>12. ASSUME NEW c \in Closers, PopWal(c) PROVE OwnerInv'
    BY <2>12 DEF PopWal
  <2>13. ASSUME NEW c \in Closers, WriteError(c) PROVE OwnerInv'
    BY <2>13 DEF WriteError
  <2>14. ASSUME NEW c \in Closers, NEW r \in Outcomes, FinalFlush(c, r) PROVE OwnerInv'
    BY <2>14 DEF FinalFlush
  <2>15. ASSUME NEW c \in Closers, RemoveWal(c) PROVE OwnerInv'
    BY <2>15 DEF RemoveWal
  <2>16. ASSUME NEW c \in Closers, MarkSessionDone(c) PROVE OwnerInv'
    BY <2>16 DEF MarkSessionDone
  <2>17. ASSUME NEW c \in Closers, MarkSessionDonePlaceholder(c) PROVE OwnerInv'
    BY <2>17 DEF MarkSessionDonePlaceholder
  <2>18. ASSUME NEW c \in Closers, MarkFails(c) PROVE OwnerInv'
    <3>1. \E at \in {"mark", "placeholder"} : closer[c] = at /\ closer' = [closer EXCEPT ![c] = "end"]
      BY <2>18 DEF MarkFails
    <3>2. inStore' => inStore
      BY <2>18 DEF MarkFails
    <3>3. UNCHANGED <<phase, folder, closed, dropper, shared>>
      BY <2>18 DEF MarkFails
    <3>4. QED
      BY <3>1, <3>2, <3>3
  <2>19. CASE Restart
    BY <2>19 DEF Restart
  <2>21. CASE OtherRemoves
    BY <2>21 DEF OtherRemoves
  <2>22. CASE OtherSets
    BY <2>22 DEF OtherSets
  <2>23. CASE OtherStarts
    BY <2>23 DEF OtherStarts
  <2>20. QED
    BY <2>1, <2>2, <2>3, <2>4, <2>5, <2>6, <2>7, <2>8, <2>9, <2>10,
       <2>11, <2>12, <2>13, <2>14, <2>15, <2>16, <2>17, <2>18, <2>19, <2>21, <2>22, <2>23
    DEF Next
<1>3. QED
  BY <1>1, <1>2, WalInvariant, PTL DEF Spec

\* writeOnReceive: a log that can be looked up is open, and it is on disk unless another
\* connect of the session id removed the folder.
THEOREM StoredWalIsLive == Spec => []StoreHoldsLiveWal
<1>1. OwnerInv => StoreHoldsLiveWal
  BY DEF OwnerInv
<1>2. QED
  BY <1>1, OwnerInvariant, PTL

\* closeSessionWAL and dropWalLog: one owner at a time flushes, closes and removes
\* the log, however many closes of the session race and other connects replace the log
\* in the store.
THEOREM WalHasOneOwner == Spec => []OneOwner
<1>1. OwnerInv => OneOwner
  <2> SUFFICES ASSUME OwnerInv PROVE OneOwner
    OBVIOUS
  <2> DEFINE S == {c \in Closers : closer[c] \in {"error", "flush", "remove"}}
  <2>1. S = {} \/ \E c : S = {c}
    BY DEF OwnerInv, Owning
  <2>2. Cardinality(S) = 0 \/ Cardinality(S) = 1
    BY <2>1, FS_EmptySet, FS_Singleton
  <2>3. dropper = "popped" => Cardinality(S) = 0
    <3>1. dropper = "popped" => S = {}
      BY DEF OwnerInv, Owning
    <3>2. QED
      BY <3>1, FS_EmptySet
  <2> HIDE DEF S
  <2>4. Cardinality(S) + (IF dropper = "popped" THEN 1 ELSE 0) <= 1
    BY <2>2, <2>3
  <2>5. QED
    BY <2>4 DEF S, OneOwner, OwnerInv, Owning
<1>2. QED
  BY <1>1, OwnerInvariant, PTL
-----------------------------------------------------------------------------
(* The recording that AuditWal implements *)

\* As long as there is one connect: a recording exists while its session is open, its entries are written and flushed
\* by goroutines of an open log, and only a closed log is replaced by a placeholder.
LifeInv == ~shared =>
    /\ phase \in {"new", "opened"} => session = "none"
    /\ phase # "open" => /\ blobKind = "absent" /\ ticker = "off"
                         /\ \A w \in Writers : writer[w] = "idle"
    /\ phase = "open" => blobKind # "absent" /\ session \in {"open", "done"}
    /\ phase = "opened" => folder /\ inStore
    /\ phase = "open" /\ ~folder => closed
    /\ \A c \in Closers : closer[c] = "placeholder" => closed
    /\ blobKind = "placeholder" => closed /\ session = "done"

LEMMA LifeInvariant == Spec => []LifeInv
<1>1. Init => LifeInv
  BY DEF Init, LifeInv
<1>2. WalInv /\ OwnerInv /\ LifeInv /\ [Next]_vars => LifeInv'
  <2> SUFFICES ASSUME WalInv, OwnerInv, LifeInv, [Next]_vars PROVE LifeInv'
    OBVIOUS
  <2> USE DEF WalInv, TypeOK, OwnerInv, Owning, StoreHoldsLiveWal, LifeInv, Closer, InUse, FlushCancel
  <2>1. CASE UNCHANGED vars
    BY <2>1 DEF vars
  <2>2. ASSUME WriteOnConnect PROVE LifeInv'
    BY <2>2 DEF WriteOnConnect
  <2>3. ASSUME StartFlushTicker PROVE LifeInv'
    BY <2>3 DEF StartFlushTicker, UpsertSession, CreateEmptySessionStreamBlob
  <2>4. ASSUME ConnectFails PROVE LifeInv'
    BY <2>4 DEF ConnectFails
  <2>5. ASSUME NEW w \in Writers, GetWal(w) PROVE LifeInv'
    BY <2>5 DEF GetWal
  <2>6. ASSUME NEW w \in Writers, WriteWal(w) PROVE LifeInv'
    BY <2>6 DEF WriteWal
  <2>7. ASSUME Tick PROVE LifeInv'
    BY <2>7 DEF Tick
  <2>8. ASSUME NEW r \in Outcomes, TickFlush(r) PROVE LifeInv'
    BY <2>8 DEF TickFlush
  <2>9. ASSUME DropPop PROVE LifeInv'
    BY <2>9 DEF DropPop
  <2>10. ASSUME DropRemove PROVE LifeInv'
    BY <2>10 DEF DropRemove
  <2>11. ASSUME NEW c \in Closers, CheckFolder(c) PROVE LifeInv'
    BY <2>11 DEF CheckFolder
  <2>12. ASSUME NEW c \in Closers, PopWal(c) PROVE LifeInv'
    BY <2>12 DEF PopWal
  <2>13. ASSUME NEW c \in Closers, WriteError(c) PROVE LifeInv'
    BY <2>13 DEF WriteError
  <2>14. ASSUME NEW c \in Closers, NEW r \in Outcomes, FinalFlush(c, r) PROVE LifeInv'
    BY <2>14 DEF FinalFlush
  <2>15. ASSUME NEW c \in Closers, RemoveWal(c) PROVE LifeInv'
    BY <2>15 DEF RemoveWal
  <2>16. ASSUME NEW c \in Closers, MarkSessionDone(c) PROVE LifeInv'
    BY <2>16 DEF MarkSessionDone
  <2>17. ASSUME NEW c \in Closers, MarkSessionDonePlaceholder(c) PROVE LifeInv'
    BY <2>17 DEF MarkSessionDonePlaceholder, UpdateSessionEventStream
  <2>18. ASSUME NEW c \in Closers, MarkFails(c) PROVE LifeInv'
    BY <2>18 DEF MarkFails
  <2>19. ASSUME Restart PROVE LifeInv'
    BY <2>19 DEF Restart
  <2>21. ASSUME OtherRemoves PROVE LifeInv'
    BY <2>21 DEF OtherRemoves
  <2>22. ASSUME OtherSets PROVE LifeInv'
    BY <2>22 DEF OtherSets
  <2>23. ASSUME OtherStarts PROVE LifeInv'
    BY <2>23 DEF OtherStarts
  <2>20. QED
    BY <2>1, <2>2, <2>3, <2>4, <2>5, <2>6, <2>7, <2>8, <2>9, <2>10,
       <2>11, <2>12, <2>13, <2>14, <2>15, <2>16, <2>17, <2>18, <2>19, <2>21, <2>22, <2>23
    DEF Next
<1>3. QED
  BY <1>1, <1>2, WalInvariant, OwnerInvariant, PTL DEF Spec

\* A flush is a stutter of the recording or adds entries that follow persisted ones.
LEMMA FlushPersists ==
    ASSUME WalInv, NEW r \in Outcomes, FlushSession(r), ~closed => blobKind = "stream" \/ shared,
           UNCHANGED <<wal, blobKind, session, shared>>
    PROVE  R!Next \/ UNCHANGED R!vars
<1>1. CASE blob' = blob
  BY <1>1 DEF R!vars
<1>2. CASE blob' # blob
  <2>1. Available # 0 /\ AppendSessionStream(FlushedIndices) /\ ~closed
    BY <1>2 DEF FlushSession, flushVars
  <2>2. Appended
    BY <2>1, AppendAdds DEF WalInv
  <2>3. /\ StartIndex \in Nat /\ StartIndex >= 2 /\ StartIndex = MaxOf(last, 1) + 1
        /\ Taken \in Nat /\ Taken >= 1 /\ Taken <= Len(wal) + 2 - StartIndex
        /\ Len(wal) \in Nat /\ Len(blob) \in Nat
    BY <2>1, WindowTyped DEF WalInv, TypeOK
  <2>a. PICK a \in 1..Len(wal) : a = StartIndex - 1
    BY <2>3
  <2>b. PICK b \in a..Len(wal) : b = StartIndex + Taken - 2
    BY <2>3, <2>a
  <2> DEFINE new == [i \in 1..Taken |-> a + i - 1]
             old == [j \in 1..Len(blob) |-> blob[j] - 1]
  <2>4. b - a + 1 = Taken
    BY SMTT(30), <2>3, <2>a, <2>b
  <2>5. last \in Nat /\ blob \in Seq(Nat) /\ blob' \in Seq(Nat)
    BY <2>2 DEF Appended, WalInv, TypeOK
  <2>6. /\ old \in Seq(Int) /\ Len(old) = Len(blob)
        /\ \A j \in 1..Len(blob) : old[j] = blob[j] - 1
    BY SMTT(30), <2>3, <2>5
  <2>7. /\ new \in Seq(Int) /\ Len(new) = Taken
        /\ \A i \in 1..Taken : new[i] = StartIndex + i - 2
    <3>1. a \in Int /\ Taken \in Nat
      BY <2>3, <2>a
    <3>2. new \in Seq(Int) /\ Len(new) = Taken
      BY <3>1
    <3>3. \A i \in 1..Taken : new[i] = StartIndex + i - 2
      BY <2>3, <2>a
    <3>4. QED
      BY <3>2, <3>3
  <2> HIDE DEF old, new
  <2>8. a = 1 \/ \E j \in 1..Len(old) : old[j] = a - 1
    <3>1. CASE last < 2
      BY <2>a, <2>3, <2>5, <3>1 DEF MaxOf
    <3>2. CASE last >= 2
      <4>1. PICK j \in 1..Len(blob) : blob[j] = last
        BY <3>2 DEF WalInv, LastIsFlushed
      <4>2. a = last
        BY <2>a, <2>3, <2>5, <3>2 DEF MaxOf
      <4>3. old[j] = a - 1
        BY <2>6, <4>1, <4>2
      <4>4. QED
        BY <2>6, <4>1, <4>3
    <3>3. QED
      BY <2>5, <3>1, <3>2
  <2>9. [j \in 1..Len(blob') |-> blob'[j] - 1] = old \o new
    <3>1. /\ old \o new \in Seq(Int) /\ Len(old \o new) = Len(blob) + Taken
          /\ \A j \in 1..Len(blob) + Taken :
                (old \o new)[j] = IF j <= Len(blob) THEN old[j] ELSE new[j - Len(blob)]
      <4>1. /\ old \o new \in Seq(Int) /\ Len(old \o new) = Len(old) + Len(new)
            /\ \A j \in 1..Len(old) + Len(new) :
                  (old \o new)[j] = IF j <= Len(old) THEN old[j] ELSE new[j - Len(old)]
        <5>1. old \in Seq(Int) /\ new \in Seq(Int)
          BY <2>6, <2>7
        <5>2. QED
          BY <5>1, ConcatProperties
      <4>2. QED
        BY <2>6, <2>7, <4>1
    <3>2. ASSUME NEW j \in 1..Len(blob) + Taken PROVE blob'[j] - 1 = (old \o new)[j]
      <4>1. CASE j <= Len(blob)
        <5>1. j \in 1..Len(blob)
          BY <2>3, <4>1
        <5>2. blob'[j] = blob[j]
          BY <2>2, <5>1 DEF Appended
        <5>3. QED
          BY <2>6, <3>1, <4>1, <5>1, <5>2
      <4>2. CASE j > Len(blob)
        <5>1. j - Len(blob) \in 1..Taken /\ Len(blob) + (j - Len(blob)) = j
          BY <2>3, <4>2
        <5>2. blob'[j] = StartIndex + (j - Len(blob)) - 1
          BY <2>2, <5>1 DEF Appended
        <5>3. new[j - Len(blob)] = StartIndex + (j - Len(blob)) - 2
          BY <2>7, <5>1
        <5>4. (old \o new)[j] = new[j - Len(blob)]
          <6>1. ~(j <= Len(blob))
            BY <2>3, <4>2
          <6>2. QED
            BY <3>1, <6>1
        <5>5. QED
          BY <2>3, <5>2, <5>3, <5>4
      <4>3. j <= Len(blob) \/ j > Len(blob)
        BY <2>3
      <4>4. QED
        BY <4>1, <4>2, <4>3
    <3>3. Len(blob') = Len(blob) + Taken
      BY <2>2 DEF Appended
    <3> DEFINE both == old \o new
    <3>4. both \in Seq(Int) /\ Len(both) = Len(blob) + Taken
      BY <3>1
    <3>5. \A j \in 1..Len(blob) + Taken : blob'[j] - 1 = both[j]
      BY <3>2
    <3> HIDE DEF both
    <3>6. both = [j \in 1..Len(both) |-> both[j]]
      BY <3>4, LenProperties
    <3>7. [j \in 1..Len(blob') |-> blob'[j] - 1] = both
      BY <3>3, <3>4, <3>5, <3>6
    <3>8. QED
      BY <3>7 DEF both
  <2>10. new = [i \in 1..b - a + 1 |-> a + i - 1]
    BY <2>4 DEF new
  <2>11. R!Persist(a, b)
    BY <2>1, <2>8, <2>9, <2>10 DEF R!Persist, old
  <2>12. QED
    BY <2>11 DEF R!Next
<1>3. QED
  BY <1>1, <1>2

\* Whatever fails, stops or races, the plugin keeps the promise of Recording: what is
\* persisted is in order and without gaps, also when another connect records to the same
\* session; nothing follows a placeholder when none does.
THEOREM RecordingCorrect == Spec => IsRecording
<1>1. Init => R!Init
  <2> SUFFICES ASSUME Init PROVE R!Init
    OBVIOUS
  <2>1. wal = <<>> /\ blob = <<>> /\ blobKind = "absent" /\ session = "none" /\ shared = FALSE
    BY DEF Init
  <2>2. [j \in 1..Len(blob) |-> blob[j] - 1] = <<>>
    BY <2>1
  <2>3. QED
    BY <2>1, <2>2 DEF R!Init
<1>2. WalInv /\ OwnerInv /\ LifeInv /\ [Next]_vars => [R!Next]_(R!vars)
  <2> SUFFICES ASSUME WalInv, OwnerInv, LifeInv, [Next]_vars PROVE R!Next \/ UNCHANGED R!vars
    OBVIOUS
  <2> USE DEF flushVars
  <2>0. ASSUME UNCHANGED <<wal, blob, blobKind, session, shared>> PROVE R!Next \/ UNCHANGED R!vars
    BY <2>0 DEF R!vars
  <2>s. ASSUME ~shared, shared' = TRUE, UNCHANGED <<wal, blob, blobKind, session>> PROVE R!Next
    <3>1. R!Share
      BY <2>s DEF R!Share
    <3>2. QED
      BY <3>1 DEF R!Next
  <2>d. ASSUME shared, UNCHANGED <<wal, blob, shared>>,
               blobKind' \in {"absent", "stream", "placeholder"}, session' \in {"none", "open", "done"}
        PROVE  R!Next
    <3>1. R!Disturb
      BY <2>d DEF R!Disturb
    <3>2. QED
      BY <3>1 DEF R!Next
  <2>1. CASE UNCHANGED vars
    BY <2>1, <2>0 DEF vars
  <2>2. ASSUME WriteOnConnect PROVE R!Next \/ UNCHANGED R!vars
    BY <2>2, <2>0 DEF WriteOnConnect
  <2>3. ASSUME StartFlushTicker PROVE R!Next \/ UNCHANGED R!vars
    <3>1. CASE shared
      BY <2>3, <3>1, <2>d
      DEF StartFlushTicker, UpsertSession, CreateEmptySessionStreamBlob, WalInv, TypeOK
    <3>2. CASE ~shared
      <4>1. R!Open
        BY <2>3, <3>2
        DEF StartFlushTicker, UpsertSession, CreateEmptySessionStreamBlob, LifeInv, R!Open
      <4>2. QED
        BY <4>1 DEF R!Next
    <3>3. QED
      BY <3>1, <3>2
  <2>4. ASSUME ConnectFails PROVE R!Next \/ UNCHANGED R!vars
    <3>0. CASE shared
      BY <2>4, <3>0, <2>d DEF ConnectFails, WalInv, TypeOK
    <3>1. CASE session' = session
      BY <2>4, <3>1, <2>0 DEF ConnectFails
    <3>2. CASE ~shared /\ session' = "open"
      <4>1. R!Open
        BY <2>4, <3>2 DEF ConnectFails, LifeInv, R!Open
      <4>2. QED
        BY <4>1 DEF R!Next
    <3>3. QED
      BY <2>4, <3>0, <3>1, <3>2 DEF ConnectFails
  <2>5. ASSUME NEW w \in Writers, GetWal(w) PROVE R!Next \/ UNCHANGED R!vars
    BY <2>5, <2>0 DEF GetWal
  <2>6. ASSUME NEW w \in Writers, WriteWal(w) PROVE R!Next \/ UNCHANGED R!vars
    <3>1. CASE wal' = wal
      BY <2>6, <3>1, <2>0 DEF WriteWal
    <3>2. CASE \E e \in Recorded : ~closed /\ wal' = Append(wal, e)
      <4>1. Len(wal') = Len(wal) + 1
        BY <3>2, LenProperties DEF WalInv, TypeOK
      <4>2. blobKind = "stream" \/ shared
        BY <2>6, <3>2 DEF WriteWal, LifeInv, WalInv, TypeOK
      <4>3. R!Record
        BY <2>6, <4>1, <4>2 DEF WriteWal, R!Record
      <4>4. QED
        BY <4>3 DEF R!Next
    <3>3. QED
      BY <2>6, <3>1, <3>2 DEF WriteWal
  <2>7. ASSUME Tick PROVE R!Next \/ UNCHANGED R!vars
    BY <2>7, <2>0 DEF Tick
  <2>8. ASSUME NEW r \in Outcomes, TickFlush(r) PROVE R!Next \/ UNCHANGED R!vars
    <3>1. ~closed => blobKind = "stream" \/ shared
      BY <2>8 DEF TickFlush, LifeInv, WalInv, TypeOK
    <3>2. QED
      BY <2>8, <3>1, FlushPersists DEF TickFlush
  <2>9. ASSUME DropPop PROVE R!Next \/ UNCHANGED R!vars
    BY <2>9, <2>0 DEF DropPop
  <2>10. ASSUME DropRemove PROVE R!Next \/ UNCHANGED R!vars
    BY <2>10, <2>0 DEF DropRemove
  <2>11. ASSUME NEW c \in Closers, CheckFolder(c) PROVE R!Next \/ UNCHANGED R!vars
    BY <2>11, <2>0 DEF CheckFolder
  <2>12. ASSUME NEW c \in Closers, PopWal(c) PROVE R!Next \/ UNCHANGED R!vars
    BY <2>12, <2>0 DEF PopWal
  <2>13. ASSUME NEW c \in Closers, WriteError(c) PROVE R!Next \/ UNCHANGED R!vars
    <3>1. CASE wal' = wal
      BY <2>13, <3>1, <2>0 DEF WriteError
    <3>2. CASE wal' = Append(wal, 0)
      <4>1. Len(wal') = Len(wal) + 1
        BY <3>2, LenProperties DEF WalInv, TypeOK
      <4>2. blobKind = "stream" \/ shared
        BY <2>13 DEF WriteError, Closer, LifeInv, OwnerInv, Owning, WalInv, TypeOK
      <4>3. R!Record
        BY <2>13, <4>1, <4>2 DEF WriteError, R!Record
      <4>4. QED
        BY <4>3 DEF R!Next
    <3>3. QED
      BY <2>13, <3>1, <3>2 DEF WriteError
  <2>14. ASSUME NEW c \in Closers, NEW r \in Outcomes, FinalFlush(c, r) PROVE R!Next \/ UNCHANGED R!vars
    <3>1. ~closed => blobKind = "stream" \/ shared
      BY <2>14 DEF FinalFlush, Closer, LifeInv, OwnerInv, WalInv, TypeOK
    <3>2. QED
      BY <2>14, <3>1, FlushPersists DEF FinalFlush
  <2>15. ASSUME NEW c \in Closers, RemoveWal(c) PROVE R!Next \/ UNCHANGED R!vars
    BY <2>15, <2>0 DEF RemoveWal
  <2>16. ASSUME NEW c \in Closers, MarkSessionDone(c) PROVE R!Next \/ UNCHANGED R!vars
    <3>0. CASE shared
      BY <2>16, <3>0, <2>d DEF MarkSessionDone, WalInv, TypeOK
    <3>1. shared \/ session \in {"open", "done"}
      BY <2>16 DEF MarkSessionDone, Closer, LifeInv, OwnerInv
    <3>2. CASE session = "done"
      BY <2>16, <3>2, <2>0 DEF MarkSessionDone
    <3>3. CASE session = "open"
      BY <2>16, <3>3 DEF MarkSessionDone, R!Finish, R!Next
    <3>4. QED
      BY <3>0, <3>1, <3>2, <3>3
  <2>17. ASSUME NEW c \in Closers, MarkSessionDonePlaceholder(c) PROVE R!Next \/ UNCHANGED R!vars
    <3>0. CASE shared
      BY <2>17, <3>0, <2>d DEF MarkSessionDonePlaceholder, UpdateSessionEventStream
    <3>1. shared \/ blobKind \in {"stream", "placeholder"}
      BY <2>17 DEF MarkSessionDonePlaceholder, Closer, LifeInv, OwnerInv, WalInv, TypeOK
    <3>2. CASE ~shared /\ blobKind = "placeholder"
      BY <2>17, <3>2, <2>0 DEF MarkSessionDonePlaceholder, UpdateSessionEventStream, LifeInv
    <3>3. CASE blobKind = "stream"
      BY <2>17, <3>3 DEF MarkSessionDonePlaceholder, UpdateSessionEventStream, R!Replace, R!Next
    <3>4. QED
      BY <3>0, <3>1, <3>2, <3>3
  <2>18. ASSUME NEW c \in Closers, MarkFails(c) PROVE R!Next \/ UNCHANGED R!vars
    BY <2>18, <2>0 DEF MarkFails
  <2>19. ASSUME Restart PROVE R!Next \/ UNCHANGED R!vars
    BY <2>19, <2>0 DEF Restart
  <2>21. ASSUME OtherRemoves PROVE R!Next \/ UNCHANGED R!vars
    BY <2>21, <2>0, <2>s DEF OtherRemoves
  <2>22. ASSUME OtherSets PROVE R!Next \/ UNCHANGED R!vars
    BY <2>22, <2>0 DEF OtherSets
  <2>23. ASSUME OtherStarts PROVE R!Next \/ UNCHANGED R!vars
    BY <2>23, <2>d DEF OtherStarts, CreateEmptySessionStreamBlob, WalInv, TypeOK
  <2>20. QED
    BY <2>1, <2>2, <2>3, <2>4, <2>5, <2>6, <2>7, <2>8, <2>9, <2>10,
       <2>11, <2>12, <2>13, <2>14, <2>15, <2>16, <2>17, <2>18, <2>19, <2>21, <2>22, <2>23
    DEF Next
<1>3. QED
  BY <1>1, <1>2, WalInvariant, OwnerInvariant, LifeInvariant, PTL DEF Spec, IsRecording, R!Spec
-----------------------------------------------------------------------------
(* What a close may miss *)

Got == {w \in Writers : writer[w] = "got"}

\* The last flush took all there was: what a writer that holds the log adds after it
\* is missed, and each adds at most one entry before it looks the log up again.
MissInv ==
    /\ repeated => failures # 0
    /\ failures = 0 /\ ~truncated /\ restarts = 0
         /\ ((\E c \in Closers : closer[c] = "remove") \/ (closed /\ dropper # "end"))
       => Len(wal) - Len(blob) + Cardinality(Got) <= Cardinality(Writers)

\* The writers that hold the log are finitely many.
LEMMA GotFinite ==
    /\ IsFiniteSet(Got) /\ IsFiniteSet(Writers)
    /\ Cardinality(Got) \in Nat /\ Cardinality(Writers) \in Nat
    /\ Cardinality(Got) <= Cardinality(Writers)
<1>1. IsFiniteSet(Writers) /\ Got \in SUBSET Writers
  BY BoundsAssumption DEF Got
<1>2. QED
  BY <1>1, FS_Subset, FS_CardinalityType

\* A flush never makes the stream miss more; the final one makes it miss nothing.
LEMMA FlushMisses ==
    ASSUME WalInv, NEW r \in Outcomes, FlushSession(r), wal' = wal, ~closed
    PROVE  failures' = 0 /\ ~repeated /\ ~truncated' =>
              Len(blob') = Len(wal) /\ ~repeated' /\ failures = 0 /\ ~truncated
<1> SUFFICES ASSUME failures' = 0, ~repeated, ~truncated'
             PROVE  Len(blob') = Len(wal) /\ ~repeated' /\ failures = 0 /\ ~truncated
  OBVIOUS
<1>1. /\ Len(wal) \in Nat /\ Len(blob) \in Nat /\ last \in Nat /\ failures \in Nat
      /\ Len(blob) = MaxOf(last, 1) - 1
  BY DEF WalInv, TypeOK, StreamIsPrefix
<1>2. ~truncated
  BY DEF FlushSession, flushVars
<1>3. CASE Available = 0
  <2>1. UNCHANGED flushVars
    BY <1>3 DEF FlushSession
  <2>2. Len(blob) = Len(wal)
    BY <1>1, <1>3 DEF Available, StartIndex, MaxOf
  <2>3. QED
    BY <1>2, <2>1, <2>2 DEF flushVars
<1>4. CASE Available # 0
  <2>1. r = "ok"
    <3>1. r # "ok" => failures' = failures + 1
      BY <1>2, <1>4 DEF FlushSession
    <3>2. QED
      BY <1>1, <3>1
  <2>2. /\ AppendSessionStream(FlushedIndices) /\ truncated' = CapReached
        /\ failures' = failures /\ repeated' = repeated
    BY <1>2, <1>4, <2>1 DEF FlushSession
  <2>3. Len(blob') = Len(blob) + Taken
    BY <1>4, <2>2, AppendAdds DEF Appended, WalInv
  <2>4. Taken = Available
    BY <2>2 DEF Taken
  <2>5. Len(blob') = Len(wal)
    BY <1>1, <2>3, <2>4 DEF Available, StartIndex, MaxOf
  <2>6. QED
    BY <1>2, <2>2, <2>5
<1>5. QED
  BY <1>3, <1>4

LEMMA MissInvariant == Spec => []MissInv
<1>1. Init => MissInv
  BY DEF Init, MissInv
<1>2. WalInv /\ OwnerInv /\ MissInv /\ [Next]_vars => MissInv'
  <2> SUFFICES ASSUME WalInv, OwnerInv, MissInv, [Next]_vars PROVE MissInv'
    OBVIOUS
  <2> DEFINE Removing == (\E c \in Closers : closer[c] = "remove") \/ (closed /\ dropper # "end")
  <2>z. Len(wal) \in Nat /\ Len(blob) \in Nat
    BY DEF WalInv, TypeOK
  <2>0. ASSUME UNCHANGED <<wal, flushVars, restarts, writer>>, Removing' => Removing PROVE MissInv'
    BY <2>0 DEF MissInv, flushVars, Got
  <2>f. ASSUME NEW r \in Outcomes, FlushSession(r),
               UNCHANGED <<wal, closed, writer, dropper, restarts>>,
               closed => (Removing' => Removing)
        PROVE  MissInv'
    <3>0. (failures' = failures /\ repeated' = repeated) \/ failures' = failures + 1
      BY <2>f DEF FlushSession, flushVars
    <3>i. failures \in Nat /\ (repeated => failures # 0)
      BY DEF MissInv, WalInv, TypeOK
    <3>1. repeated' => failures' # 0
      <4>1. CASE failures' = failures /\ repeated' = repeated
        BY <3>i, <4>1
      <4>2. CASE failures' = failures + 1
        BY <3>i, <4>2
      <4>3. QED
        BY <3>0, <4>1, <4>2
    <3>2. CASE closed
      BY <2>f, <3>2 DEF FlushSession, flushVars, MissInv, Got
    <3>3. CASE ~closed
      <4>1. failures' = 0 /\ ~truncated' /\ ~repeated => Len(blob') = Len(wal)
        BY <2>f, <3>3, FlushMisses
      <4>2. failures' = 0 => ~repeated
        BY <2>f DEF FlushSession, flushVars, MissInv, WalInv, TypeOK
      <4>3. Got' = Got
        BY <2>f DEF Got
      <4>4. failures' = 0 /\ ~truncated' =>
               Len(wal') - Len(blob') + Cardinality(Got') <= Cardinality(Writers)
        BY <2>f, <2>z, <4>1, <4>2, <4>3, GotFinite
      <4>5. QED
        BY <3>1, <4>4 DEF MissInv
    <3>4. QED
      BY <3>2, <3>3
  <2>1. CASE UNCHANGED vars
    BY <2>1, <2>0 DEF vars
  <2>2. ASSUME WriteOnConnect PROVE MissInv'
    BY <2>2, <2>0 DEF WriteOnConnect, WalInv, TypeOK, OwnerInv, Owning, Closer
  <2>3. ASSUME StartFlushTicker PROVE MissInv'
    BY <2>3, <2>0 DEF StartFlushTicker, WalInv, TypeOK, OwnerInv, Owning, Closer
  <2>4. ASSUME ConnectFails PROVE MissInv'
    BY <2>4 DEF ConnectFails, MissInv, OwnerInv, Got, WalInv, TypeOK
  <2>5. ASSUME NEW w \in Writers, GetWal(w) PROVE MissInv'
    <3>1. ~Removing'
      BY <2>5 DEF GetWal, OwnerInv, Owning, StoreHoldsLiveWal
    <3>2. QED
      BY <2>5, <3>1 DEF GetWal, MissInv, flushVars
  <2>6. ASSUME NEW w \in Writers, WriteWal(w) PROVE MissInv'
    <3>1. /\ writer[w] = "got" /\ writer' = [writer EXCEPT ![w] = "idle"]
          /\ wal' = wal \/ \E e \in Recorded : wal' = Append(wal, e)
          /\ UNCHANGED flushVars /\ UNCHANGED <<restarts, closer, closed, dropper>>
      BY <2>6 DEF WriteWal
    <3>2. Got' = Got \ {w} /\ w \in Got
      BY <3>1 DEF Got, WalInv, TypeOK
    <3>3. Cardinality(Got') = Cardinality(Got) - 1
      BY <3>2, GotFinite, FS_RemoveElement
    <3>4. Len(wal') \in Nat /\ Len(wal') <= Len(wal) + 1
      <4>1. CASE wal' = wal
        BY <2>z, <4>1
      <4>2. CASE \E e \in Recorded : wal' = Append(wal, e)
        BY <2>z, <4>2, LenProperties DEF WalInv, TypeOK
      <4>3. QED
        BY <3>1, <4>1, <4>2
    <3>5. Len(wal') - Len(blob) + Cardinality(Got') <= Len(wal) - Len(blob) + Cardinality(Got)
      BY <2>z, <3>3, <3>4, GotFinite
    <3>6. Len(wal) - Len(blob) + Cardinality(Got) <= Cardinality(Writers) =>
            Len(wal') - Len(blob) + Cardinality(Got') <= Cardinality(Writers)
      BY <2>z, <3>3, <3>4, <3>5, GotFinite
    <3>7. QED
      BY <3>1, <3>6 DEF MissInv, flushVars
  <2>7. ASSUME Tick PROVE MissInv'
    BY <2>7, <2>0 DEF Tick, WalInv, TypeOK, OwnerInv, Owning, Closer
  <2>8. ASSUME NEW r \in Outcomes, TickFlush(r) PROVE MissInv'
    BY <2>8, <2>f DEF TickFlush
  <2>9. ASSUME DropPop PROVE MissInv'
    BY <2>9, <2>0 DEF DropPop, WalInv, TypeOK, OwnerInv, Owning, Closer
  <2>10. ASSUME DropRemove PROVE MissInv'
    <3>1. Removing' => Removing
      BY <2>10 DEF DropRemove
    <3>2. QED
      BY <2>10, <2>0, <3>1 DEF DropRemove
  <2>11. ASSUME NEW c \in Closers, CheckFolder(c) PROVE MissInv'
    BY <2>11, <2>0 DEF CheckFolder, WalInv, TypeOK, OwnerInv, Owning, Closer
  <2>12. ASSUME NEW c \in Closers, PopWal(c) PROVE MissInv'
    BY <2>12, <2>0 DEF PopWal, WalInv, TypeOK, OwnerInv, Owning, Closer
  <2>13. ASSUME NEW c \in Closers, WriteError(c) PROVE MissInv'
    <3>1. ~Removing'
      <4>1. \A d \in Closers : closer'[d] # "remove"
        BY <2>13 DEF WriteError, WalInv, TypeOK, OwnerInv, Owning, Closer
      <4>2. ~closed'
        BY <2>13 DEF WriteError, OwnerInv, Owning, Closer
      <4>3. QED
        BY <4>1, <4>2
    <3>2. QED
      BY <2>13, <3>1 DEF WriteError, MissInv, flushVars
  <2>14. ASSUME NEW c \in Closers, NEW r \in Outcomes, FinalFlush(c, r) PROVE MissInv'
    <3>1. ~closed
      BY <2>14 DEF FinalFlush, OwnerInv, Owning, Closer
    <3>2. QED
      BY <2>14, <2>f, <3>1 DEF FinalFlush
  <2>15. ASSUME NEW c \in Closers, RemoveWal(c) PROVE MissInv'
    <3>1. Removing
      BY <2>15 DEF RemoveWal, Closer
    <3>2. QED
      BY <2>15, <2>0, <3>1 DEF RemoveWal
  <2>16. ASSUME NEW c \in Closers, MarkSessionDone(c) PROVE MissInv'
    BY <2>16, <2>0 DEF MarkSessionDone, WalInv, TypeOK, OwnerInv, Owning, Closer
  <2>17. ASSUME NEW c \in Closers, MarkSessionDonePlaceholder(c) PROVE MissInv'
    BY <2>17, <2>0 DEF MarkSessionDonePlaceholder, WalInv, TypeOK, OwnerInv, Owning, Closer
  <2>18. ASSUME NEW c \in Closers, MarkFails(c) PROVE MissInv'
    <3>1. failures' # 0
      BY <2>18 DEF MarkFails, WalInv, TypeOK
    <3>2. QED
      BY <3>1 DEF MissInv
  <2>19. ASSUME Restart PROVE MissInv'
    BY <2>19 DEF Restart, MissInv, flushVars, WalInv, TypeOK
  <2>21. ASSUME OtherRemoves PROVE MissInv'
    BY <2>21, <2>0 DEF OtherRemoves
  <2>22. ASSUME OtherSets PROVE MissInv'
    BY <2>22, <2>0 DEF OtherSets
  <2>23. ASSUME OtherStarts PROVE MissInv'
    BY <2>23, <2>0 DEF OtherStarts
  <2>20. QED
    BY <2>1, <2>2, <2>3, <2>4, <2>5, <2>6, <2>7, <2>8, <2>9, <2>10,
       <2>11, <2>12, <2>13, <2>14, <2>15, <2>16, <2>17, <2>18, <2>19, <2>21, <2>22, <2>23
    DEF Next
<1>3. QED
  BY <1>1, <1>2, WalInvariant, OwnerInvariant, PTL DEF Spec

\* closeSessionWAL: a closed session misses at most an entry for each goroutine that
\* had looked the log up before the close took it out of the store.
THEOREM LossCorrect == Spec => []LostOnlyInFlight
<1>1. WalInv /\ MissInv => LostOnlyInFlight
  BY GotFinite DEF WalInv, TypeOK, MissInv, LostOnlyInFlight
<1>2. QED
  BY <1>1, WalInvariant, MissInvariant, PTL
-----------------------------------------------------------------------------
(* The verdicts that are counted *)

\* Verdicts are written in their order, the dedup state is the last verdict of the
\* stream, and the verdicts of the stream are counted.
VerdictInv ==
    /\ \A i, j \in 1..Len(wal) : i < j /\ wal[j] # 0 => wal[i] <= wal[j]
    /\ failures = 0 =>
          /\ \A j \in 1..Len(blob) : wal[j] # 0 => wal[j] \in counted
          /\ lastSeq = 0 \/ \E j \in 1..Len(blob) : wal[j] = lastSeq

\* A verdict that is written is not before those written earlier.
LEMMA VerdictsGrow ==
    ASSUME TypeOK, NEW a \in Recorded, a # 0
    PROVE  \A i \in 1..Len(wal) : wal[i] <= a
<1> DEFINE seqs == {0} \union {wal[j] : j \in 1..Len(wal)}
<1>1. \A j \in 1..Len(wal) : wal[j] \in 0..MaxVerdicts
  <2> SUFFICES ASSUME NEW j \in 1..Len(wal) PROVE wal[j] \in 0..MaxVerdicts
    OBVIOUS
  <2>1. wal[j] \in Event
    BY ElementOfSeq DEF TypeOK
  <2>2. QED
    BY <2>1 DEF Event
<1>2. seqs \in SUBSET (0..MaxVerdicts) /\ seqs # {}
  BY <1>1, BoundsAssumption
<1>3. \E x \in seqs : \A y \in seqs : y <= x
  BY <1>2, MaxExists, BoundsAssumption
<1>4. LastVerdict \in seqs /\ \A y \in seqs : y <= LastVerdict
  BY <1>3 DEF LastVerdict
<1>5. \A i \in 1..Len(wal) : wal[i] <= LastVerdict
  BY <1>4
<1>6. LastVerdict \in Nat
  BY <1>2, <1>4, BoundsAssumption
<1>7. a \in Nat /\ a >= LastVerdict
  BY <1>6 DEF Recorded, Event, MaxOf
<1>8. QED
  BY <1>1, <1>5, <1>6, <1>7

\* An entry without a verdict, or with one that is not earlier, keeps the order.
LEMMA WriteKeepsVerdicts ==
    ASSUME WalInv, NEW e \in Event, wal' = Append(wal, e),
           e # 0 => \A i \in 1..Len(wal) : wal[i] <= e,
           failures' = 0 => failures = 0 /\ ~repeated,
           UNCHANGED <<blob, counted, lastSeq>>, VerdictInv
    PROVE  VerdictInv'
<1>1. /\ Len(wal) \in Nat /\ Len(wal') = Len(wal) + 1 /\ wal'[Len(wal) + 1] = e
      /\ \A i \in 1..Len(wal) : wal'[i] = wal[i]
  BY AppendProperties, LenProperties DEF WalInv, TypeOK
<1>2. ASSUME NEW i \in 1..Len(wal'), NEW j \in 1..Len(wal'), i < j, wal'[j] # 0
      PROVE  wal'[i] <= wal'[j]
  <2>1. i \in 1..Len(wal) /\ wal'[i] = wal[i]
    BY <1>1, <1>2
  <2>2. CASE j \in 1..Len(wal)
    BY <1>1, <1>2, <2>1, <2>2 DEF VerdictInv
  <2>3. CASE j = Len(wal) + 1
    BY <1>1, <1>2, <2>1, <2>3
  <2>4. QED
    BY <1>1, <2>2, <2>3
<1>3. ASSUME failures' = 0
      PROVE  \A j \in 1..Len(blob) : j \in 1..Len(wal) /\ wal'[j] = wal[j]
  <2>1. Len(blob) \in Nat /\ Len(blob) <= Len(wal)
    BY <1>3 DEF WalInv, TypeOK, StreamIsPrefix
  <2>2. QED
    BY <1>1, <2>1
<1>4. failures' = 0 =>
        /\ \A j \in 1..Len(blob') : wal'[j] # 0 => wal'[j] \in counted'
        /\ lastSeq' = 0 \/ \E j \in 1..Len(blob') : wal'[j] = lastSeq'
  BY <1>3 DEF VerdictInv
<1>5. QED
  BY <1>2, <1>4 DEF VerdictInv

\* A flush counts the verdicts of its window: one that is not new is that of an
\* entry flushed before.
LEMMA FlushCounts ==
    ASSUME WalInv, VerdictInv, repeated => failures # 0,
           NEW r \in Outcomes, FlushSession(r), wal' = wal
    PROVE  VerdictInv'
<1>1. CASE UNCHANGED flushVars
  BY <1>1 DEF flushVars, VerdictInv
<1>2. CASE ~(closed \/ truncated \/ Available = 0)
  <2>1. failures \in Nat /\ (r # "ok" => failures' = failures + 1)
    BY <1>2 DEF FlushSession, WalInv, TypeOK
  <2>2. CASE failures' # 0
    BY <2>2 DEF VerdictInv
  <2>3. CASE failures' = 0
    <3>1. /\ r = "ok" /\ lastSeq' = DedupSeq /\ counted' = counted \union NewVerdicts
          /\ AppendSessionStream(FlushedIndices) /\ failures = 0 /\ ~repeated
      BY <1>2, <2>1, <2>3 DEF FlushSession
    <3>2. /\ StartIndex \in Nat /\ StartIndex = MaxOf(last, 1) + 1 /\ Taken \in Nat /\ Taken >= 1
          /\ \A i \in Window : i - 1 \in 1..Len(wal)
      BY <1>2, WindowTyped DEF WalInv
    <3>3. Len(blob') = Len(blob) + Taken
      BY <1>2, <3>1, AppendAdds DEF WalInv, Appended
    <3>0. /\ Len(blob) \in Nat /\ Len(wal) \in Nat /\ lastSeq \in Nat
          /\ Len(blob) = MaxOf(last, 1) - 1 /\ MaxOf(last, 1) - 1 <= Len(wal)
      BY <3>1 DEF WalInv, TypeOK, StreamIsPrefix
    <3>m. MaxOf(last, 1) \in Nat
      BY DEF WalInv, TypeOK, MaxOf
    <3>4. /\ Len(blob) \in Nat /\ Len(wal) \in Nat /\ StartIndex = Len(blob) + 2
          /\ Len(blob) <= Len(wal) /\ lastSeq \in Nat
      BY <3>0, <3>m, <3>2
    <3>5. \A j \in 1..Len(blob') : j \in 1..Len(blob) \/ (j > Len(blob) /\ j + 1 \in Window)
      BY <3>2, <3>3, <3>4 DEF Window
    <3>6. ASSUME NEW j \in 1..Len(blob'), wal[j] # 0 PROVE wal[j] \in counted'
      <4>1. CASE j \in 1..Len(blob)
        BY <3>1, <3>6, <4>1 DEF VerdictInv
      <4>2. CASE j > Len(blob) /\ j + 1 \in Window
        <5>0. j \in Nat /\ (j + 1) - 1 = j
          BY <3>3, <3>4
        <5>1. j \in 1..Len(wal)
          BY <3>2, <4>2, <5>0
        <5>2. wal[j] \in Nat
          <6>1. wal[j] \in Event
            BY <5>1, ElementOfSeq DEF WalInv, TypeOK
          <6>2. QED
            BY <6>1 DEF Event
        <5>3. wal[j] \in {wal[i - 1] : i \in Window}
          BY <4>2, <5>0
        <5>4. CASE wal[j] > lastSeq
          <6>1. wal[j] \notin 0..lastSeq
            BY <3>4, <5>2, <5>4
          <6>2. wal[j] \in NewVerdicts
            BY <5>3, <6>1 DEF NewVerdicts
          <6>3. QED
            BY <3>1, <6>2
        <5>5. CASE wal[j] <= lastSeq
          <6>1. lastSeq # 0
            BY <3>4, <3>6, <5>2, <5>5
          <6>2. PICK i \in 1..Len(blob) : wal[i] = lastSeq
            BY <3>1, <6>1 DEF VerdictInv
          <6>3. i \in 1..Len(wal) /\ i < j
            BY <3>4, <4>2, <5>0
          <6>4. wal[i] <= wal[j]
            BY <3>6, <5>1, <6>3 DEF VerdictInv
          <6>5. wal[j] = wal[i]
            BY <3>4, <5>2, <5>5, <6>2, <6>4
          <6>6. wal[i] \in counted
            BY <3>1, <3>6, <6>2, <6>5 DEF VerdictInv
          <6>7. QED
            BY <3>1, <6>5, <6>6
        <5>6. QED
          BY <3>4, <5>2, <5>4, <5>5
      <4>3. QED
        BY <3>5, <4>1, <4>2
    <3>7. lastSeq' = 0 \/ \E j \in 1..Len(blob') : wal[j] = lastSeq'
      <4>1. CASE NewVerdicts = {}
        <5>1. lastSeq' = lastSeq
          BY <3>1, <4>1 DEF DedupSeq
        <5>2. \A j \in 1..Len(blob) : j \in 1..Len(blob')
          BY <3>2, <3>3, <3>4
        <5>3. QED
          BY <3>1, <5>1, <5>2 DEF VerdictInv
      <4>2. CASE NewVerdicts # {}
        <5>1. NewVerdicts \subseteq 0..MaxVerdicts
          BY <1>2, VerdictsTyped DEF WalInv
        <5>2. \E a \in NewVerdicts : \A b \in NewVerdicts : b <= a
          BY <4>2, <5>1, MaxExists, BoundsAssumption
        <5>3. lastSeq' \in NewVerdicts
          BY <3>1, <4>2, <5>2 DEF DedupSeq
        <5>4. PICK i \in Window : wal[i - 1] = lastSeq'
          BY <5>3 DEF NewVerdicts
        <5>5. i - 1 \in 1..Len(blob')
          BY <3>2, <3>3, <3>4 DEF Window
        <5>6. QED
          BY <5>4, <5>5
      <4>3. QED
        BY <4>1, <4>2
    <3>8. QED
      BY <3>6, <3>7 DEF VerdictInv
  <2>4. QED
    BY <2>2, <2>3
<1>3. QED
  BY <1>1, <1>2 DEF FlushSession

LEMMA VerdictInvariant == Spec => []VerdictInv
<1>1. Init => VerdictInv
  BY DEF Init, VerdictInv
<1>2. WalInv /\ MissInv /\ VerdictInv /\ [Next]_vars => VerdictInv'
  <2> SUFFICES ASSUME WalInv, MissInv, VerdictInv, [Next]_vars PROVE VerdictInv'
    OBVIOUS
  <2> USE DEF flushVars
  <2>0. ASSUME UNCHANGED <<wal, blob, counted, lastSeq>>, failures' = 0 => failures = 0
        PROVE  VerdictInv'
    BY <2>0 DEF VerdictInv
  <2>1. CASE UNCHANGED vars
    BY <2>1, <2>0 DEF vars
  <2>2. ASSUME WriteOnConnect PROVE VerdictInv'
    BY <2>2, <2>0 DEF WriteOnConnect
  <2>3. ASSUME StartFlushTicker PROVE VerdictInv'
    BY <2>3, <2>0 DEF StartFlushTicker, UpsertSession, CreateEmptySessionStreamBlob
  <2>4. ASSUME ConnectFails PROVE VerdictInv'
    BY <2>4, <2>0 DEF ConnectFails, WalInv, TypeOK
  <2>5. ASSUME NEW w \in Writers, GetWal(w) PROVE VerdictInv'
    BY <2>5, <2>0 DEF GetWal
  <2>6. ASSUME NEW w \in Writers, WriteWal(w) PROVE VerdictInv'
    <3>1. CASE wal' = wal
      BY <2>6, <3>1, <2>0 DEF WriteWal
    <3>2. CASE \E e \in Recorded : wal' = Append(wal, e)
      <4>1. PICK a \in Recorded : wal' = Append(wal, a)
        BY <3>2
      <4>2. a \in Event
        BY BoundsAssumption DEF Event, Recorded
      <4>3. a # 0 => \A i \in 1..Len(wal) : wal[i] <= a
        BY VerdictsGrow DEF WalInv
      <4>4. UNCHANGED <<blob, counted, lastSeq, failures>>
        BY <2>6 DEF WriteWal
      <4>5. QED
        BY <4>1, <4>2, <4>3, <4>4, WriteKeepsVerdicts DEF MissInv
    <3>3. QED
      BY <2>6, <3>1, <3>2 DEF WriteWal
  <2>7. ASSUME Tick PROVE VerdictInv'
    BY <2>7, <2>0 DEF Tick
  <2>8. ASSUME NEW r \in Outcomes, TickFlush(r) PROVE VerdictInv'
    BY <2>8, FlushCounts DEF TickFlush, MissInv
  <2>9. ASSUME DropPop PROVE VerdictInv'
    BY <2>9, <2>0 DEF DropPop
  <2>10. ASSUME DropRemove PROVE VerdictInv'
    BY <2>10, <2>0 DEF DropRemove
  <2>11. ASSUME NEW c \in Closers, CheckFolder(c) PROVE VerdictInv'
    BY <2>11, <2>0 DEF CheckFolder
  <2>12. ASSUME NEW c \in Closers, PopWal(c) PROVE VerdictInv'
    BY <2>12, <2>0 DEF PopWal
  <2>13. ASSUME NEW c \in Closers, WriteError(c) PROVE VerdictInv'
    <3>1. CASE wal' = wal
      BY <2>13, <3>1, <2>0 DEF WriteError
    <3>2. CASE wal' = Append(wal, 0)
      <4>1. 0 \in Event
        BY BoundsAssumption DEF Event
      <4>2. UNCHANGED <<blob, counted, lastSeq, failures>>
        BY <2>13 DEF WriteError
      <4>3. QED
        BY <3>2, <4>1, <4>2, WriteKeepsVerdicts DEF MissInv
    <3>3. QED
      BY <2>13, <3>1, <3>2 DEF WriteError
  <2>14. ASSUME NEW c \in Closers, NEW r \in Outcomes, FinalFlush(c, r) PROVE VerdictInv'
    BY <2>14, FlushCounts DEF FinalFlush, MissInv
  <2>15. ASSUME NEW c \in Closers, RemoveWal(c) PROVE VerdictInv'
    BY <2>15, <2>0 DEF RemoveWal
  <2>16. ASSUME NEW c \in Closers, MarkSessionDone(c) PROVE VerdictInv'
    BY <2>16, <2>0 DEF MarkSessionDone
  <2>17. ASSUME NEW c \in Closers, MarkSessionDonePlaceholder(c) PROVE VerdictInv'
    BY <2>17, <2>0 DEF MarkSessionDonePlaceholder, UpdateSessionEventStream
  <2>18. ASSUME NEW c \in Closers, MarkFails(c) PROVE VerdictInv'
    BY <2>18, <2>0 DEF MarkFails, WalInv, TypeOK
  <2>19. ASSUME Restart PROVE VerdictInv'
    BY <2>19, <2>0 DEF Restart
  <2>21. ASSUME OtherRemoves PROVE VerdictInv'
    BY <2>21, <2>0 DEF OtherRemoves
  <2>22. ASSUME OtherSets PROVE VerdictInv'
    BY <2>22, <2>0 DEF OtherSets
  <2>23. ASSUME OtherStarts PROVE VerdictInv'
    BY <2>23, <2>0 DEF OtherStarts
  <2>20. QED
    BY <2>1, <2>2, <2>3, <2>4, <2>5, <2>6, <2>7, <2>8, <2>9, <2>10,
       <2>11, <2>12, <2>13, <2>14, <2>15, <2>16, <2>17, <2>18, <2>19, <2>21, <2>22, <2>23
    DEF Next
<1>3. QED
  BY <1>1, <1>2, WalInvariant, MissInvariant, PTL DEF Spec

\* accumulateAIAnalyzerVerdict: the verdict of every persisted entry is counted, as
\* long as no append failed.
THEOREM VerdictsCorrect == Spec => []VerdictsCounted
<1>1. VerdictInv => VerdictsCounted
  BY DEF VerdictInv, VerdictsCounted
<1>2. QED
  BY <1>1, VerdictInvariant, PTL
=============================================================================
