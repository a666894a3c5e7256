--------------------------- MODULE BackfillProofs ---------------------------
(***************************************************************************)
(* A reader of the tape writes each byte once and in order and misses none *)
(* between its copy and the live stream, and a recording ends where it now *)
(* ends, for every tape, queue and number of timers.                       *)
(***************************************************************************)
EXTENDS Backfill, TLAPS

USE BackfillAssumption, TapeAssumption DEF BackfillAssumption, TapeAssumption, Pos

-----------------------------------------------------------------------------
(* Sequences of bytes.                                                      *)

LEMMA RunDoes ==
    ASSUME NEW lo \in Nat, NEW hi \in Nat
    PROVE  /\ Run(lo, hi) \in Seq(Nat) /\ Ascending(Run(lo, hi))
           /\ \A i \in DOMAIN Run(lo, hi) : Run(lo, hi)[i] \in lo..(hi - 1)
           /\ Bytes(Run(lo, hi)) = lo..(hi - 1)
           /\ (hi <= lo => Run(lo, hi) = <<>>)
<1> DEFINE n == IF hi > lo THEN hi - lo ELSE 0
<1>1. n \in Nat /\ Run(lo, hi) = [i \in 1..n |-> lo + i - 1] BY DEF Run
<1>2. DOMAIN Run(lo, hi) = 1..n /\ \A i \in 1..n : Run(lo, hi)[i] = lo + i - 1 BY <1>1
<1>3. \A i \in 1..n : lo + i - 1 \in lo..(hi - 1) /\ lo + i - 1 \in Nat OBVIOUS
<1>4. Run(lo, hi) \in Seq(Nat) BY <1>1, <1>3
<1>5. Ascending(Run(lo, hi)) BY <1>2 DEF Ascending
<1>6. Bytes(Run(lo, hi)) = lo..(hi - 1)
  <2>1. ASSUME NEW b \in lo..(hi - 1) PROVE b \in Bytes(Run(lo, hi))
    <3>1. b - lo + 1 \in 1..n /\ lo + (b - lo + 1) - 1 = b OBVIOUS
    <3> HIDE DEF n
    <3> QED BY <1>2, <3>1 DEF Bytes
  <2>2. Bytes(Run(lo, hi)) \subseteq lo..(hi - 1) BY <1>2, <1>3 DEF Bytes
  <2> QED BY <2>1, <2>2
<1>7. hi <= lo => Run(lo, hi) = <<>> BY <1>1
<1> HIDE DEF n
<1> QED BY <1>2, <1>3, <1>4, <1>5, <1>6, <1>7

\* Where an element of a concatenation comes from.
LEMMA ConcatDoes ==
    ASSUME NEW s \in Seq(Nat), NEW t \in Seq(Nat)
    PROVE  /\ s \o t \in Seq(Nat)
           /\ \A k \in DOMAIN (s \o t) :
                 \/ k \in DOMAIN s /\ (s \o t)[k] = s[k]
                 \/ k - Len(s) \in DOMAIN t /\ (s \o t)[k] = t[k - Len(s)] /\ k > Len(s)
           /\ \A k \in DOMAIN s : k \in DOMAIN (s \o t) /\ (s \o t)[k] = s[k]
           /\ \A k \in DOMAIN t : k + Len(s) \in DOMAIN (s \o t) /\ (s \o t)[k + Len(s)] = t[k]
<1>1. s \o t \in Seq(Nat) /\ Len(s \o t) = Len(s) + Len(t) OBVIOUS
<1>2. DOMAIN s = 1..Len(s) /\ DOMAIN t = 1..Len(t) /\ DOMAIN (s \o t) = 1..(Len(s) + Len(t)) BY <1>1
<1>3. Len(s) \in Nat /\ Len(t) \in Nat OBVIOUS
<1>4. \A k \in 1..(Len(s) + Len(t)) : (s \o t)[k] = IF k <= Len(s) THEN s[k] ELSE t[k - Len(s)] OBVIOUS
<1> QED BY <1>1, <1>2, <1>3, <1>4

LEMMA ConcatBytes ==
    ASSUME NEW s \in Seq(Nat), NEW t \in Seq(Nat)
    PROVE  Bytes(s \o t) = Bytes(s) \cup Bytes(t)
<1>1. ASSUME NEW b \in Bytes(s \o t) PROVE b \in Bytes(s) \cup Bytes(t)
  <2>1. PICK k \in DOMAIN (s \o t) : b = (s \o t)[k] BY <1>1 DEF Bytes
  <2> QED BY <2>1, ConcatDoes DEF Bytes
<1>2. ASSUME NEW b \in Bytes(s) PROVE b \in Bytes(s \o t)
  <2>1. PICK k \in DOMAIN s : b = s[k] BY <1>2 DEF Bytes
  <2> QED BY <2>1, ConcatDoes DEF Bytes
<1>3. ASSUME NEW b \in Bytes(t) PROVE b \in Bytes(s \o t)
  <2>1. PICK k \in DOMAIN t : b = t[k] BY <1>3 DEF Bytes
  <2>2. k + Len(s) \in DOMAIN (s \o t) /\ (s \o t)[k + Len(s)] = b BY <2>1, ConcatDoes
  <2> QED BY ONLY <2>2 DEF Bytes
<1> QED BY <1>1, <1>2, <1>3

LEMMA ConcatSorted ==
    ASSUME NEW s \in Seq(Nat), NEW t \in Seq(Nat)
    PROVE  /\ Ascending(s) /\ Ascending(t) /\ Before(s, t) => Ascending(s \o t)
           /\ \A n \in Nat : Below(s, n) /\ Below(t, n) => Below(s \o t, n)
<1>1. ASSUME Ascending(s), Ascending(t), Before(s, t) PROVE Ascending(s \o t)
  <2>1. SUFFICES ASSUME NEW i \in DOMAIN (s \o t), NEW j \in DOMAIN (s \o t), i < j
                 PROVE  (s \o t)[i] < (s \o t)[j]
    BY DEF Ascending
  <2>2. i \in Int /\ j \in Int /\ Len(s) \in Nat /\ DOMAIN s = 1..Len(s) OBVIOUS
  <2>3. CASE j \in DOMAIN s /\ (s \o t)[j] = s[j]
    BY <1>1, <2>1, <2>2, <2>3, ConcatDoes DEF Ascending
  <2>4. CASE j - Len(s) \in DOMAIN t /\ (s \o t)[j] = t[j - Len(s)]
    <3>1. CASE i \in DOMAIN s /\ (s \o t)[i] = s[i] BY <1>1, <2>4, <3>1 DEF Before
    <3>2. CASE i - Len(s) \in DOMAIN t /\ (s \o t)[i] = t[i - Len(s)]
      <4>1. i - Len(s) < j - Len(s) BY <2>1, <2>2
      <4> QED BY <1>1, <2>4, <3>2, <4>1 DEF Ascending
    <3> QED BY <3>1, <3>2, ConcatDoes
  <2> QED BY <2>3, <2>4, ConcatDoes
<1>2. \A n \in Nat : Below(s, n) /\ Below(t, n) => Below(s \o t, n) BY ConcatDoes DEF Below
<1> QED BY <1>1, <1>2

LEMMA ConcatBefore ==
    ASSUME NEW s \in Seq(Nat), NEW t \in Seq(Nat), NEW u \in Seq(Nat)
    PROVE  /\ Before(u, s) /\ Before(u, t) => Before(u, s \o t)
           /\ Before(s, u) /\ Before(t, u) => Before(s \o t, u)
<1>1. ASSUME Before(u, s), Before(u, t), NEW i \in DOMAIN u, NEW j \in DOMAIN (s \o t)
      PROVE  u[i] < (s \o t)[j]
  BY <1>1, ConcatDoes DEF Before
<1>2. ASSUME Before(s, u), Before(t, u), NEW i \in DOMAIN (s \o t), NEW j \in DOMAIN u
      PROVE  (s \o t)[i] < u[j]
  <2>1. CASE i \in DOMAIN s /\ (s \o t)[i] = s[i] BY <1>2, <2>1 DEF Before
  <2>2. CASE i - Len(s) \in DOMAIN t /\ (s \o t)[i] = t[i - Len(s)] BY <1>2, <2>2 DEF Before
  <2> QED BY <2>1, <2>2, ConcatDoes
<1> QED BY <1>1, <1>2 DEF Before

\* The first byte of the queue goes, alone or to the end of what is written.
LEMMA TailDoes ==
    ASSUME NEW s \in Seq(Nat), NEW q \in Seq(Nat), q # <<>>
    PROVE  /\ Tail(q) \in Seq(Nat) /\ \A i \in DOMAIN Tail(q) : i + 1 \in DOMAIN q /\ Tail(q)[i] = q[i + 1]
           /\ Append(s, q[1]) \in Seq(Nat) /\ q[1] \in Nat /\ 1 \in DOMAIN q
           /\ \A i \in DOMAIN q : q[i] = q[1] \/ (i - 1 \in DOMAIN Tail(q) /\ Tail(q)[i - 1] = q[i])
           /\ \A k \in DOMAIN Append(s, q[1]) :
                 (k \in DOMAIN s /\ Append(s, q[1])[k] = s[k]) \/ (k = Len(s) + 1 /\ Append(s, q[1])[k] = q[1])
           /\ \A k \in DOMAIN s : k \in DOMAIN Append(s, q[1]) /\ Append(s, q[1])[k] = s[k]
           /\ Len(s) + 1 \in DOMAIN Append(s, q[1]) /\ Append(s, q[1])[Len(s) + 1] = q[1]
<1>1. Len(q) \in Nat /\ Len(q) > 0 /\ DOMAIN q = 1..Len(q) /\ Len(s) \in Nat /\ DOMAIN s = 1..Len(s) OBVIOUS
<1>2. q[1] \in Nat /\ 1 \in DOMAIN q BY <1>1
<1>3. Tail(q) \in Seq(Nat) /\ Len(Tail(q)) = Len(q) - 1 /\ \A i \in 1..(Len(q) - 1) : Tail(q)[i] = q[i + 1] BY <1>1
<1>4. DOMAIN Tail(q) = 1..(Len(q) - 1) BY <1>3
<1>5. /\ Append(s, q[1]) \in Seq(Nat) /\ Len(Append(s, q[1])) = Len(s) + 1
      /\ \A k \in 1..(Len(s) + 1) : Append(s, q[1])[k] = IF k <= Len(s) THEN s[k] ELSE q[1]
  BY <1>2
<1>6. DOMAIN Append(s, q[1]) = 1..(Len(s) + 1) BY <1>5
<1>7. \A i \in DOMAIN Tail(q) : i + 1 \in DOMAIN q /\ Tail(q)[i] = q[i + 1] BY <1>1, <1>3, <1>4
<1>8. \A i \in DOMAIN q : q[i] = q[1] \/ (i - 1 \in DOMAIN Tail(q) /\ Tail(q)[i - 1] = q[i])
  <2>1. ASSUME NEW i \in 1..Len(q), i # 1 PROVE i - 1 \in 1..(Len(q) - 1) /\ (i - 1) + 1 = i BY <1>1, <2>1
  <2>2. ASSUME NEW i \in 1..Len(q), i # 1 PROVE Tail(q)[i - 1] = q[i] BY <2>1, <2>2, <1>3
  <2> QED BY ONLY <1>1, <1>4, <2>1, <2>2
<1>9. \A k \in DOMAIN Append(s, q[1]) :
         (k \in DOMAIN s /\ Append(s, q[1])[k] = s[k]) \/ (k = Len(s) + 1 /\ Append(s, q[1])[k] = q[1])
  BY ONLY <1>1, <1>5, <1>6
<1>10. \A k \in DOMAIN s : k \in DOMAIN Append(s, q[1]) /\ Append(s, q[1])[k] = s[k] BY ONLY <1>1, <1>5, <1>6
<1>11. Len(s) + 1 \in DOMAIN Append(s, q[1]) /\ Append(s, q[1])[Len(s) + 1] = q[1] BY ONLY <1>1, <1>5, <1>6
<1> QED BY ONLY <1>2, <1>3, <1>5, <1>7, <1>8, <1>9, <1>10, <1>11
-----------------------------------------------------------------------------
(* Each action, by what it does to the four parts of the invariant.         *)

USE DEF tape, reader, fanout, rec, written, Alone, Covered

\* What the reader, the timers and the ring do to the three sequences: nothing.
LEMMA SameBytes ==
    ASSUME Sorted, received \in Nat, received' \in Nat, received <= received',
           out \in Seq(Nat), queue \in Seq(Nat), offering \in Seq(Nat),
           UNCHANGED <<out, queue, offering>>
    PROVE  Sorted'
<1>1. ASSUME NEW s \in Seq(Nat), Below(s, received) PROVE Below(s, received') BY <1>1 DEF Below
<1>2. Below(out', received') /\ Below(queue', received') /\ Below(offering', received') BY <1>1 DEF Sorted
<1> QED BY <1>2 DEF Sorted

LEMMA NoteLeadStep ==
    ASSUME BackfillInv, NEW n \in 1..MaxChunk, NoteLead(n)
    PROVE  BackfillInv'
<1> USE DEF BackfillInv
<1>1. received' = received + n /\ received' <= MaxPos /\ received \in Nat /\ n \in Nat BY DEF NoteLead, Take, TypeOK
<1>2. UNCHANGED <<reader, rec, written, joined, queue, delivering, stopped, shut>> /\ offering = <<>> BY DEF NoteLead
<1>3. offering' \in Seq(Nat) /\ Bytes(offering') = (IF joined THEN received..(received' - 1) ELSE {})
      /\ Ascending(offering') /\ \A i \in DOMAIN offering' : offering'[i] >= received /\ offering'[i] < received'
  <2>1. CASE joined
    <3>1. offering' = Run(received, received + n) BY <2>1 DEF NoteLead
    <3>2. received + n \in Nat BY <1>1
    <3>3. /\ offering' \in Seq(Nat) /\ Ascending(offering') /\ Bytes(offering') = received..(received + n - 1)
          /\ \A i \in DOMAIN offering' : offering'[i] \in received..(received + n - 1)
      <4>1. offering' \in Seq(Nat) /\ Ascending(offering') BY ONLY <1>1, <3>1, <3>2, RunDoes
      <4>2. Bytes(offering') = received..(received + n - 1) BY ONLY <1>1, <3>1, <3>2, RunDoes
      <4>3. \A i \in DOMAIN offering' : offering'[i] \in received..(received + n - 1)
        BY ONLY <1>1, <3>1, <3>2, RunDoes
      <4> QED BY <4>1, <4>2, <4>3
    <3> QED BY <1>1, <2>1, <3>3
  <2>2. CASE ~joined BY <2>2 DEF NoteLead, Bytes, Ascending
  <2> QED BY <2>1, <2>2 DEF TypeOK
<1>4. TypeOK' BY <1>1, <1>2, <1>3 DEF TypeOK, NoteLead, Take
<1>5. Sorted'
  <2>1. out \in Seq(Nat) /\ queue \in Seq(Nat) BY DEF TypeOK
  <2>2. ASSUME NEW s \in Seq(Nat), Below(s, received) PROVE Below(s, received') /\ Before(s, offering')
    <3>1. \A i \in DOMAIN s : s[i] \in Nat OBVIOUS
    <3>2. \A j \in DOMAIN offering' : offering'[j] \in Nat BY <1>3
    <3> QED BY <1>1, <1>3, <2>2, <3>1, <3>2 DEF Below, Before
  <2>3. Below(out', received') /\ Below(queue', received') /\ Before(out', offering') /\ Before(queue', offering')
    BY <1>2, <2>1, <2>2 DEF Sorted
  <2>4. Below(offering', received') BY <1>3 DEF Below
  <2> QED BY <1>2, <1>3, <2>3, <2>4 DEF Sorted
<1>6. Placed' BY <1>1, <1>2 DEF Placed, NoteLead, Take, TypeOK
<1>7. Kept'
  <2>1. Bytes(offering) = {} BY <1>2 DEF Bytes
  <2>2. rpc' \in Alone \ {"none"} => Covered(pos)' BY <1>2, <1>3, <2>1 DEF Kept, Placed
  <2>3. rpc \in {"end", "done"} /\ open /\ ~stopped => joined /\ Covered(received)' BY <1>1, <1>2, <1>3, <2>1 DEF Kept, TypeOK
  <2> QED BY <1>2, <2>2, <2>3 DEF Kept
<1>8. Timed' BY <1>1, <1>2 DEF Timed, TypeOK
<1> QED BY <1>4, <1>5, <1>6, <1>7, <1>8

LEMMA OfferStep == BackfillInv /\ Offer => BackfillInv'
<1> SUFFICES ASSUME BackfillInv, Offer PROVE BackfillInv' OBVIOUS
<1> USE DEF BackfillInv
<1>1. UNCHANGED <<tape, reader, rec, open, out, joined, delivering, stopped, shut>> /\ offering' = <<>> BY DEF Offer
<1>2. out \in Seq(Nat) /\ queue \in Seq(Nat) /\ offering \in Seq(Nat) /\ received \in Nat /\ offering # <<>>
  BY DEF TypeOK, Offer
<1>3. \/ queue' = queue \o offering /\ UNCHANGED skipped
      \/ skipped' = skipped \cup Bytes(offering) /\ UNCHANGED queue
  BY DEF Offer
<1>4. Bytes(offering') = {} /\ Ascending(offering') /\ Below(offering', received')
      /\ Before(out', offering') /\ Before(queue', offering')
  BY <1>1 DEF Bytes, Ascending, Below, Before
<1>5. queue' \in Seq(Nat) /\ Ascending(queue') /\ Before(out', queue') /\ Below(queue', received')
      /\ Bytes(queue') \cup skipped' = Bytes(queue) \cup Bytes(offering) \cup skipped
  <2>1. CASE queue' = queue \o offering /\ UNCHANGED skipped
    BY <1>1, <1>2, <2>1, ConcatDoes, ConcatBytes, ConcatSorted, ConcatBefore DEF Sorted
  <2>2. CASE skipped' = skipped \cup Bytes(offering) /\ UNCHANGED queue BY <1>1, <1>2, <2>2 DEF Sorted
  <2> QED BY <1>3, <2>1, <2>2
<1>6. Bytes(offering) \subseteq Nat BY <1>2 DEF Bytes
<1>12. skipped' \subseteq Nat BY <1>3, <1>6 DEF TypeOK
<1>7. TypeOK' BY <1>1, <1>2, <1>5, <1>12 DEF TypeOK
<1>8. Sorted' BY <1>1, <1>4, <1>5 DEF Sorted
<1>9. Placed' BY <1>1, <1>2 DEF Placed
<1>10. Kept' BY <1>1, <1>2, <1>4, <1>5 DEF Kept, Placed
<1>11. Timed' BY <1>1 DEF Timed
<1> QED BY <1>7, <1>8, <1>9, <1>10, <1>11

LEMMA RingMovesStep == BackfillInv /\ RingMoves => BackfillInv'
<1> SUFFICES ASSUME BackfillInv, RingMoves PROVE BackfillInv' OBVIOUS
<1> USE DEF BackfillInv
<1>1. PICK s \in 0..received, f \in 0..received : Move(s, f) BY DEF RingMoves
<1>2. UNCHANGED <<reader, fanout, rec, written, received, closed>> BY <1>1 DEF RingMoves, Move
<1>3. TypeOK' BY <1>1, <1>2 DEF TypeOK, Move
<1>4. Sorted' BY <1>2, SameBytes DEF TypeOK
<1>5. Placed' BY <1>1, <1>2 DEF Placed, TypeOK, Move
<1>6. Kept' BY <1>2 DEF Kept
<1>7. Timed' BY <1>2 DEF Timed
<1> QED BY <1>3, <1>4, <1>5, <1>6, <1>7

LEMMA StartStep ==
    ASSUME BackfillInv, NEW k \in Kinds, NEW p \in 0..MaxPos, NEW e \in 0..MaxPos, Start(k, p, e)
    PROVE  BackfillInv'
<1> USE DEF BackfillInv
<1>1. /\ rpc = "none" /\ rpc' = "from" /\ kind' = k /\ pos' = p /\ first' = p /\ ends' = e /\ p <= received
      /\ hasSub' = (k = "live") /\ backfilling' = (k = "recording")
      /\ UNCHANGED <<tape, fanout, written, to, fileTo, mySub, finished, gen, timer, callbacks, timedOut>>
  BY DEF Start, TypeOK
<1>2. TypeOK' BY <1>1 DEF TypeOK, Kinds, Pcs
<1>3. Sorted' BY <1>1, SameBytes DEF TypeOK
<1>4. Placed' BY <1>1 DEF Placed, Below
<1>5. Kept' BY <1>1 DEF Kept, TypeOK
<1>6. Timed'
  <2>1. gen = 0 /\ ~finished /\ ~timedOut /\ callbacks = {} /\ timer = 0 BY <1>1 DEF Timed, Placed, TypeOK
  <2>2. backfilling' <=> kind' = "recording" BY <1>1
  <2>3. gen' = 0 /\ ~timedOut' /\ callbacks' = {} /\ timer' = 0 /\ rpc' = "from" BY <1>1, <2>1
  <2> QED BY <2>2, <2>3 DEF Timed
<1> QED BY <1>2, <1>3, <1>4, <1>5, <1>6

\* A step of a reader that leaves bytes, subscribers and timers alone.
LEMMA ReaderStep ==
    ASSUME BackfillInv, rpc \in Alone \ {"none"}, rpc' \in Alone \ {"none"},
           UNCHANGED <<tape, fanout, rec, written, kind, first, pos, mySub>>,
           to' \in Nat, fileTo' \in Nat, fileTo' <= to', to' <= received
    PROVE  BackfillInv'
<1> USE DEF BackfillInv
<1>2. TypeOK' BY DEF TypeOK, Pcs
<1>3. Sorted' BY SameBytes DEF TypeOK
<1>4. Placed' BY DEF Placed, Below
<1>5. Kept' BY DEF Kept
<1>6. Timed' BY DEF Timed
<1> QED BY <1>2, <1>3, <1>4, <1>5, <1>6

LEMMA CopySteps == BackfillInv /\ (CopyFrom \/ CopyGone \/ Copied \/ \E e \in 1..MaxPos : FindFile(e)) => BackfillInv'
<1> SUFFICES ASSUME BackfillInv, CopyFrom \/ CopyGone \/ Copied \/ \E e \in 1..MaxPos : FindFile(e)
             PROVE  BackfillInv'
  OBVIOUS
<1>1. TypeOK /\ Placed BY DEF BackfillInv
<1>2. CASE CopyFrom BY <1>1, <1>2, ReaderStep DEF CopyFrom, TypeOK, Placed
<1>3. CASE CopyGone BY <1>1, <1>3, ReaderStep DEF CopyGone, TypeOK, Placed
<1>4. CASE Copied BY <1>1, <1>4, ReaderStep DEF Copied, TypeOK, Placed
<1>5. ASSUME NEW e \in 1..MaxPos, FindFile(e) PROVE BackfillInv' BY <1>1, <1>5, ReaderStep DEF FindFile, TypeOK, Placed
<1> QED BY <1>2, <1>3, <1>4, <1>5

LEMMA WriteStep ==
    ASSUME BackfillInv, NEW n \in 1..MaxPos, rpc = "copy", pos + n <= to, WriteOut(n),
           UNCHANGED <<tape, fanout, rec, kind, first, to>>
    PROVE  BackfillInv'
<1> USE DEF BackfillInv
<1>1. /\ ~joined /\ ~delivering /\ queue = <<>> /\ offering = <<>> /\ Below(out, pos) /\ Covered(pos)
      /\ pos \in Nat /\ n \in Nat /\ to \in Nat /\ received \in Nat /\ to <= received /\ out \in Seq(Nat)
      /\ pos + n \in 0..MaxPos /\ pos + n <= received
  BY DEF Placed, Kept, TypeOK
<1>2. CASE open
  <2>1. /\ out' = out \o Run(pos, pos + n) /\ pos' = pos + n /\ fileTo' \in {0, fileTo}
        /\ UNCHANGED <<rpc, mySub, open, skipped>>
    BY <1>2 DEF WriteOut
  <2>2. DEFINE t == Run(pos, pos + n)
  <2>3. t \in Seq(Nat) /\ Ascending(t) /\ Bytes(t) = pos..(pos + n - 1) /\ \A i \in DOMAIN t : t[i] \in pos..(pos + n - 1)
    <3>1. pos + n \in Nat BY <1>1
    <3>2. t \in Seq(Nat) /\ Ascending(t) BY ONLY <1>1, <3>1, RunDoes DEF t
    <3>3. Bytes(t) = pos..(pos + n - 1) BY ONLY <1>1, <3>1, RunDoes DEF t
    <3>4. \A i \in DOMAIN t : t[i] \in pos..(pos + n - 1) BY ONLY <1>1, <3>1, RunDoes DEF t
    <3> QED BY <3>2, <3>3, <3>4
  <2> HIDE DEF t
  <2>4. Before(out, t) /\ Below(t, pos + n) /\ Below(out, pos + n)
    <3>1. \A i \in DOMAIN out : out[i] \in Nat /\ out[i] < pos BY <1>1 DEF Below
    <3> QED BY <1>1, <2>3, <3>1 DEF Before, Below
  <2>5. out' = out \o t BY <2>1 DEF t
  <2>6. out' \in Seq(Nat) /\ Ascending(out') /\ Below(out', pos + n) /\ Bytes(out') = Bytes(out) \cup pos..(pos + n - 1)
    <3>1. Ascending(out) BY DEF Sorted
    <3>2. out \o t \in Seq(Nat) BY <1>1, <2>3, ConcatDoes
    <3>3. Bytes(out \o t) = Bytes(out) \cup Bytes(t) BY <1>1, <2>3, ConcatBytes
    <3>4. Ascending(out \o t) /\ Below(out \o t, pos + n) BY <1>1, <2>3, <2>4, <3>1, ConcatSorted
    <3> QED BY <2>3, <2>5, <3>2, <3>3, <3>4
  <2>7. TypeOK' BY <1>1, <2>1, <2>6 DEF TypeOK
  <2>8. Sorted'
    <3>1. Below(out', received')
      <4>1. \A i \in DOMAIN out' : out'[i] \in Nat BY <2>6
      <4> QED BY <1>1, <2>6, <4>1 DEF Below
    <3> QED BY <1>1, <2>6, <3>1 DEF Sorted, Before
  <2>9. Placed' BY <1>1, <2>1, <2>6 DEF Placed, TypeOK
  <2>10. Kept' BY <1>1, <2>1, <2>6 DEF Kept
  <2>11. Timed' BY <2>1 DEF Timed
  <2> QED BY <2>7, <2>8, <2>9, <2>10, <2>11
<1>3. CASE ~open
  <2>1. /\ rpc' = (IF kind = "recording" THEN "end" ELSE "done") /\ fileTo' = 0 /\ mySub' = FALSE
        /\ UNCHANGED <<out, pos, open, skipped>>
    BY <1>3 DEF WriteOut
  <2>2. TypeOK'
    <3>1. rpc' \in Pcs BY <2>1 DEF Pcs
    <3>2. fileTo' \in Pos BY <2>1
    <3>3. mySub' \in BOOLEAN BY <2>1
    <3> QED BY <2>1, <3>1, <3>2, <3>3 DEF TypeOK
  <2>3. Sorted' BY <2>1, SameBytes DEF TypeOK
  <2>4. Placed' BY <1>1, <2>1 DEF Placed
  <2>5. Kept' BY <1>1, <1>3, <2>1 DEF Kept
  <2>6. Timed' BY <2>1 DEF Timed
  <2> QED BY <2>2, <2>3, <2>4, <2>5, <2>6
<1> QED BY <1>2, <1>3 DEF TypeOK

LEMMA GoneStep ==
    ASSUME BackfillInv, NEW next \in -1..MaxPos, Gone(next)
    PROVE  BackfillInv'
<1> USE DEF BackfillInv
<1>1. /\ rpc = "gone" /\ UNCHANGED <<tape, fanout, rec, open, out, kind, first, to, fileTo, mySub>>
      /\ next = -1 \/ next < received
  BY DEF Gone
<1>2. CASE rpc' = "gap" /\ UNCHANGED <<pos, skipped>>
  BY <1>1, <1>2, ReaderStep DEF TypeOK, Placed
<1>3. CASE next > pos /\ rpc' = "from" /\ pos' = next /\ skipped' = skipped \cup pos..(next - 1)
  <2>1. pos \in Nat /\ next \in Nat /\ next < received /\ next \in 0..MaxPos /\ pos < next BY <1>1, <1>3 DEF TypeOK
  <2>2. TypeOK' BY <1>1, <1>3, <2>1 DEF TypeOK, Pcs
  <2>3. Sorted' BY <1>1, SameBytes DEF TypeOK
  <2>4. Below(out, next)
    <3>1. Below(out, pos) /\ \A i \in DOMAIN out : out[i] \in Nat BY <1>1 DEF Placed, TypeOK
    <3> QED BY <2>1, <3>1 DEF Below
  <2>5. Placed' BY <1>1, <1>3, <2>1, <2>4 DEF Placed, TypeOK
  <2>6. Kept' BY <1>1, <1>3, <2>1 DEF Kept, TypeOK
  <2>7. Timed' BY <1>1, <1>3 DEF Timed
  <2> QED BY <2>2, <2>3, <2>5, <2>6, <2>7
<1> QED BY <1>2, <1>3 DEF Gone, AfterGone, TypeOK

\* A reader that joins: what it takes goes on from what it has.
LEMMA JoinedStep ==
    ASSUME BackfillInv, rpc \in Alone \ {"none"}, NEW head \in Seq(Nat), Subscribe(head),
           UNCHANGED <<tape, rec, kind, first, pos, to, fileTo, offering, shut, open, out, stopped>>,
           skipped' \subseteq Nat, skipped \subseteq skipped', rpc = "join" => skipped' = skipped,
           Ascending(head), \A i \in DOMAIN head : head[i] \in pos..(received - 1),
           pos..(received - 1) \subseteq Bytes(head) \cup skipped',
           kind = "recording" \/ kind = "live"
    PROVE  BackfillInv'
<1> USE DEF BackfillInv
<1>1. /\ queue = <<>> /\ offering = <<>> /\ Below(out, pos) /\ Covered(pos) /\ first \in Nat
      /\ pos \in Nat /\ received \in Nat /\ pos <= received /\ out \in Seq(Nat)
  BY DEF Placed, Kept, TypeOK
<1>2. /\ mySub' = TRUE /\ joined' = TRUE /\ queue' = head /\ delivering' = TRUE
      /\ rpc' = (IF kind = "recording" THEN "end" ELSE "done")
  BY DEF Subscribe, AfterJoin
<1>3. TypeOK'
  <2>1. rpc' \in Pcs /\ queue' \in Seq(Nat) BY <1>2 DEF Pcs
  <2>2. mySub' \in BOOLEAN /\ joined' \in BOOLEAN BY <1>2
  <2>3. delivering' \in BOOLEAN BY <1>2
  <2> QED BY <2>1, <2>2, <2>3 DEF TypeOK
<1>4. Sorted'
  <2>1. \A i \in DOMAIN out : out[i] \in Nat /\ out[i] < pos BY <1>1 DEF Below
  <2>2. Before(out, head) /\ Below(head, received) BY <1>1, <2>1 DEF Before, Below
  <2> QED BY <1>1, <1>2, <2>2 DEF Sorted, Before
<1>5. Placed' BY <1>1, <1>2 DEF Placed
<1>6. Kept'
  <2>1. Covered(received)' BY <1>1, <1>2
  <2> QED BY <1>2, <2>1 DEF Kept
<1>7. Timed' BY <1>2 DEF Timed
<1> QED BY <1>3, <1>4, <1>5, <1>6, <1>7

LEMMA TooLateStep ==
    ASSUME BackfillInv, rpc \in Alone \ {"none"}, TooLate,
           UNCHANGED <<tape, rec, kind, first, pos, to, fileTo, offering, shut>>
    PROVE  BackfillInv'
<1> USE DEF BackfillInv
<1>1. /\ rpc' = (IF kind = "recording" THEN "end" ELSE "done") /\ mySub' = TRUE /\ open' = FALSE
      /\ stopped' = (stopped \/ kind = "recording") /\ UNCHANGED <<out, skipped, joined, queue, delivering>>
  BY DEF TooLate, AfterJoin
<1>2. TypeOK'
  <2>1. rpc' \in Pcs BY <1>1 DEF Pcs
  <2>2. mySub' \in BOOLEAN /\ open' \in BOOLEAN BY <1>1
  <2>3. stopped' \in BOOLEAN BY <1>1 DEF TypeOK
  <2> QED BY <1>1, <2>1, <2>2, <2>3 DEF TypeOK
<1>3. Sorted' BY <1>1, SameBytes DEF TypeOK
<1>4. Placed' BY <1>1 DEF Placed
<1>5. Kept' BY <1>1 DEF Kept, Placed
<1>6. Timed' BY <1>1 DEF Timed
<1> QED BY <1>2, <1>3, <1>4, <1>5, <1>6

LEMMA JoinStep == BackfillInv /\ (Join \/ JoinLiveEdge) => BackfillInv'
<1> SUFFICES ASSUME BackfillInv, Join \/ JoinLiveEdge PROVE BackfillInv' OBVIOUS
<1>0. /\ pos \in Nat /\ received \in Nat /\ flushed \in Nat /\ skipped \subseteq Nat /\ kind \in Kinds
      /\ to \in Nat /\ fileTo \in Nat /\ fileTo <= to /\ to <= received
  BY DEF BackfillInv, TypeOK, Placed
<1>1. CASE Join
  <2>0. rpc = "join" /\ UNCHANGED <<tape, rec, kind, first, pos, to, fileTo, offering, shut>> BY <1>1 DEF Join
  <2>1. CASE TooLate BY <2>0, <2>1, TooLateStep
  <2>2. CASE InMemory(pos) /\ Subscribe(Rest(pos)) /\ UNCHANGED written /\ UNCHANGED stopped
    <3>1. Rest(pos) = Run(pos, received)
      <4>1. flushed <= pos BY <2>2 DEF InMemory
      <4>2. (IF pos < flushed THEN flushed ELSE pos) = pos BY <1>0, <4>1
      <4> QED BY <4>2 DEF Rest
    <3>2. /\ Run(pos, received) \in Seq(Nat) /\ Ascending(Run(pos, received))
      BY ONLY <1>0, RunDoes
    <3>3. \A i \in DOMAIN Run(pos, received) : Run(pos, received)[i] \in pos..(received - 1)
      BY ONLY <1>0, RunDoes
    <3>4. pos..(received - 1) \subseteq Bytes(Run(pos, received)) \cup skipped'
      BY ONLY <1>0, RunDoes
    <3> QED BY <1>0, <2>0, <2>2, <3>1, <3>2, <3>3, <3>4, JoinedStep DEF Kinds
  <2>3. CASE rpc' = "from" /\ UNCHANGED <<written, mySub, joined, queue, delivering, stopped>>
    BY <1>0, <2>0, <2>3, ReaderStep
  <2> QED BY <1>1, <2>1, <2>2, <2>3 DEF Join
<1>2. CASE JoinLiveEdge
  <2>0. rpc = "gap" /\ UNCHANGED <<tape, rec, kind, first, pos, to, fileTo, offering, shut>>
    BY <1>2 DEF JoinLiveEdge
  <2>1. CASE TooLate BY <2>0, <2>1, TooLateStep
  <2>2. CASE Subscribe(<<>>) /\ skipped' = skipped \cup pos..(received - 1) /\ UNCHANGED <<open, out, stopped>>
    <3>1. <<>> \in Seq(Nat) /\ Ascending(<<>>) /\ \A i \in DOMAIN <<>> : <<>>[i] \in pos..(received - 1)
      BY DEF Ascending
    <3>2. skipped' \subseteq Nat /\ skipped \subseteq skipped' /\ pos..(received - 1) \subseteq Bytes(<<>>) \cup skipped'
      BY <1>0, <2>2
    <3> QED BY <1>0, <2>0, <2>2, <3>1, <3>2, JoinedStep DEF Kinds
  <2> QED BY <1>2, <2>1, <2>2 DEF JoinLiveEdge
<1> QED BY <1>1, <1>2

LEMMA EndStep == BackfillInv /\ EndBackfill => BackfillInv'
<1> SUFFICES ASSUME BackfillInv, EndBackfill PROVE BackfillInv' OBVIOUS
<1> USE DEF BackfillInv
<1>1. /\ rpc = "end" /\ rpc' = "done" /\ backfilling' = FALSE /\ backfilling /\ gen = 0 /\ callbacks = {}
      /\ UNCHANGED <<tape, written, kind, first, pos, to, fileTo, mySub, queue, delivering, offering, shut,
                     finished, ends, callbacks, timedOut>>
  BY DEF EndBackfill, Timed, TypeOK
<1>2. \/ finished /\ joined' = (joined /\ ~mySub) /\ stopped' = (stopped \/ mySub) /\ UNCHANGED <<hasSub, gen, timer>>
      \/ ~finished /\ hasSub' = mySub /\ gen' = 1 /\ timer' = 1 /\ UNCHANGED <<joined, stopped>>
  BY <1>1 DEF EndBackfill, Arm
<1>3. TypeOK'
  <2>1. joined' \in BOOLEAN /\ stopped' \in BOOLEAN BY <1>2 DEF TypeOK
  <2>2. hasSub' \in BOOLEAN BY <1>2 DEF TypeOK
  <2>3. gen' \in 0..MaxGen /\ timer' \in 0..MaxGen BY <1>2 DEF TypeOK
  <2>4. rpc' \in Pcs BY <1>1 DEF Pcs
  <2> QED BY <1>1, <2>1, <2>2, <2>3, <2>4 DEF TypeOK
<1>4. Sorted' BY <1>1, SameBytes DEF TypeOK
<1>5. Placed' BY <1>1 DEF Placed
<1>6. Kept'
  <2>1. CASE finished /\ joined' = (joined /\ ~mySub) /\ stopped' = (stopped \/ mySub)
    <3>1. ~joined' BY <2>1 DEF Kept
    <3>2. open /\ ~stopped' => FALSE BY <1>1, <2>1 DEF Kept
    <3> QED BY <1>1, <3>1, <3>2 DEF Kept
  <2>2. CASE ~finished /\ UNCHANGED <<joined, stopped>>
    <3>1. Covered(received) => Covered(received)' BY <1>1
    <3> QED BY <1>1, <2>2, <3>1 DEF Kept
  <2> QED BY <1>2, <2>1, <2>2
<1>7. Timed'
  <2>1. timer' \in {0, gen'} /\ callbacks' \subseteq 1..gen' /\ ~(gen' \in callbacks') BY <1>1, <1>2 DEF Timed
  <2> QED BY <1>1, <2>1 DEF Timed
<1> QED BY <1>3, <1>4, <1>5, <1>6, <1>7

\* The deliver goroutine moves one byte from the queue to the writer, or ends
\* and closes the writer.
LEMMA DeliverSteps == BackfillInv /\ (Deliver \/ DeliverStops) => BackfillInv'
<1> SUFFICES ASSUME BackfillInv, Deliver \/ DeliverStops PROVE BackfillInv' OBVIOUS
<1> USE DEF BackfillInv
<1>1. /\ delivering /\ rpc \notin Alone /\ UNCHANGED <<tape, reader, rec, skipped, stopped, offering, shut>>
      /\ out \in Seq(Nat) /\ queue \in Seq(Nat) /\ offering \in Seq(Nat) /\ received \in Nat
  BY DEF Deliver, DeliverStops, Placed, TypeOK
<1>2. Timed' BY <1>1 DEF Timed
<1>3. CASE /\ queue # <<>> /\ queue' = Tail(queue) /\ open
           /\ out' = Append(out, queue[1]) /\ UNCHANGED <<open, joined, delivering>>
  <2>1. /\ queue' \in Seq(Nat) /\ \A i \in DOMAIN queue' : i + 1 \in DOMAIN queue /\ queue'[i] = queue[i + 1]
        /\ out' \in Seq(Nat) /\ queue[1] \in Nat /\ 1 \in DOMAIN queue
    BY ONLY <1>1, <1>3, TailDoes
  <2>2. \A i \in DOMAIN queue : queue[i] = queue[1] \/ (i - 1 \in DOMAIN queue' /\ queue'[i - 1] = queue[i])
    BY ONLY <1>1, <1>3, TailDoes
  <2>3. \A k \in DOMAIN out' :
           (k \in DOMAIN out /\ out'[k] = out[k]) \/ (k = Len(out) + 1 /\ out'[k] = queue[1])
    BY ONLY <1>1, <1>3, TailDoes
  <2>4. \A k \in DOMAIN out : k \in DOMAIN out' /\ out'[k] = out[k] BY ONLY <1>1, <1>3, TailDoes
  <2>5. Len(out) + 1 \in DOMAIN out' /\ out'[Len(out) + 1] = queue[1] BY ONLY <1>1, <1>3, TailDoes
  <2>6. DOMAIN out = 1..Len(out) /\ Len(out) \in Nat /\ DOMAIN queue = 1..Len(queue) BY <1>1
  <2>7. Bytes(out) \cup Bytes(queue) \subseteq Bytes(out') \cup Bytes(queue')
    <3>1. ASSUME NEW k \in DOMAIN out PROVE out[k] \in Bytes(out') BY <2>4 DEF Bytes
    <3>2. queue[1] \in Bytes(out') BY <2>5 DEF Bytes
    <3>3. ASSUME NEW i \in DOMAIN queue PROVE queue[i] \in Bytes(out') \cup Bytes(queue') BY <2>2, <3>2 DEF Bytes
    <3> QED BY <3>1, <3>3 DEF Bytes
  <2>8. TypeOK' BY <1>1, <1>3, <2>1 DEF TypeOK
  <2>9. Sorted'
    <3>1. Ascending(out')
      <4>1. SUFFICES ASSUME NEW i \in DOMAIN out', NEW j \in DOMAIN out', i < j PROVE out'[i] < out'[j]
        BY DEF Ascending
      <4>2. CASE j \in DOMAIN out /\ out'[j] = out[j]
        <5>1. i \in DOMAIN out /\ out'[i] = out[i] BY <2>3, <2>6, <4>1, <4>2
        <5> QED BY <4>1, <4>2, <5>1 DEF Sorted, Ascending
      <4>3. CASE j = Len(out) + 1 /\ out'[j] = queue[1]
        <5>1. i \in DOMAIN out /\ out'[i] = out[i] BY <2>3, <2>6, <4>1, <4>3
        <5> QED BY <2>1, <4>3, <5>1 DEF Sorted, Before
      <4> QED BY <2>3, <4>2, <4>3
    <3>2. Ascending(queue')
      <4>1. SUFFICES ASSUME NEW i \in DOMAIN queue', NEW j \in DOMAIN queue', i < j PROVE queue'[i] < queue'[j]
        BY DEF Ascending
      <4>2. DOMAIN queue' = 1..Len(queue') /\ i \in Int /\ j \in Int /\ i + 1 < j + 1 BY <2>1, <4>1
      <4> QED BY <2>1, <4>1, <4>2 DEF Sorted, Ascending
    <3>3. Before(out', queue')
      <4>1. SUFFICES ASSUME NEW i \in DOMAIN out', NEW j \in DOMAIN queue' PROVE out'[i] < queue'[j]
        BY DEF Before
      <4>2. DOMAIN queue' = 1..Len(queue') /\ 1 < j + 1 BY <2>1, <4>1
      <4>3. CASE out'[i] = queue[1] BY <2>1, <4>2, <4>3 DEF Sorted, Ascending
      <4>4. CASE i \in DOMAIN out /\ out'[i] = out[i] BY <2>1, <4>4 DEF Sorted, Before
      <4> QED BY <2>3, <4>3, <4>4
    <3>4. Before(out', offering') BY <1>1, <2>1, <2>3 DEF Sorted, Before
    <3>5. Before(queue', offering') BY <1>1, <2>1 DEF Sorted, Before
    <3>6. Below(out', received') BY <1>1, <2>1, <2>3 DEF Sorted, Below
    <3>7. Below(queue', received') BY <1>1, <2>1 DEF Sorted, Below
    <3> QED BY <1>1, <3>1, <3>2, <3>3, <3>4, <3>5, <3>6, <3>7 DEF Sorted
  <2>10. Placed' BY <1>1 DEF Placed
  <2>11. Kept'
    <3>1. Covered(received) => Covered(received)' BY <1>1, <2>7
    <3> QED BY <1>1, <1>3, <3>1 DEF Kept
  <2> QED BY <1>2, <2>8, <2>9, <2>10, <2>11
<1>4. CASE /\ LetGo /\ UNCHANGED out
           /\ (queue # <<>> /\ queue' = Tail(queue)) \/ queue' = queue
  <2>1. joined' = FALSE /\ delivering' = FALSE /\ open' = FALSE /\ UNCHANGED out BY <1>4 DEF LetGo
  <2>2. /\ queue' \in Seq(Nat) /\ Len(queue') <= Len(queue)
        /\ \A i \in DOMAIN queue' : queue'[i] \in Nat
        /\ \/ \A i \in DOMAIN queue' : i \in DOMAIN queue /\ queue'[i] = queue[i]
           \/ \A i \in DOMAIN queue' : i + 1 \in DOMAIN queue /\ queue'[i] = queue[i + 1]
    <3>1. CASE queue' = queue BY <1>1, <3>1
    <3>2. CASE queue # <<>> /\ queue' = Tail(queue)
      <4>1. queue' \in Seq(Nat) /\ \A i \in DOMAIN queue' : i + 1 \in DOMAIN queue /\ queue'[i] = queue[i + 1]
        BY ONLY <1>1, <3>2, TailDoes
      <4>2. Len(queue') <= Len(queue) BY <1>1, <3>2
      <4> QED BY <4>1, <4>2
    <3> QED BY <1>4, <3>1, <3>2
  <2>3. TypeOK'
    <3>1. joined' \in BOOLEAN /\ open' \in BOOLEAN BY <2>1
    <3>2. delivering' \in BOOLEAN BY <2>1
    <3> QED BY <1>1, <2>1, <2>2, <3>1, <3>2 DEF TypeOK
  <2>4. Sorted'
    <3>1. Ascending(queue')
      <4>1. SUFFICES ASSUME NEW i \in DOMAIN queue', NEW j \in DOMAIN queue', i < j PROVE queue'[i] < queue'[j]
        BY DEF Ascending
      <4>2. DOMAIN queue' = 1..Len(queue') /\ i \in Int /\ j \in Int /\ i + 1 < j + 1 BY <2>2, <4>1
      <4>3. CASE \A k \in DOMAIN queue' : k \in DOMAIN queue /\ queue'[k] = queue[k]
        BY <4>1, <4>3 DEF Sorted, Ascending
      <4>4. CASE \A k \in DOMAIN queue' : k + 1 \in DOMAIN queue /\ queue'[k] = queue[k + 1]
        BY <4>1, <4>2, <4>4 DEF Sorted, Ascending
      <4> QED BY <2>2, <4>3, <4>4
    <3>2. Before(out', queue') BY <1>1, <2>1, <2>2 DEF Sorted, Before
    <3>3. Before(queue', offering') BY <1>1, <2>2 DEF Sorted, Before
    <3>4. Below(queue', received') BY <1>1, <2>2 DEF Sorted, Below
    <3> QED BY <1>1, <2>1, <3>1, <3>2, <3>3, <3>4 DEF Sorted
  <2>5. Placed' BY <1>1, <2>1 DEF Placed
  <2>6. Kept' BY <1>1, <2>1 DEF Kept
  <2> QED BY <1>2, <2>3, <2>4, <2>5, <2>6
<1> QED BY <1>3, <1>4 DEF Deliver, DeliverStops

\* A step of the hub or a timer that leaves every byte where it is.
LEMMA HubStep ==
    ASSUME BackfillInv, UNCHANGED <<received, reader, written, queue, offering>>,
           UNCHANGED <<start, flushed>> \/ (start' = received /\ flushed' = received),
           TypeOK', Timed',
           delivering' = delivering, joined' => joined,
           ~stopped' => ~stopped /\ (joined => joined'),
           rpc = "none" => ~finished' /\ gen' = 0
    PROVE  BackfillInv'
<1> USE DEF BackfillInv
<1>1. Sorted' BY SameBytes DEF TypeOK
<1>2. Placed' BY DEF Placed, TypeOK
<1>3. Kept'
  <2>1. Covered(received) => Covered(received)' OBVIOUS
  <2>2. Covered(pos) => Covered(pos)' OBVIOUS
  <2> QED BY <2>1, <2>2 DEF Kept
<1> QED BY <1>1, <1>2, <1>3

\* finishRecordingLocked takes its subscriber out of the fan-out and tells it.
LEMMA FinishDoes ==
    ASSUME TypeOK, FinishLocked
    PROVE  /\ finished' = TRUE /\ timer' = 0 /\ joined' \in BOOLEAN /\ stopped' \in BOOLEAN
           /\ joined' => joined
           /\ ~stopped' => ~stopped /\ (joined => joined')
BY DEF TypeOK, FinishLocked

LEMMA StopStep == BackfillInv /\ Stop => BackfillInv'
<1> SUFFICES ASSUME BackfillInv, Stop PROVE BackfillInv' OBVIOUS
<1>1. TypeOK /\ Timed BY DEF BackfillInv
<1>2. /\ UNCHANGED <<tape, reader, written, queue, delivering, offering, shut,
                     hasSub, backfilling, ends, gen, callbacks, timedOut>>
      /\ rpc # "none" /\ ~finished /\ FinishLocked
  BY DEF Stop, Running
<1>3. /\ finished' = TRUE /\ timer' = 0 /\ joined' \in BOOLEAN /\ stopped' \in BOOLEAN
      /\ joined' => joined
      /\ ~stopped' => ~stopped /\ (joined => joined')
  BY <1>1, <1>2, FinishDoes
<1>4. TypeOK' BY <1>1, <1>2, <1>3 DEF TypeOK
<1>5. Timed' BY <1>1, <1>2, <1>3 DEF Timed
<1> QED BY <1>2, <1>3, <1>4, <1>5, HubStep

LEMMA CallbackStep ==
    ASSUME BackfillInv, NEW g \in 1..MaxGen, TimerCallback(g)
    PROVE  BackfillInv'
<1>1. TypeOK /\ Timed BY DEF BackfillInv
<1>2. /\ UNCHANGED <<tape, reader, written, queue, delivering, offering, shut, hasSub, backfilling, ends, gen>>
      /\ g \in callbacks /\ callbacks' = callbacks \ {g}
  BY DEF TimerCallback
<1>3. CASE Running /\ Current(g) /\ FinishLocked /\ timedOut' = TRUE
  <2>1. /\ finished' = TRUE /\ timer' = 0 /\ joined' \in BOOLEAN /\ stopped' \in BOOLEAN
        /\ joined' => joined
        /\ ~stopped' => ~stopped /\ (joined => joined')
    BY <1>1, <1>3, FinishDoes
  <2>2. TypeOK'
    <3>1. finished' \in BOOLEAN /\ timedOut' \in BOOLEAN BY <1>3, <2>1
    <3>2. callbacks' \subseteq 1..MaxGen /\ timer' \in 0..MaxGen BY <1>1, <1>2, <2>1 DEF TypeOK
    <3> QED BY <1>1, <1>2, <2>1, <3>1, <3>2 DEF TypeOK
  <2>3. Timed'
    <3>1. g = gen /\ gen > 0 /\ ~backfilling /\ received >= ends BY <1>1, <1>2, <1>3 DEF Timed, Current, TypeOK
    <3> QED BY <1>1, <1>2, <2>1, <3>1 DEF Timed
  <2> QED BY <1>2, <1>3, <2>1, <2>2, <2>3, HubStep DEF Running
<1>4. CASE UNCHANGED <<finished, timer, joined, stopped, timedOut>>
  <2>1. TypeOK' BY <1>1, <1>2, <1>4 DEF TypeOK
  <2>2. Timed' BY <1>1, <1>2, <1>4 DEF Timed
  <2> QED BY <1>2, <1>4, <2>1, <2>2, HubStep DEF BackfillInv, Placed
<1> QED BY <1>3, <1>4 DEF TimerCallback

LEMMA CloseInputStep == BackfillInv /\ CloseInput => BackfillInv'
<1> SUFFICES ASSUME BackfillInv, CloseInput PROVE BackfillInv' OBVIOUS
<1> USE DEF BackfillInv
<1>1. open' = FALSE /\ UNCHANGED <<tape, reader, fanout, rec, out, skipped>> BY DEF CloseInput
<1>2. TypeOK'
  <2>1. open' \in BOOLEAN BY <1>1
  <2> QED BY <1>1, <2>1 DEF TypeOK
<1>3. Sorted' BY <1>1, SameBytes DEF TypeOK
<1>4. Placed' BY <1>1 DEF Placed
<1>5. Kept' BY <1>1 DEF Kept
<1>6. Timed' BY <1>1 DEF Timed
<1> QED BY <1>2, <1>3, <1>4, <1>5, <1>6

LEMMA TimerFiresStep == BackfillInv /\ TimerFires => BackfillInv'
<1> SUFFICES ASSUME BackfillInv, TimerFires PROVE BackfillInv' OBVIOUS
<1>1. TypeOK /\ Timed BY DEF BackfillInv
<1>2. /\ timer # 0 /\ received >= ends /\ callbacks' = callbacks \cup {timer} /\ timer' = 0
      /\ UNCHANGED <<tape, reader, fanout, written, hasSub, finished, backfilling, ends, gen, timedOut>>
  BY DEF TimerFires
<1>3. timer = gen /\ gen \in 1..MaxGen BY <1>1, <1>2 DEF Timed, TypeOK
<1>4. TypeOK' BY <1>1, <1>2, <1>3 DEF TypeOK
<1>5. Timed' BY <1>1, <1>2, <1>3 DEF Timed
<1> QED BY <1>2, <1>4, <1>5, HubStep DEF BackfillInv, Placed

LEMMA ExtendStep ==
    ASSUME BackfillInv, NEW e \in 1..MaxPos, Extend(e)
    PROVE  BackfillInv'
<1>1. TypeOK /\ Timed BY DEF BackfillInv
<1>2. /\ rpc # "none" /\ ~finished /\ gen < MaxGen /\ ends < e /\ ends' = e
      /\ UNCHANGED <<tape, reader, fanout, written, hasSub, finished, backfilling, callbacks, timedOut>>
      /\ (backfilling /\ UNCHANGED <<gen, timer>>) \/ (~backfilling /\ gen' = gen + 1 /\ timer' = gen + 1)
  BY DEF Extend, Running, Arm
<1>3. TypeOK'
  <2>1. gen' \in 0..MaxGen /\ timer' \in 0..MaxGen BY <1>1, <1>2 DEF TypeOK
  <2> QED BY <1>1, <1>2, <2>1 DEF TypeOK
<1>4. Timed'
  <2>1. gen \in Nat /\ callbacks' \subseteq 1..gen /\ ~timedOut' /\ ~finished' BY <1>1, <1>2 DEF Timed, TypeOK
  <2>2. ~(gen' \in callbacks') /\ callbacks' \subseteq 1..gen' /\ timer' \in {0, gen'}
    BY <1>1, <1>2, <2>1 DEF Timed
  <2> QED BY <1>1, <1>2, <2>1, <2>2 DEF Timed
<1> QED BY <1>2, <1>3, <1>4, HubStep DEF BackfillInv, Placed

\* The end of the tune: its ring closes, then its subscribers are told.
LEMMA TuneEndsStep == BackfillInv /\ (CloseRing \/ ShutFanout) => BackfillInv'
<1> SUFFICES ASSUME BackfillInv, CloseRing \/ ShutFanout PROVE BackfillInv' OBVIOUS
<1>1. TypeOK /\ Timed /\ Placed BY DEF BackfillInv
<1>2. CASE CloseRing
  <2>1. /\ closed' = TRUE /\ start' = received /\ flushed' = received /\ UNCHANGED received
        /\ UNCHANGED <<reader, fanout, rec, written>>
    BY <1>2 DEF CloseRing, CloseTape
  <2>2. TypeOK'
    <3>1. closed' \in BOOLEAN BY <2>1
    <3> QED BY <1>1, <2>1, <3>1 DEF TypeOK
  <2>3. Timed' BY <1>1, <2>1 DEF Timed
  <2> QED BY <1>1, <2>1, <2>2, <2>3, HubStep DEF Placed
<1>3. CASE ShutFanout
  <2>1. /\ shut' = TRUE /\ stopped' = (stopped \/ joined)
        /\ UNCHANGED <<tape, reader, rec, written, joined, queue, delivering, offering>>
    BY <1>3 DEF ShutFanout
  <2>2. TypeOK'
    <3>1. shut' \in BOOLEAN /\ stopped' \in BOOLEAN BY <1>1, <2>1 DEF TypeOK
    <3> QED BY <1>1, <2>1, <3>1 DEF TypeOK
  <2>3. Timed' BY <1>1, <2>1 DEF Timed
  <2>4. ~stopped' => ~stopped /\ (joined => joined') BY <2>1
  <2> QED BY <1>1, <2>1, <2>2, <2>3, <2>4, HubStep DEF Placed
<1> QED BY <1>2, <1>3
-----------------------------------------------------------------------------
(* The invariant, and what it says.                                         *)

LEMMA InitInv == Init => BackfillInv
<1> SUFFICES ASSUME Init PROVE BackfillInv OBVIOUS
<1> USE DEF Init, TapeInit
<1>1. TypeOK
  <2>1. 0 \in 0..MaxPos /\ 0 \in 0..MaxGen BY BackfillAssumption, TapeAssumption
  <2>2. start \in Pos /\ flushed \in Pos /\ received \in Pos BY <2>1
  <2>3. kind \in Kinds /\ rpc \in Pcs BY DEF Kinds, Pcs
  <2>4. closed \in BOOLEAN /\ mySub \in BOOLEAN OBVIOUS
  <2>5. open \in BOOLEAN /\ joined \in BOOLEAN OBVIOUS
  <2>6. delivering \in BOOLEAN /\ stopped \in BOOLEAN OBVIOUS
  <2>7. shut \in BOOLEAN /\ hasSub \in BOOLEAN OBVIOUS
  <2>8. finished \in BOOLEAN /\ backfilling \in BOOLEAN OBVIOUS
  <2>9. timedOut \in BOOLEAN OBVIOUS
  <2>10. out \in Seq(Nat) /\ queue \in Seq(Nat) /\ offering \in Seq(Nat) OBVIOUS
  <2> QED BY <2>1, <2>2, <2>3, <2>4, <2>5, <2>6, <2>7, <2>8, <2>9, <2>10 DEF TypeOK
<1>2. Sorted BY DEF Sorted, Ascending, Before, Below
<1>3. Placed BY DEF Placed, Below
<1>4. Kept BY DEF Kept
<1>5. Timed BY DEF Timed
<1> QED BY <1>1, <1>2, <1>3, <1>4, <1>5 DEF BackfillInv

LEMMA StutterInv == BackfillInv /\ UNCHANGED vars => BackfillInv'
<1> SUFFICES ASSUME BackfillInv, UNCHANGED vars PROVE BackfillInv' OBVIOUS
<1> USE DEF BackfillInv, vars
<1>1. TypeOK' BY DEF TypeOK
<1>2. Sorted' BY SameBytes DEF TypeOK
<1>3. Placed' BY DEF Placed
<1>4. Kept' BY DEF Kept
<1>5. Timed' BY DEF Timed
<1> QED BY <1>1, <1>2, <1>3, <1>4, <1>5

LEMMA ReaderSteps == BackfillInv /\ Reader => BackfillInv'
<1> SUFFICES ASSUME BackfillInv, Reader PROVE BackfillInv' OBVIOUS
<1>1. CASE CopyFrom \/ Copied \/ CopyGone \/ \E e \in 1..MaxPos : FindFile(e) BY <1>1, CopySteps
<1>2. CASE Join \/ JoinLiveEdge BY <1>2, JoinStep
<1>3. CASE EndBackfill BY <1>3, EndStep
<1>4. ASSUME NEW n \in 1..MaxPos, CopyMemory(n) PROVE BackfillInv' BY <1>4, WriteStep DEF CopyMemory
<1>5. ASSUME NEW n \in 1..MaxPos, CopyFile(n) PROVE BackfillInv'
  <2>1. pos + n <= to
    <3>1. pos + n <= fileTo /\ fileTo <= to /\ pos \in Nat /\ fileTo \in Nat /\ to \in Nat
      BY <1>5 DEF CopyFile, BackfillInv, Placed, TypeOK
    <3> QED BY <3>1
  <2> QED BY <1>5, <2>1, WriteStep DEF CopyFile
<1>6. ASSUME NEW next \in -1..MaxPos, Gone(next) PROVE BackfillInv' BY <1>6, GoneStep
<1> QED BY <1>1, <1>2, <1>3, <1>4, <1>5, <1>6 DEF Reader

LEMMA HubSteps == BackfillInv /\ Hub => BackfillInv'
<1> SUFFICES ASSUME BackfillInv, Hub PROVE BackfillInv' OBVIOUS
<1>1. ASSUME NEW g \in 1..MaxGen, TimerCallback(g) PROVE BackfillInv' BY <1>1, CallbackStep
<1>2. ASSUME NEW e \in 1..MaxPos, Extend(e) PROVE BackfillInv' BY <1>2, ExtendStep
<1> QED BY <1>1, <1>2, StopStep, CloseInputStep, TuneEndsStep DEF Hub

\* The reader, the tuner, the ring, the timers and the hub, in any order, keep
\* the bytes in their places: the inductive invariant behind the three below.
THEOREM Invariant == Spec => []BackfillInv
<1>1. ASSUME BackfillInv, [Next]_vars PROVE BackfillInv'
  <2>1. ASSUME NEW n \in 1..MaxChunk, NoteLead(n) PROVE BackfillInv' BY <1>1, <2>1, NoteLeadStep
  <2>2. CASE Offer BY <1>1, <2>2, OfferStep
  <2>3. CASE RingMoves BY <1>1, <2>3, RingMovesStep
  <2>4. ASSUME NEW k \in Kinds, NEW p \in 0..MaxPos, NEW e \in 0..MaxPos, Start(k, p, e) PROVE BackfillInv'
    BY <1>1, <2>4, StartStep
  <2>5. CASE Reader BY <1>1, <2>5, ReaderSteps
  <2>6. CASE Deliver \/ DeliverStops BY <1>1, <2>6, DeliverSteps
  <2>7. CASE TimerFires BY <1>1, <2>7, TimerFiresStep
  <2>8. CASE Hub BY <1>1, <2>8, HubSteps
  <2>9. CASE UNCHANGED vars BY <1>1, <2>9, StutterInv
  <2> QED BY <1>1, <2>1, <2>2, <2>3, <2>4, <2>5, <2>6, <2>7, <2>8, <2>9 DEF Next
<1> QED BY InitInv, <1>1, PTL DEF Spec

\* No byte of the multiplex is written twice or out of order across the copy,
\* the head taken at the handover and the live chunks (join, CopyBuffer, offer).
THEOREM WritesInOrder == Spec => []InOrder
<1>1. ASSUME BackfillInv PROVE InOrder
  <2>1. out \in Seq(Nat) /\ queue \in Seq(Nat) /\ offering \in Seq(Nat) BY <1>1 DEF BackfillInv, TypeOK
  <2>2. Sorted BY <1>1 DEF BackfillInv
  <2>3. out \o queue \in Seq(Nat) BY <2>1
  <2>4. Ascending(out \o queue) BY <2>1, <2>2, ConcatSorted DEF Sorted
  <2>5. Before(out \o queue, offering) BY <2>1, <2>2, ConcatBefore DEF Sorted
  <2>6. Ascending((out \o queue) \o offering) BY ONLY <2>1, <2>2, <2>3, <2>4, <2>5, ConcatSorted DEF Sorted
  <2> QED BY <2>6 DEF InOrder, Taken
<1> QED BY Invariant, <1>1, PTL

\* While the writer works and the reader was not told to stop, every byte from
\* where it started is written, on its way or knowingly given up: nothing
\* falls between the copy and the live chunks (PendingFrom, join).
THEOREM NothingIsMissed == Spec => []NothingMissed
<1>1. ASSUME BackfillInv PROVE NothingMissed
  <2>1. out \in Seq(Nat) /\ queue \in Seq(Nat) /\ offering \in Seq(Nat) BY <1>1 DEF BackfillInv, TypeOK
  <2>2. Bytes(Taken) = Bytes(out) \cup Bytes(queue) \cup Bytes(offering)
    <3>1. out \o queue \in Seq(Nat) BY <2>1
    <3>2. Bytes(out \o queue) = Bytes(out) \cup Bytes(queue) BY <2>1, ConcatBytes
    <3>3. Bytes((out \o queue) \o offering) = Bytes(out \o queue) \cup Bytes(offering)
      BY ONLY <2>1, <3>1, ConcatBytes
    <3> QED BY <3>2, <3>3 DEF Taken
  <2>3. SUFFICES ASSUME rpc # "none", open, ~stopped PROVE Covered(Reached)
    BY <2>2 DEF NothingMissed
  <2>4. CASE rpc \in Alone \ {"none"}
    <3>1. ~joined /\ Covered(pos) BY <1>1, <2>4 DEF BackfillInv, Placed, Kept
    <3> QED BY <3>1 DEF Reached
  <2>5. CASE rpc \in {"end", "done"}
    <3>1. joined /\ Covered(received) BY <1>1, <2>3, <2>5 DEF BackfillInv, Kept
    <3> QED BY <3>1 DEF Reached
  <2> QED BY <1>1, <2>3, <2>4, <2>5 DEF BackfillInv, TypeOK, Pcs
<1> QED BY Invariant, <1>1, PTL

\* A recording its stop timer ended had reached the end it has now, after every
\* extension, and its copy had caught up (ExtendRecording, finishRecordingGen).
THEOREM StopsInTime == Spec => []StopsAtItsEnd
<1>1. BackfillInv => StopsAtItsEnd BY DEF BackfillInv, Timed, StopsAtItsEnd
<1> QED BY Invariant, <1>1, PTL
=============================================================================
