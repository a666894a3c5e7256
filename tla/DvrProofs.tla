------------------------------ MODULE DvrProofs ------------------------------
(***************************************************************************)
(* Whatever starts, fails, is stopped, crashes and is resumed, the table   *)
(* says what the hub is recording: for any guide, channels, faults and     *)
(* time.                                                                   *)
(***************************************************************************)
EXTENDS Dvr, FiniteSetTheorems, SequenceTheorems, WellFoundedInduction, TLAPS

USE DvrAssumption DEF DvrAssumption

-----------------------------------------------------------------------------
(* The first of a tick's airings, and the last of Recover's rows, are among *)
(* them.                                                                    *)

LEMMA LeastNat == ASSUME NEW T, T \subseteq Nat, T # {} PROVE \E x \in T : \A y \in T : x <= y
<1> DEFINE R == {s \in Nat \X Nat : s[1] < s[2]}
<1>1. IsWellFoundedOn(R, Nat) BY NatLessThanWellFounded DEF OpToRel
<1>2. PICK x \in T : \A y \in T : ~ (<<y, x>> \in R)
  <2> HIDE DEF R
  <2> QED BY <1>1, WFMin
<1>3. ASSUME NEW y \in T PROVE x <= y
  <2>1. x \in Nat /\ y \in Nat OBVIOUS
  <2>2. y < x => <<y, x>> \in R BY <2>1
  <2> QED BY <1>2, <2>1, <2>2
<1> QED BY <1>3

LEMMA AiringIs ==
    ASSUME NEW a \in Airings
    PROVE  /\ a.id \in Nat /\ a.channel \in Channels /\ a.title \in STRING /\ a.episode \in STRING
           /\ a.start \in Nat /\ a.end \in Nat /\ a.before \in Nat /\ a.after \in Nat /\ a.once \in BOOLEAN
BY DEF AiringType

LEMMA FirstIn == ASSUME NEW A, A \subseteq Airings, A # {} PROVE First(A) \in A
<1> DEFINE S == {a.start : a \in A}
<1>1. S \subseteq Nat /\ S # {} BY AiringIs
<1>2. PICK s \in S : \A t \in S : s <= t
  <2> HIDE DEF S
  <2> QED BY <1>1, LeastNat
<1> DEFINE B == {a \in A : a.start = s}
           I == {a.id : a \in B}
<1>3. I \subseteq Nat /\ I # {} BY AiringIs
<1>4. PICK i \in I : \A j \in I : i <= j
  <2> HIDE DEF I
  <2> QED BY <1>3, LeastNat
<1>5. PICK a \in B : a.id = i OBVIOUS
<1>6. \A b \in A : a.start < b.start \/ (a.start = b.start /\ a.id <= b.id)
  <2> SUFFICES ASSUME NEW b \in A PROVE a.start < b.start \/ (a.start = b.start /\ a.id <= b.id) OBVIOUS
  <2>1. s <= b.start /\ a.start = s BY <1>2, <1>5
  <2>2. b.start = s => i <= b.id BY <1>4
  <2>3. a.start \in Nat /\ b.start \in Nat BY <1>5, AiringIs
  <2> QED BY <1>5, <2>1, <2>2, <2>3
<1> QED BY <1>5, <1>6 DEF First

LEMMA LastIn ==
    ASSUME NEW n \in Nat, NEW A, A \subseteq 1 .. n, A # {}
    PROVE  (CHOOSE i \in A : \A j \in A : j <= i) \in A
<1> DEFINE T == {n - i : i \in A}
<1>1. \A t \in T : t \in Nat OBVIOUS
<1>2. PICK x \in T : \A y \in T : x <= y
  <2>1. T \subseteq Nat /\ T # {} BY <1>1
  <2> HIDE DEF T
  <2> QED BY <2>1, LeastNat
<1>3. PICK i \in A : x = n - i OBVIOUS
<1>4. \A j \in A : j <= i
  <2> SUFFICES ASSUME NEW j \in A PROVE j <= i OBVIOUS
  <2>1. x <= n - j BY <1>2
  <2> QED BY <1>3, <2>1
<1> QED BY <1>4

-----------------------------------------------------------------------------
(* The invariant.                                                           *)

\* What the hub records has its row, open and on its channel, and no row of those yet to
\* be gone through; an open row is being recorded or is one of those.
Matched(rs, o, S) ==
    /\ \A c \in Channels : o[c] # 0 =>
          o[c] \in DOMAIN rs /\ rs[o[c]].status = "recording" /\ rs[o[c]].channel = c /\ o[c] \notin S
    /\ \A i \in DOMAIN rs : rs[i].status = "recording" => o[rs[i].channel] = i \/ i \in S

\* Rows still to be gone through, while Recover runs or until it does.
Unseen == CASE server = "up" -> {} [] server = "recover" -> todo [] OTHER -> DOMAIN recs

\* What the tick or Recover still has to do.
LoopIs ==
    /\ server = "up" => todo \subseteq Airings /\ due + Cardinality(todo) <= Cardinality(Airings)
    /\ server = "recover" => todo \subseteq DOMAIN recs
    /\ server # "up" => due = 0
    /\ server = "down" => on = [c \in Channels |-> 0]

DvrInv == TypeOK /\ LoopIs /\ Matched(recs, on, Unseen)

LEMMA TableFollows == DvrInv => TableHolds
<1> SUFFICES ASSUME DvrInv PROVE TableIsTrue BY DEF DvrInv, TableHolds
<1> SUFFICES ASSUME server = "up", NEW i \in DOMAIN recs
             PROVE  recs[i].status = "recording" <=> on[recs[i].channel] = i
  BY DEF TableIsTrue
<1>1. recs[i] \in Row /\ i # 0 BY DEF DvrInv, TypeOK
<1>2. Matched(recs, on, {}) BY DEF DvrInv, Unseen
<1> QED BY <1>1, <1>2 DEF Matched, Row

LEMMA InitHolds == ASSUME Init PROVE DvrInv
<1>1. Cardinality(Airings) \in Nat /\ Cardinality({}) = 0 BY FS_CardinalityType, FS_EmptySet
<1>2. recs \in Seq(Row) /\ Len(recs) = 0 /\ DOMAIN recs = {} BY DEF Init
<1>3. TypeOK BY <1>1, <1>2 DEF Init, TypeOK, None
<1> QED BY <1>1, <1>2, <1>3 DEF Init, DvrInv, LoopIs, Matched, Unseen

-----------------------------------------------------------------------------
(* RecordMeta and Finish.                                                   *)

LEMMA FaultIs == ASSUME TypeOK, NEW f, Fault(f) PROVE faults' \in 0 .. MaxFaults /\ trouble' = now
BY DEF TypeOK, Fault

LEMMA RowChanges ==
    ASSUME NEW rs \in Seq(Row), NEW i \in DOMAIN rs, NEW r \in Row, NEW q, q = [rs EXCEPT ![i] = r]
    PROVE  /\ q \in Seq(Row) /\ Len(q) = Len(rs) /\ DOMAIN q = DOMAIN rs /\ q[i] = r
           /\ \A j \in DOMAIN rs : j # i => q[j] = rs[j]
BY ExceptSeq

LEMMA PartialIs ==
    ASSUME NEW rs \in Seq(Row), NEW i \in DOMAIN rs
    PROVE  LET q == MarkPartial(rs, i)
           IN  /\ q \in Seq(Row) /\ Len(q) = Len(rs) /\ DOMAIN q = DOMAIN rs
               /\ \A j \in DOMAIN rs : q[j].status = rs[j].status /\ q[j].channel = rs[j].channel
<1> DEFINE r == [rs[i] EXCEPT !.partial = TRUE]
<1>1. rs[i] \in Row OBVIOUS
<1>2. r \in Row /\ r.status = rs[i].status /\ r.channel = rs[i].channel BY <1>1 DEF Row
<1>3. MarkPartial(rs, i) = [rs EXCEPT ![i] = r] BY DEF MarkPartial
<1> HIDE DEF r
<1> QED BY <1>2, <1>3, RowChanges

LEMMA NotedIs ==
    ASSUME NEW rs \in Seq(Row), NEW i \in DOMAIN rs, NEW by, \/ by = ByStart
                                                             \/ \E a \in Airings : by = ByRetry(a)
                                                             \/ \E p \in DOMAIN rs : by = ByResume(p)
    PROVE  LET q == Noted(by, rs, i)
           IN  /\ q \in Seq(Row) /\ Len(q) = Len(rs) /\ DOMAIN q = DOMAIN rs
               /\ \A j \in DOMAIN rs : q[j].status = rs[j].status /\ q[j].channel = rs[j].channel
<1>1. Noted(by, rs, i) \in {rs, MarkPartial(rs, i)}
  BY DEF Noted, ByStart, ByRetry, ByResume, MarkLate, MarkRest
<1> QED BY <1>1, PartialIs

\* What is asked to be recorded.
Asked(m) ==
    /\ m.channel \in Channels /\ m.title \in STRING /\ m.episode \in STRING
    /\ m.from \in Int /\ m.ends \in Int

LEMMA NewRowIs ==
    ASSUME TypeOK, NEW m, Asked(m)
    PROVE  /\ NewRow(m) \in Row /\ NewRow(m).status = "recording" /\ NewRow(m).channel = m.channel
           /\ Finished(NewRow(m), "failed") \in Row /\ Finished(NewRow(m), "failed").status = "failed"
<1>1. now \in Int /\ tuned[m.channel] \in Int BY DEF TypeOK, Asked, None
<1>2. StartedAt(m.channel, m.from) \in Int BY <1>1 DEF StartedAt, BufferedSince, Larger, Asked, None
<1>3. NewRow(m) \in Row BY <1>1, <1>2 DEF NewRow, Row, Asked, Statuses, None
<1> QED BY <1>1, <1>3 DEF NewRow, Finished, Row, Statuses

\* The table and the hub after RecordMeta; S are the rows Recover has yet to see.
LEMMA RecordMetaIs ==
    ASSUME TypeOK, NEW rows \in Seq(Row), Len(rows) = Len(recs), NEW S, S \subseteq DOMAIN rows,
           Matched(rows, on, S), NEW m, Asked(m),
           NEW by, \/ by = ByStart
                   \/ \E a \in Airings : by = ByRetry(a)
                   \/ \E p \in DOMAIN rows : by = ByResume(p),
           RecordMeta(rows, m, by)
    PROVE  /\ recs' \in Seq(Row) /\ Len(recs') >= Len(rows)
           /\ on' \in [Channels -> 0 .. Len(recs')] /\ Matched(recs', on', S)
           /\ tuned' \in [Channels -> {None} \cup 0 .. Horizon] /\ watched' \subseteq Channels
           /\ faults' \in 0 .. MaxFaults /\ trouble' \in 0 .. now
<1> DEFINE c == m.channel
           id == Len(rows) + 1
<1>0. /\ now \in 0 .. Horizon /\ now \in 0 .. now /\ on \in [Channels -> 0 .. Len(rows)] /\ Len(rows) \in Nat
      /\ tuned \in [Channels -> {None} \cup 0 .. Horizon] /\ watched \subseteq Channels
      /\ faults \in 0 .. MaxFaults /\ trouble \in 0 .. now /\ c \in Channels /\ DOMAIN rows = 1 .. Len(rows)
  BY DEF TypeOK, Asked
<1>1. CASE Fault("refuse") /\ recs' = rows /\ UNCHANGED <<on, tuned, watched>>
  BY <1>0, <1>1, FaultIs
<1>2. CASE on[c] # 0 /\ recs' = Noted(by, rows, on[c]) /\ UNCHANGED <<on, tuned, watched, history>>
  <2>1. on[c] \in DOMAIN rows BY <1>0, <1>2 DEF Matched
  <2>2. /\ recs' \in Seq(Row) /\ Len(recs') = Len(rows) /\ DOMAIN recs' = DOMAIN rows
        /\ \A j \in DOMAIN rows : recs'[j].status = rows[j].status /\ recs'[j].channel = rows[j].channel
    BY <1>2, <2>1, NotedIs
  <2>3. Matched(recs', on', S) BY <1>2, <2>2 DEF Matched
  <2> QED BY <1>0, <1>2, <2>2, <2>3 DEF history
<1>3. CASE Fault("abort") /\ recs' = Append(rows, Finished(NewRow(m), "failed")) /\ UNCHANGED <<on, tuned, watched>>
  <2> DEFINE r == Finished(NewRow(m), "failed")
  <2>1. r \in Row /\ r.status = "failed" BY NewRowIs
  <2> HIDE DEF r
  <2>2. /\ recs' \in Seq(Row) /\ Len(recs') = id /\ DOMAIN recs' = 1 .. id /\ recs'[id] = r
        /\ \A j \in 1 .. Len(rows) : recs'[j] = rows[j]
    BY <1>0, <1>3, <2>1 DEF r
  <2>3. \A j \in 1 .. id : j = id \/ j \in DOMAIN rows BY <1>0
  <2>4. Matched(recs', on', S)
    <3>1. ASSUME NEW d \in Channels, on'[d] # 0
          PROVE  on'[d] \in DOMAIN recs' /\ recs'[on'[d]].status = "recording" /\ recs'[on'[d]].channel = d /\ on'[d] \notin S
      BY <1>0, <1>3, <2>2, <3>1 DEF Matched
    <3>2. ASSUME NEW j \in DOMAIN recs', recs'[j].status = "recording" PROVE on'[recs'[j].channel] = j \/ j \in S
      BY <1>0, <1>3, <2>1, <2>2, <2>3, <3>2 DEF Matched
    <3> QED BY <3>1, <3>2 DEF Matched
  <2>5. on' \in [Channels -> 0 .. Len(recs')] BY <1>0, <1>3, <2>2
  <2> QED BY <1>0, <1>3, <2>2, <2>4, <2>5, FaultIs
<1>4. CASE /\ on[c] = 0
           /\ recs' = Noted(by, Append(rows, NewRow(m)), id)
           /\ on' = [on EXCEPT ![c] = id]
           /\ tuned' = [tuned EXCEPT ![c] = IF @ = None THEN now ELSE @]
           /\ UNCHANGED <<watched, history>>
  <2> DEFINE r == NewRow(m)
             q == Append(rows, r)
  <2>1. r \in Row /\ r.status = "recording" /\ r.channel = c BY NewRowIs
  <2> HIDE DEF r
  <2>2. q \in Seq(Row) /\ Len(q) = id /\ DOMAIN q = 1 .. id /\ q[id] = r /\ \A j \in 1 .. Len(rows) : q[j] = rows[j]
    BY <1>0, <2>1
  <2>3. recs' = Noted(by, q, id) /\ id \in DOMAIN q BY <1>0, <1>4, <2>2 DEF r
  <2>4. DOMAIN rows \subseteq DOMAIN q BY <1>0, <2>2
  <2> HIDE DEF q
  <2>5. /\ recs' \in Seq(Row) /\ Len(recs') = id /\ DOMAIN recs' = 1 .. id
        /\ \A j \in 1 .. id : recs'[j].status = q[j].status /\ recs'[j].channel = q[j].channel
    BY <2>2, <2>3, <2>4, NotedIs
  <2>6. /\ on' \in [Channels -> 0 .. Len(recs')] /\ on'[c] = id
        /\ \A d \in Channels : d # c => on'[d] = on[d]
    BY <1>0, <1>4, <2>5
  <2>7. tuned' \in [Channels -> {None} \cup 0 .. Horizon] BY <1>0, <1>4
  <2>8. Matched(recs', on', S)
    <3>1. ASSUME NEW d \in Channels, on'[d] # 0
          PROVE  on'[d] \in DOMAIN recs' /\ recs'[on'[d]].status = "recording" /\ recs'[on'[d]].channel = d /\ on'[d] \notin S
      <4>1. CASE d = c BY <1>0, <2>1, <2>2, <2>5, <2>6, <4>1
      <4>2. CASE d # c
        <5>1. on'[d] = on[d] /\ on[d] \in DOMAIN rows /\ rows[on[d]].status = "recording" /\ rows[on[d]].channel = d /\ on[d] \notin S
          BY <2>6, <3>1, <4>2 DEF Matched
        <5> QED BY <1>0, <2>2, <2>5, <5>1
      <4> QED BY <4>1, <4>2
    <3>2. ASSUME NEW j \in DOMAIN recs', recs'[j].status = "recording" PROVE on'[recs'[j].channel] = j \/ j \in S
      <4>1. CASE j = id BY <2>1, <2>2, <2>5, <2>6, <4>1
      <4>2. CASE j # id
        <5>1. j \in DOMAIN rows /\ recs'[j].status = rows[j].status /\ recs'[j].channel = rows[j].channel
          BY <1>0, <2>2, <2>5, <4>2
        <5>2. on[rows[j].channel] = j \/ j \in S BY <3>2, <5>1 DEF Matched
        <5>3. rows[j].channel \in Channels /\ j # 0
          <6>1. rows[j] \in Row /\ j # 0 BY <1>0, <5>1
          <6> QED BY <6>1 DEF Row
        <5>4. on[rows[j].channel] = j => rows[j].channel # c BY <1>4, <5>3
        <5> QED BY <2>6, <5>1, <5>2, <5>3, <5>4
      <4> QED BY <4>1, <4>2
    <3> QED BY <3>1, <3>2 DEF Matched
  <2> QED BY <1>0, <1>4, <2>5, <2>6, <2>7, <2>8 DEF history
<1> QED BY <1>1, <1>2, <1>3, <1>4 DEF RecordMeta

\* A recording ends.
LEMMA FinishHolds ==
    ASSUME DvrInv, NEW c \in Channels, Running(c), NEW status \in {"complete", "failed"}, NEW damaged \in BOOLEAN,
           Finish(c, status, damaged), faults' \in 0 .. MaxFaults, trouble' \in 0 .. now
    PROVE  DvrInv'
<1> DEFINE i == on[c]
           r == [Finished(recs[i], status) EXCEPT !.damaged = damaged]
<1>1. /\ recs \in Seq(Row) /\ i \in DOMAIN recs /\ recs[i].channel = c /\ i \notin Unseen /\ Len(recs) \in Nat
      /\ on \in [Channels -> 0 .. Len(recs)] /\ now \in Int
  BY DEF DvrInv, TypeOK, Matched, Running
<1>2. r \in Row /\ r.status # "recording" /\ r.channel = c
  <2>1. recs[i] \in Row BY <1>1
  <2> QED BY <1>1, <2>1 DEF Finished, Row, Statuses
<1>3. recs' = [recs EXCEPT ![i] = r] /\ on' = [on EXCEPT ![c] = 0] /\ UNCHANGED <<now, watched, loop>>
      /\ tuned' = Released(c)
  BY DEF Finish
<1> HIDE DEF r
<1>4. /\ recs' \in Seq(Row) /\ Len(recs') = Len(recs) /\ DOMAIN recs' = DOMAIN recs /\ recs'[i] = r
      /\ \A j \in DOMAIN recs : j # i => recs'[j] = recs[j]
  BY <1>1, <1>2, <1>3, RowChanges
<1>5. on' \in [Channels -> 0 .. Len(recs')] /\ on'[c] = 0 /\ \A d \in Channels : d # c => on'[d] = on[d]
  BY <1>1, <1>3, <1>4
<1>6. tuned' \in [Channels -> {None} \cup 0 .. Horizon] BY <1>3 DEF Released, DvrInv, TypeOK
<1>7. TypeOK' BY <1>3, <1>4, <1>5, <1>6 DEF DvrInv, TypeOK, loop
<1>8. LoopIs' BY <1>3, <1>4 DEF DvrInv, LoopIs, loop, Running
<1>9. Unseen' = Unseen BY <1>3, <1>4 DEF Unseen, loop
<1>10. Matched(recs', on', Unseen')
  <2>1. ASSUME NEW d \in Channels, on'[d] # 0
        PROVE  on'[d] \in DOMAIN recs' /\ recs'[on'[d]].status = "recording" /\ recs'[on'[d]].channel = d /\ on'[d] \notin Unseen'
    <3>1. d # c /\ on'[d] = on[d] BY <1>5, <2>1
    <3>2. on[d] \in DOMAIN recs /\ recs[on[d]].status = "recording" /\ recs[on[d]].channel = d /\ on[d] \notin Unseen
      BY <2>1, <3>1 DEF DvrInv, Matched
    <3>3. on[d] # i BY <1>1, <3>1, <3>2
    <3> QED BY <1>4, <1>9, <3>1, <3>2, <3>3
  <2>2. ASSUME NEW j \in DOMAIN recs', recs'[j].status = "recording" PROVE on'[recs'[j].channel] = j \/ j \in Unseen'
    <3>1. j # i /\ j \in DOMAIN recs /\ recs'[j] = recs[j] BY <1>2, <1>4, <2>2
    <3>2. on[recs[j].channel] = j \/ j \in Unseen BY <2>2, <3>1 DEF DvrInv, Matched
    <3>3. recs[j].channel \in Channels
      <4>1. recs[j] \in Row BY <1>1, <3>1
      <4> QED BY <4>1 DEF Row
    <3> QED BY <1>5, <1>9, <3>1, <3>2, <3>3
  <2> QED BY <2>1, <2>2 DEF Matched
<1> QED BY <1>7, <1>8, <1>10 DEF DvrInv

LEMMA EndsHold == ASSUME DvrInv, NEW c \in Channels, TimerEnds(c) \/ Fails(c) \/ StopRecord(c) PROVE DvrInv'
<1>1. TypeOK /\ faults \in 0 .. MaxFaults /\ trouble \in 0 .. now /\ now \in 0 .. now BY DEF DvrInv, TypeOK
<1>2. Running(c) BY DEF TimerEnds, Fails, StopRecord
<1>3. CASE Finish(c, "complete", FALSE) /\ UNCHANGED history
  <2>1. faults' \in 0 .. MaxFaults /\ trouble' \in 0 .. now BY <1>1, <1>3 DEF history
  <2> QED BY <1>2, <1>3, <2>1, FinishHolds
<1>4. ASSUME NEW f, Fault(f), NEW st \in {"complete", "failed"}, NEW dm \in BOOLEAN, Finish(c, st, dm) PROVE DvrInv'
  <2>1. faults' \in 0 .. MaxFaults /\ trouble' \in 0 .. now BY <1>1, <1>4, FaultIs
  <2> QED BY <1>2, <1>4, <2>1, FinishHolds
<1> QED BY <1>3, <1>4 DEF TimerEnds, Fails, StopRecord

\* A step that leaves the table, the hub's recordings and the loop.
LEMMA LeavesHold ==
    ASSUME DvrInv, UNCHANGED <<recs, on, loop>>, now' \in 0 .. Horizon, now' >= now,
           tuned' \in [Channels -> {None} \cup 0 .. Horizon], watched' \subseteq Channels,
           faults' \in 0 .. MaxFaults, trouble' \in 0 .. now
    PROVE  DvrInv'
<1>1. now \in 0 .. Horizon BY DEF DvrInv, TypeOK
<1>2. TypeOK' BY <1>1 DEF DvrInv, TypeOK, loop
<1>3. Unseen' = Unseen BY DEF Unseen, loop
<1> QED BY <1>2, <1>3 DEF DvrInv, LoopIs, loop

LEMMA WatchHolds == ASSUME DvrInv, NEW c \in Channels, Watch(c) \/ Leave(c) PROVE DvrInv'
<1>1. /\ now \in 0 .. Horizon /\ now \in 0 .. now /\ tuned \in [Channels -> {None} \cup 0 .. Horizon]
      /\ watched \subseteq Channels /\ TypeOK
  BY DEF DvrInv, TypeOK
<1>2. Fault("watch") /\ UNCHANGED <<now, recs, on, loop>> BY DEF Watch, Leave
<1>3. faults' \in 0 .. MaxFaults /\ trouble' \in 0 .. now BY <1>1, <1>2, FaultIs
<1>4. tuned' \in [Channels -> {None} \cup 0 .. Horizon] /\ watched' \subseteq Channels BY <1>1 DEF Watch, Leave
<1> QED BY <1>1, <1>2, <1>3, <1>4, LeavesHold

LEMMA AdvanceHolds == ASSUME DvrInv, Advance PROVE DvrInv'
<1>1. /\ now \in 0 .. Horizon /\ now < Horizon /\ now' = now + 1 /\ UNCHANGED <<hub, loop, history>>
      /\ tuned \in [Channels -> {None} \cup 0 .. Horizon] /\ watched \subseteq Channels
      /\ faults \in 0 .. MaxFaults /\ trouble \in 0 .. now
  BY DEF DvrInv, TypeOK, Advance
<1> QED BY <1>1, LeavesHold DEF hub, history

-----------------------------------------------------------------------------
(* The tick.                                                                *)

LEMMA Counts == /\ Cardinality(Airings) \in Nat
                /\ \A A : A \subseteq Airings => Cardinality(A) \in 0 .. Cardinality(Airings)
<1>1. Cardinality(Airings) \in Nat BY FS_CardinalityType
<1>2. ASSUME NEW A, A \subseteq Airings PROVE Cardinality(A) \in 0 .. Cardinality(Airings)
  <2>1. IsFiniteSet(A) /\ Cardinality(A) <= Cardinality(Airings) BY <1>2, FS_Subset
  <2> QED BY <1>1, <2>1, FS_CardinalityType
<1> QED BY <1>1, <1>2

\* The airings a tick has left, and the tuners counted so far, are no more than there are.
LEMMA ThroughIs ==
    ASSUME NEW rs, NEW n \in Nat, todo' \subseteq Airings, n + Cardinality(todo') <= Cardinality(Airings), Through(rs, n),
           hold \in 0 .. Cardinality(Airings)
    PROVE  /\ due' \in 0 .. Cardinality(Airings) /\ hold' \in 0 .. Cardinality(Airings)
           /\ due' + Cardinality(todo') <= Cardinality(Airings)
<1>1. Cardinality(todo') \in 0 .. Cardinality(Airings) /\ Cardinality(Airings) \in Nat BY Counts
<1>2. CASE todo' = {} BY <1>1, <1>2, FS_EmptySet DEF Through
<1>3. CASE todo' # {} BY <1>1, <1>3 DEF Through
<1> QED BY <1>2, <1>3

LEMMA TickReadsHolds == ASSUME DvrInv, TickReads PROVE DvrInv'
<1>1. /\ server = "up" /\ ticked' = now /\ todo' \subseteq Airings /\ Through(recs, 0)
      /\ UNCHANGED <<now, hub, server, history>> /\ now \in 0 .. now
      /\ hold \in 0 .. Cardinality(Airings)
  BY DEF DvrInv, TypeOK, TickReads, Window
<1>2. Cardinality(todo') \in 0 .. Cardinality(Airings) BY <1>1, Counts
<1>3. /\ due' \in 0 .. Cardinality(Airings) /\ hold' \in 0 .. Cardinality(Airings)
      /\ due' + Cardinality(todo') <= Cardinality(Airings)
  BY <1>1, <1>2, ThroughIs
<1>4. TypeOK' BY <1>1, <1>3 DEF DvrInv, TypeOK, hub, history
<1>5. LoopIs' BY <1>1, <1>3 DEF LoopIs
<1>6. Unseen = {} /\ Unseen' = {} BY <1>1 DEF Unseen
<1> QED BY <1>1, <1>4, <1>5, <1>6 DEF DvrInv, hub

LEMMA MetaAsked == ASSUME TypeOK, NEW a \in Airings PROVE Asked(Meta(a))
<1>1. now \in Int BY DEF TypeOK
<1>2. /\ a.channel \in Channels /\ a.title \in STRING /\ a.episode \in STRING
      /\ a.start \in Nat /\ a.end \in Nat /\ a.before \in Nat /\ a.after \in Nat
  BY AiringIs
<1>3. RecordUntil(a) \in Int BY <1>1, <1>2 DEF RecordUntil, RecordEnd, Minute
<1> QED BY <1>2, <1>3 DEF Asked, Meta, Minute

LEMMA TickItemHolds == ASSUME DvrInv, TickItem PROVE DvrInv'
<1> DEFINE a == First(todo)
<1>1. /\ server = "up" /\ ticked = now /\ todo # {} /\ todo \subseteq Airings
      /\ todo' = todo \ {a} /\ UNCHANGED <<now, server, ticked>>
      /\ TypeOK /\ due \in 0 .. Cardinality(Airings) /\ hold \in 0 .. Cardinality(Airings)
      /\ due + Cardinality(todo) <= Cardinality(Airings)
      /\ recs \in Seq(Row) /\ faults \in 0 .. MaxFaults /\ trouble \in 0 .. now
  BY DEF DvrInv, TypeOK, LoopIs, TickItem
<1>2. a \in todo /\ a \in Airings BY <1>1, FirstIn
<1>3. \E n \in {due, due + 1} : Through(snap, n)
  BY DEF TickItem
<1>4. \/ UNCHANGED <<hub, history>>
      \/ RecordMeta(recs, Meta(a), ByStart)
      \/ RecordMeta(recs, Meta(a), ByRetry(a))
  BY DEF TickItem
<1> HIDE DEF a
<1>5. /\ Cardinality(todo') + 1 = Cardinality(todo) /\ Cardinality(todo') \in Nat /\ todo' \subseteq Airings
  <2>1. IsFiniteSet(todo) BY <1>1, FS_Subset
  <2>2. Cardinality(todo) \in Nat /\ Cardinality(todo') = Cardinality(todo) - 1
    BY <1>1, <1>2, <2>1, FS_RemoveElement, FS_CardinalityType
  <2>3. todo' \subseteq Airings /\ Cardinality(todo') \in Nat BY <1>1, Counts
  <2> QED BY <2>2, <2>3
<1>6. /\ due' \in 0 .. Cardinality(Airings) /\ hold' \in 0 .. Cardinality(Airings)
      /\ due' + Cardinality(todo') <= Cardinality(Airings)
  <2>1. PICK n \in {due, due + 1} : Through(snap, n) BY <1>3
  <2>2. n \in Nat /\ n + Cardinality(todo') <= Cardinality(Airings) BY <1>1, <1>5, <2>1, Counts
  <2> QED BY <1>1, <1>5, <2>1, <2>2, ThroughIs
<1>7. Unseen = {} /\ Unseen' = {} BY <1>1 DEF Unseen
<1> DEFINE Tabled == /\ recs' \in Seq(Row) /\ on' \in [Channels -> 0 .. Len(recs')] /\ Matched(recs', on', {})
                    /\ tuned' \in [Channels -> {None} \cup 0 .. Horizon] /\ watched' \subseteq Channels
                    /\ faults' \in 0 .. MaxFaults /\ trouble' \in 0 .. now
<1>8. Tabled
  <2>1. Matched(recs, on, {}) BY <1>7 DEF DvrInv
  <2>2. CASE UNCHANGED <<hub, history>> BY <1>1, <2>1, <2>2 DEF hub, history, TypeOK
  <2>3. ASSUME NEW by \in {ByStart, ByRetry(a)}, RecordMeta(recs, Meta(a), by)
        PROVE  Tabled
    <3>1. Asked(Meta(a)) BY <1>1, <1>2, MetaAsked
    <3>2. by = ByStart \/ \E b \in Airings : by = ByRetry(b) BY <1>2
    <3> QED BY <1>1, <2>1, <2>3, <3>1, <3>2, RecordMetaIs
  <2> QED BY <1>4, <2>2, <2>3
<1>9. TypeOK' BY <1>1, <1>6, <1>8 DEF TypeOK
<1>10. LoopIs' BY <1>1, <1>5, <1>6 DEF LoopIs
<1> QED BY <1>7, <1>8, <1>9, <1>10 DEF DvrInv

-----------------------------------------------------------------------------
(* Restarts.                                                                *)

LEMMA StoppedHolds ==
    ASSUME DvrInv, NEW rows \in Seq(Row), Len(rows) = Len(recs), Stopped(rows), NEW f, Fault(f)
    PROVE  DvrInv'
<1>1. /\ recs' = rows /\ on' = [c \in Channels |-> 0] /\ tuned' = [c \in Channels |-> None] /\ watched' = {}
      /\ server' = "down" /\ todo' = {} /\ due' = 0 /\ hold' = 0 /\ UNCHANGED <<now, ticked>>
      /\ Len(rows) \in Nat
  BY DEF Stopped
<1>2. now \in 0 .. now /\ TypeOK BY DEF DvrInv, TypeOK
<1>3. faults' \in 0 .. MaxFaults /\ trouble' \in 0 .. now BY <1>2, FaultIs
<1>4. Cardinality(Airings) \in Nat BY Counts
<1>5. TypeOK' BY <1>1, <1>2, <1>3, <1>4 DEF TypeOK
<1>6. LoopIs' BY <1>1 DEF LoopIs
<1>7. Unseen' = DOMAIN recs' BY <1>1 DEF Unseen
<1>8. Matched(recs', on', Unseen') BY <1>1, <1>7 DEF Matched
<1> QED BY <1>5, <1>6, <1>8 DEF DvrInv

LEMMA CrashHolds == ASSUME DvrInv, Crash PROVE DvrInv'
<1>1. recs \in Seq(Row) BY DEF DvrInv, TypeOK
<1> QED BY <1>1, StoppedHolds DEF Crash

LEMMA ShutdownHolds == ASSUME DvrInv, Shutdown PROVE DvrInv'
<1> DEFINE rows == [i \in DOMAIN recs |-> IF \E c \in Channels : on[c] = i THEN CutShort(recs[i]) ELSE recs[i]]
<1>1. recs \in Seq(Row) /\ Len(recs) \in Nat /\ DOMAIN recs = 1 .. Len(recs) /\ now \in Int BY DEF DvrInv, TypeOK
<1>2. \A r \in Row : CutShort(r) \in Row BY <1>1 DEF CutShort, Finished, Row, Statuses
<1>3. \A i \in DOMAIN recs : recs[i] \in Row BY <1>1
<1>4. rows \in [1 .. Len(recs) -> Row]
  <2> HIDE DEF Row
  <2> QED BY <1>1, <1>2, <1>3
<1>5. rows \in Seq(Row) /\ Len(rows) = Len(recs)
  <2> HIDE DEF rows
  <2>1. rows \in Seq(Row) BY <1>1, <1>4, SeqDef
  <2>2. DOMAIN rows = 1 .. Len(recs) BY <1>4
  <2> QED BY <1>1, <2>1, <2>2, LenProperties
<1>6. Stopped(rows) /\ Fault("shutdown") BY DEF Shutdown
<1> HIDE DEF rows
<1> QED BY <1>5, <1>6, StoppedHolds

LEMMA RestartHolds == ASSUME DvrInv, Restart PROVE DvrInv'
<1>1. /\ server = "down" /\ server' = "recover" /\ UNCHANGED <<now, hub, ticked, due, hold, history>>
      /\ todo' = {i \in DOMAIN recs : recs[i].status \in {"recording", "interrupted"}}
      /\ on = [c \in Channels |-> 0] /\ due = 0
  BY DEF Restart, DvrInv, LoopIs
<1>2. TypeOK' BY <1>1 DEF DvrInv, TypeOK, hub, history
<1>3. LoopIs' BY <1>1 DEF LoopIs, hub
<1>4. Unseen' = todo' BY <1>1 DEF Unseen
<1>5. Matched(recs', on', Unseen') BY <1>1, <1>4 DEF Matched, hub
<1> QED BY <1>2, <1>3, <1>5 DEF DvrInv

LEMMA RecoveredHolds == ASSUME DvrInv, Recovered PROVE DvrInv'
<1>1. /\ server = "recover" /\ server' = "up" /\ todo = {} /\ UNCHANGED <<now, hub, ticked, todo, due, hold, history>>
      /\ due = 0
  BY DEF Recovered, DvrInv, LoopIs
<1>2. TypeOK' BY <1>1 DEF DvrInv, TypeOK, hub, history
<1>3. LoopIs' BY <1>1, Counts, FS_EmptySet DEF LoopIs
<1>4. Unseen' = {} /\ Unseen = {} BY <1>1 DEF Unseen
<1> QED BY <1>1, <1>2, <1>3, <1>4 DEF DvrInv, hub

LEMMA RecoverRowHolds == ASSUME DvrInv, RecoverRow PROVE DvrInv'
<1> DEFINE i == CHOOSE i \in todo : \A j \in todo : j <= i
           closed == [recs EXCEPT ![i] = Closed(@)]
           S == todo \ {i}
<1>1. /\ server = "recover" /\ todo # {} /\ todo \subseteq DOMAIN recs /\ todo' = S /\ due = 0
      /\ UNCHANGED <<now, server, ticked, snap, due, hold>>
      /\ TypeOK /\ recs \in Seq(Row) /\ Len(recs) \in Nat /\ DOMAIN recs = 1 .. Len(recs) /\ now \in Int
      /\ faults \in 0 .. MaxFaults /\ trouble \in 0 .. now
  BY DEF RecoverRow, DvrInv, LoopIs, TypeOK
<1>2. i \in todo
  <2>1. todo \subseteq 1 .. Len(recs) /\ todo # {} /\ Len(recs) \in Nat BY <1>1
  <2> HIDE DEF i
  <2> QED BY <2>1, LastIn DEF i
<1>3. \/ recs' = closed /\ UNCHANGED <<on, tuned, watched, history>>
      \/ RecordMeta(closed, RestOf(recs[i]), ByResume(i))
  BY DEF RecoverRow
<1> HIDE DEF i
<1>4. i \in DOMAIN recs /\ recs[i] \in Row BY <1>1, <1>2
<1>5. Closed(recs[i]) \in Row /\ Closed(recs[i]).status = "interrupted" BY <1>1, <1>4 DEF Closed, Row, Statuses
<1>6. /\ closed \in Seq(Row) /\ Len(closed) = Len(recs) /\ DOMAIN closed = DOMAIN recs /\ closed[i].status = "interrupted"
      /\ \A j \in DOMAIN recs : j # i => closed[j] = recs[j]
  <2> DEFINE r == Closed(recs[i])
  <2>1. closed = [recs EXCEPT ![i] = r] OBVIOUS
  <2> HIDE DEF r, closed
  <2> QED BY <1>1, <1>4, <1>5, <2>1, RowChanges DEF r
<1> HIDE DEF closed
<1>7. Matched(recs, on, todo) BY <1>1 DEF DvrInv, Unseen
<1>8. Matched(closed, on, S)
  <2>1. ASSUME NEW d \in Channels, on[d] # 0
        PROVE  on[d] \in DOMAIN closed /\ closed[on[d]].status = "recording" /\ closed[on[d]].channel = d /\ on[d] \notin S
    BY <1>2, <1>6, <1>7, <2>1 DEF Matched
  <2>2. ASSUME NEW j \in DOMAIN closed, closed[j].status = "recording" PROVE on[closed[j].channel] = j \/ j \in S
    BY <1>6, <1>7, <2>2 DEF Matched
  <2> QED BY <2>1, <2>2 DEF Matched
<1>9. Asked(RestOf(recs[i])) BY <1>4 DEF Asked, RestOf, Row, None
<1>10. /\ recs' \in Seq(Row) /\ Len(recs') >= Len(closed)
       /\ on' \in [Channels -> 0 .. Len(recs')] /\ Matched(recs', on', S)
       /\ tuned' \in [Channels -> {None} \cup 0 .. Horizon] /\ watched' \subseteq Channels
       /\ faults' \in 0 .. MaxFaults /\ trouble' \in 0 .. now
  <2>1. CASE recs' = closed /\ UNCHANGED <<on, tuned, watched, history>>
    BY <1>1, <1>6, <1>8, <2>1 DEF TypeOK, history
  <2>2. CASE RecordMeta(closed, RestOf(recs[i]), ByResume(i))
    <3>1. S \subseteq DOMAIN closed /\ \E p \in DOMAIN closed : ByResume(i) = ByResume(p) BY <1>1, <1>4, <1>6
    <3> HIDE DEF S
    <3> QED BY <1>1, <1>6, <1>8, <1>9, <2>2, <3>1, RecordMetaIs
  <2> QED BY <1>3, <2>1, <2>2
<1>11. TypeOK' BY <1>1, <1>10 DEF TypeOK
<1>12. LoopIs' BY <1>1, <1>6, <1>10 DEF LoopIs
<1>13. Unseen' = S BY <1>1 DEF Unseen
<1> QED BY <1>10, <1>11, <1>12, <1>13 DEF DvrInv

LEMMA NextHolds == ASSUME DvrInv, [Next]_vars PROVE DvrInv'
<1>1. ASSUME NEW c \in Channels, TimerEnds(c) \/ Fails(c) \/ StopRecord(c) \/ Watch(c) \/ Leave(c) PROVE DvrInv'
  BY <1>1, EndsHold, WatchHolds
<1>2. CASE TickReads \/ TickItem BY <1>2, TickReadsHolds, TickItemHolds
<1>3. CASE Crash \/ Shutdown BY <1>3, CrashHolds, ShutdownHolds
<1>4. CASE Restart \/ RecoverRow \/ Recovered BY <1>4, RestartHolds, RecoverRowHolds, RecoveredHolds
<1>5. CASE Advance BY <1>5, AdvanceHolds
<1>6. CASE Done \/ UNCHANGED vars
  <2>1. UNCHANGED vars BY <1>6 DEF Done
  <2> QED BY <2>1 DEF vars, DvrInv, TypeOK, LoopIs, Unseen
<1> QED BY <1>1, <1>2, <1>3, <1>4, <1>5, <1>6 DEF Next

-----------------------------------------------------------------------------
\* What the tick, the hub and Recover keep of the table between them, at every step.
THEOREM Kept == Spec => []DvrInv
<1>1. Init => DvrInv BY InitHolds
<1>2. DvrInv /\ [Next]_vars => DvrInv' BY NextHolds
<1> QED BY <1>1, <1>2, PTL DEF Spec

\* While the server is up a row that says it is recording is the one the hub is recording
\* on its channel, whatever crashed, failed or was resumed before (Tick, Recover).
THEOREM TableTrue == Spec => []TableHolds
<1>1. DvrInv => TableHolds BY TableFollows
<1> QED BY <1>1, Kept, PTL
=============================================================================
