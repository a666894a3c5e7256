----------------------------- MODULE RingProofs -----------------------------
(***************************************************************************)
(* The ring keeps what it promises for every chunk, window and bound: its  *)
(* types, the bytes it says are on disk, its files, the index of times,    *)
(* and that it implements the tape its readers are told of.                *)
(***************************************************************************)
EXTENDS Ring, TLAPS

USE RingAssumption DEF RingAssumption, tape, index, mode, flusher, Pos, Times, NoFile, NoTime, Stray, Names

-----------------------------------------------------------------------------
(* What the sections under r.mu do to the index.                            *)

LEMMA EmptyDoes ==
    ASSUME TapeTyped, IndexTyped, Empty
    PROVE  TapeTyped' /\ IndexTyped' /\ Names' = {} /\ start' = received /\ flushed' = received
           /\ gen' = gen + 1 /\ received' = received /\ closed' = closed /\ marks' = {}
<1>1. DOMAIN segs' = {} BY DEF Empty, ResetLocked
<1> QED BY <1>1 DEF TapeTyped, IndexTyped, Empty, ResetLocked

LEMMA DropDoes ==
    ASSUME TapeTyped, IndexTyped, NEW cut \in Names \cup {start}, DropBefore(cut), Restless,
           UNCHANGED <<flushed, received, closed>>
    PROVE  /\ TapeTyped' /\ IndexTyped' /\ start' = cut /\ drop' = {f \in Names : f < cut}
           /\ Names' = {f \in Names : f >= cut} /\ \A f \in Names' : segs'[f] = segs[f]
           /\ marks' = {m \in marks : m.pos >= cut}
<1>1. Names' = {f \in Names : f >= cut} /\ \A f \in Names' : segs'[f] = segs[f]
  BY DEF DropBefore, Without, IndexTyped, TapeTyped
<1> QED BY <1>1 DEF TapeTyped, IndexTyped, DropBefore, Restless

LEMMA RemovedTyped ==
    ASSUME DiskTyped, NEW S, disk' = Without(disk, S)
    PROVE  DiskTyped' /\ DOMAIN disk' = DOMAIN disk \ S /\ \A f \in DOMAIN disk' : disk'[f] = disk[f]
BY DEF DiskTyped, Without

-----------------------------------------------------------------------------
(* Types                                                                    *)

LEMMA InitTyped == Init => TypeOK
<1> SUFFICES ASSUME Init PROVE TypeOK OBVIOUS
<1>1. DOMAIN segs = {} BY DEF Init
<1>2. TapeTyped
  <2>1. start = 0 /\ flushed = 0 /\ received = 0 /\ closed = FALSE BY DEF Init
  <2>2. closed \in BOOLEAN BY <2>1
  <2>3. received \in Pos BY <2>1
  <2>4. start \in Int /\ flushed \in Int BY <2>1
  <2> QED BY <2>2, <2>3, <2>4 DEF TapeTyped
<1>6. ModeTyped
  <2>1. low \in BOOLEAN /\ off \in BOOLEAN /\ wake \in BOOLEAN BY DEF Init
  <2>2. now \in 0..MaxTime /\ turns \in Nat BY DEF Init
  <2>3. window \in Windows \cup {0} BY DEF Init
  <2> QED BY <2>1, <2>2, <2>3 DEF ModeTyped
<1>3. IndexTyped BY <1>1 DEF Init, IndexTyped
<1>4. DiskTyped
  <2>1. PICK left \in SUBSET {Stray} : disk = [f \in left |-> [to |-> 0, whole |-> FALSE]] BY DEF Init
  <2> QED BY <2>1 DEF DiskTyped
<1>5. FlusherTyped
  <2>1. removing = {} /\ drop = {} /\ pc = "begin" /\ file = -1 /\ dead = FALSE BY DEF Init
  <2>2. job \in [gen : Nat, first : Int, upto : Pos, new : BOOLEAN, at : Nat, ok : BOOLEAN] BY DEF Init, NoJob
  <2>3. dead \in BOOLEAN BY <2>1
  <2>4. pc \in Pcs /\ file \in Int /\ removing \subseteq Int /\ drop \subseteq Int BY <2>1 DEF Pcs
  <2> QED BY <2>2, <2>3, <2>4 DEF FlusherTyped
<1> QED BY <1>2, <1>3, <1>4, <1>5, <1>6 DEF TypeOK

LEMMA StepTyped == TypeOK /\ [Next]_vars => TypeOK'
<1> SUFFICES ASSUME TypeOK, [Next]_vars PROVE TypeOK' OBVIOUS
<1>0. TapeTyped /\ IndexTyped /\ DiskTyped /\ FlusherTyped /\ ModeTyped BY DEF TypeOK
<1> USE <1>0
<1>1. ASSUME NEW n \in 1..MaxChunk, Append(n) PROVE TypeOK'
  <2>1. DiskTyped' /\ ModeTyped' /\ FlusherTyped'
    BY <1>1 DEF DiskTyped, ModeTyped, FlusherTyped, Append, AppendKept, AppendLost, IndexTyped, SendWake
  <2>2. CASE AppendKept(n)
    BY <1>1, <2>1, <2>2 DEF TypeOK, TapeTyped, IndexTyped, ModeTyped, Append, AppendKept, NewMark
  <2>3. CASE AppendLost(n)
    <3>1. TapeTyped' BY <1>1, <2>3 DEF TapeTyped, Append, AppendLost, StartOver
    <3>2. IndexTyped'
      <4>1. CASE UNCHANGED index BY <4>1 DEF IndexTyped
      <4>2. CASE ResetLocked BY <4>2 DEF ResetLocked, IndexTyped
      <4> QED BY <4>1, <4>2, <2>3 DEF AppendLost
    <3> QED BY <2>1, <3>1, <3>2 DEF TypeOK
  <2> QED BY <1>1, <2>2, <2>3 DEF Append
<1>2. CASE RemoveLater
  BY <1>2, RemovedTyped DEF TypeOK, RemoveLater, TapeTyped, IndexTyped, FlusherTyped, ModeTyped
<1>3. CASE Close
  BY <1>3 DEF TypeOK, Close, TapeTyped, IndexTyped, DiskTyped, FlusherTyped, ModeTyped
<1>4. CASE Begin
  <2>1. DiskTyped' BY <1>4, RemovedTyped DEF Begin, DiskTyped
  <2>3. FlusherTyped'
    <3>1. dead' \in BOOLEAN /\ pc' = "window" /\ UNCHANGED <<removing, file, job, drop>>
      BY <1>4 DEF Begin, FlusherTyped
    <3> QED BY <3>1 DEF FlusherTyped, Pcs
  <2>4. ModeTyped'
    <3>1. low' \in BOOLEAN /\ UNCHANGED <<window, off, wake, now>> BY <1>4 DEF Begin, ModeTyped
    <3>2. turns' \in Nat BY <1>4 DEF Begin, Calm, Turn, ModeTyped
    <3> QED BY <3>1, <3>2 DEF ModeTyped
  <2>2. TapeTyped' /\ IndexTyped'
    BY <1>4, EmptyDoes DEF Begin, TapeTyped, IndexTyped
  <2> QED BY <2>1, <2>2, <2>3, <2>4 DEF TypeOK
<1>5. CASE CheckWindow
  <2>1. PICK w \in Windows : WindowSet(w) /\ turns' \in Nat
    BY <1>5 DEF CheckWindow, Calm, Turn, ModeTyped
  <2>2. DiskTyped' BY <1>5 DEF CheckWindow, DiskTyped
  <2>3. ModeTyped'
    <3>1. window' \in Windows /\ UNCHANGED <<low, wake, now>> BY <1>5, <2>1 DEF CheckWindow, WindowSet
    <3>2. off' \in BOOLEAN
      <4>1. off' = off \/ off' = TRUE \/ off' = FALSE BY <2>1, <3>1 DEF WindowSet
      <4> QED BY <4>1 DEF ModeTyped
    <3> QED BY <2>1, <3>1, <3>2 DEF ModeTyped
  <2>4. /\ TapeTyped' /\ IndexTyped'
        /\ drop' \subseteq Int
    <3>1. CASE w = 0 /\ ~off BY <2>1, <3>1, EmptyDoes DEF WindowSet, IndexTyped
    <3>2. CASE w = 0 /\ off BY <2>1, <3>2 DEF WindowSet, IndexTyped, TapeTyped, FlusherTyped
    <3>3. CASE w > 0
      <4>1. PICK cut \in Names \cup {start} : DropBefore(cut) BY <2>1, <3>3 DEF WindowSet
      <4>2. Restless /\ UNCHANGED <<flushed, received, closed>> BY <2>1, <3>3 DEF WindowSet
      <4> QED BY <4>1, <4>2, DropDoes DEF IndexTyped
    <3> QED BY <3>1, <3>2, <3>3
  <2>5. FlusherTyped' BY <1>5, <2>4 DEF CheckWindow, FlusherTyped, Goes, Pcs
  <2> QED BY <2>2, <2>3, <2>4, <2>5 DEF TypeOK
<1>6. CASE CheckRoom
  <2>1. DiskTyped' BY <1>6, RemovedTyped DEF CheckRoom, RemoveDropped
  <2>2. TapeTyped' /\ IndexTyped' /\ drop' \subseteq Int
    <3>1. CASE UNCHANGED <<tape, index>> /\ drop' = {} BY <3>1 DEF TapeTyped, IndexTyped
    <3>2. ASSUME NEW cut \in Names, DropBefore(cut), Restless, UNCHANGED <<flushed, received, closed>>
          PROVE TapeTyped' /\ IndexTyped' /\ drop' \subseteq Int
      BY <3>2, DropDoes DEF IndexTyped
    <3>3. CASE Empty /\ drop' = Names BY <3>3, EmptyDoes DEF IndexTyped
    <3> QED BY <1>6, <3>1, <3>2, <3>3 DEF CheckRoom
  <2>3. ModeTyped'
    <3>1. low' \in BOOLEAN /\ UNCHANGED <<window, off, wake, now>> BY <1>6 DEF CheckRoom, ModeTyped
    <3>2. turns' \in Nat BY <1>6 DEF CheckRoom, Calm, Turn, ModeTyped
    <3> QED BY <3>1, <3>2 DEF ModeTyped
  <2>4. FlusherTyped' BY <1>6, <2>2 DEF CheckRoom, FlusherTyped, Goes, Pcs
  <2> QED BY <2>1, <2>2, <2>3, <2>4 DEF TypeOK
<1>7. CASE Remove
  BY <1>7, RemovedTyped
     DEF TypeOK, Remove, RemoveDropped, TapeTyped, IndexTyped, FlusherTyped, ModeTyped, Goes, Pcs
<1>8. CASE Stops \/ Wakes \/ Ticks
  BY <1>8 DEF TypeOK, Stops, Wakes, Ticks, TapeTyped, IndexTyped, DiskTyped, FlusherTyped, ModeTyped, Goes, Pcs
<1>9. CASE TakeBatch
  <2>1. TapeTyped' /\ IndexTyped' /\ DiskTyped' /\ ModeTyped'
    BY <1>9 DEF TakeBatch, TapeTyped, IndexTyped, DiskTyped, ModeTyped
  <2>2. FlusherTyped'
    <3>1. CASE closed \/ flushed = received BY <1>9, <3>1 DEF TakeBatch, FlusherTyped, Goes, Pcs
    <3>2. CASE ~(closed \/ flushed = received)
      <4>1. Rotates \in BOOLEAN BY DEF Rotates
      <4>2. /\ removing' = removing /\ drop' = drop /\ dead' = dead /\ file' = file
            /\ pc' \in Pcs
            /\ job' = [gen |-> gen, first |-> flushed, upto |-> received, new |-> Rotates, at |-> now, ok |-> TRUE]
        BY <1>9, <3>2 DEF TakeBatch, Pcs
      <4> QED BY <4>1, <4>2 DEF FlusherTyped, TapeTyped, IndexTyped, ModeTyped
    <3> QED BY <3>1, <3>2
  <2> QED BY <2>1, <2>2 DEF TypeOK
<1>10. CASE Create
  <2>1. TapeTyped' /\ IndexTyped' /\ ModeTyped' BY <1>10 DEF Create, TapeTyped, IndexTyped, ModeTyped, Calm, Turn
  <2>2. FlusherTyped' BY <1>10 DEF Create, FlusherTyped, Pcs
  <2>3. DiskTyped'
    <3>1. CASE UNCHANGED disk BY <3>1 DEF DiskTyped
    <3>2. CASE disk' = With(disk, job.first, [to |-> job.first, whole |-> TRUE])
      <4>1. job.first \in Int /\ [to |-> job.first, whole |-> TRUE] \in [to : Int, whole : BOOLEAN]
        BY DEF FlusherTyped
      <4>2. DOMAIN disk' = DOMAIN disk \cup {job.first} BY <3>2 DEF With
      <4>3. \A f \in DOMAIN disk' : disk'[f] \in [to : Int, whole : BOOLEAN]
        BY <3>2, <4>1, <4>2 DEF With, DiskTyped
      <4> QED BY <4>1, <4>2, <4>3 DEF DiskTyped
    <3> QED BY <1>10, <3>1, <3>2 DEF Create
  <2> QED BY <2>1, <2>2, <2>3 DEF TypeOK
<1>11. CASE Write
  <2>1. TapeTyped' /\ IndexTyped' /\ ModeTyped' BY <1>11 DEF Write, TapeTyped, IndexTyped, ModeTyped, Calm, Turn
  <2>2. FlusherTyped' BY <1>11 DEF Write, FlusherTyped, Pcs
  <2>3. PICK n \in Int : WriteTo(n) BY <1>11 DEF Write, FlusherTyped
  <2>4. DiskTyped'
    <3>1. CASE disk' = disk BY <3>1 DEF DiskTyped
    <3>2. CASE file \in DOMAIN disk
      <4> DEFINE grown == [to |-> disk[file].to + n, whole |-> disk[file].whole /\ disk[file].to = job.first]
      <4>1. disk[file] \in [to : Int, whole : BOOLEAN] BY <3>2 DEF DiskTyped
      <4>2. grown \in [to : Int, whole : BOOLEAN] BY <2>3, <4>1
      <4>3. disk' = [disk EXCEPT ![file] = grown] BY <2>3, <3>2, <4>1 DEF WriteTo
      <4> HIDE DEF grown
      <4> QED BY <3>2, <4>2, <4>3 DEF DiskTyped
    <3> QED BY <2>3, <3>1, <3>2 DEF WriteTo
  <2> QED BY <2>1, <2>2, <2>4 DEF TypeOK
<1>12. CASE Commit
  <2>0. ModeTyped' BY <1>12 DEF Commit, ModeTyped
  <2>1. CASE Resetted
    <3>1. TapeTyped' /\ IndexTyped' BY <2>1 DEF Resetted, TapeTyped, IndexTyped
    <3>2. DiskTyped' BY <2>1, RemovedTyped DEF Resetted, LateFile, DiskTyped
    <3>3. file' \in Int /\ pc' \in Pcs /\ UNCHANGED <<drop, removing, job, dead>>
      BY <1>12, <2>1 DEF Commit, Resetted, LateFile, FlusherTyped, Pcs
    <3> QED BY <2>0, <3>1, <3>2, <3>3 DEF TypeOK, FlusherTyped
  <2>2. DOMAIN Grown \subseteq Int /\ \A f \in DOMAIN Grown : Grown[f] \in [size : Int, opened : Nat]
    BY DEF Grown, With, IndexTyped, FlusherTyped
  <2>3. CASE WriteFailed
    <3>1. IndexTyped' BY <2>2, <2>3 DEF WriteFailed, IndexTyped
    <3>2. TapeTyped' /\ DiskTyped' /\ FlusherTyped'
      BY <1>12, <2>3 DEF Commit, WriteFailed, TapeTyped, DiskTyped, FlusherTyped, Pcs
    <3> QED BY <2>0, <3>1, <3>2 DEF TypeOK
  <2>4. CASE Committed
    <3>1. PICK last \in DOMAIN Grown, cut \in DOMAIN Grown \cup {start} :
            /\ segs' = [f \in {g \in DOMAIN Grown : g >= cut} |->
                        IF f = last THEN [Grown[f] EXCEPT !.size = @ + job.upto - job.first] ELSE Grown[f]]
            /\ marks' = {m \in marks : m.pos >= cut}
            /\ start' = cut
            /\ drop' = {f \in DOMAIN Grown : f < cut}
      BY <2>4 DEF Committed
    <3>2. job.upto - job.first \in Int BY DEF FlusherTyped
    <3>3. \A f \in DOMAIN segs' : f \in Int /\ segs'[f] \in [size : Int, opened : Nat]
      BY <3>1, <3>2, <2>2 DEF FlusherTyped
    <3>4. IndexTyped' BY <3>1, <3>3, <2>4 DEF Committed, IndexTyped
    <3>5. TapeTyped' /\ DiskTyped' BY <2>2, <2>4, <3>1, <3>2 DEF Committed, TapeTyped, DiskTyped, FlusherTyped
    <3>6. FlusherTyped' BY <1>12, <2>2, <2>4, <3>1 DEF Commit, Committed, FlusherTyped, Pcs
    <3> QED BY <2>0, <3>4, <3>5, <3>6 DEF TypeOK
  <2> QED BY <1>12, <2>1, <2>3, <2>4 DEF Commit
<1>13. CASE Fail
  <2>1. TapeTyped' /\ IndexTyped' /\ drop' \subseteq Int
    BY <1>13, EmptyDoes DEF Fail, TapeTyped, IndexTyped
  <2> QED BY <1>13, <2>1 DEF TypeOK, Fail, DiskTyped, FlusherTyped, ModeTyped, Pcs
<1>14. CASE Failed
  BY <1>14, RemovedTyped
     DEF TypeOK, Failed, RemoveDropped, TapeTyped, IndexTyped, FlusherTyped, ModeTyped, Goes, Pcs
<1>15. CASE End
  <2>1. TapeTyped' /\ IndexTyped' BY <1>15, EmptyDoes DEF End
  <2>2. DiskTyped' BY <1>15, RemovedTyped DEF End, RemoveAll
  <2>3. FlusherTyped' BY <1>15 DEF End, FlusherTyped, Pcs
  <2>4. ModeTyped' BY <1>15 DEF End, ModeTyped
  <2> QED BY <2>1, <2>2, <2>3, <2>4 DEF TypeOK
<1>16. CASE Tick
  BY <1>16 DEF TypeOK, Tick, TapeTyped, IndexTyped, DiskTyped, FlusherTyped, ModeTyped
<1>17. CASE UNCHANGED vars
  BY <1>17 DEF TypeOK, vars, TapeTyped, IndexTyped, DiskTyped, FlusherTyped, ModeTyped
<1> QED BY <1>1, <1>2, <1>3, <1>4, <1>5, <1>6, <1>7, <1>8, <1>9, <1>10, <1>11, <1>12, <1>13, <1>14,
           <1>15, <1>16, <1>17 DEF Next, Flusher

-----------------------------------------------------------------------------
(* The index                                                                *)

\* All the arithmetic below is about these.
Numbers ==
    /\ start \in Int /\ flushed \in Int /\ received \in Int /\ gen \in Int
    /\ Names \subseteq Int /\ \A f \in Names : segs[f].size \in Int
    /\ \A f \in DOMAIN disk : disk[f].to \in Int
    /\ \A m \in marks : m.pos \in Int
    /\ file \in Int /\ job.first \in Int /\ job.upto \in Int /\ job.gen \in Int

LEMMA TypedNumbers == ASSUME TypeOK PROVE Numbers
BY DEF TypeOK, TapeTyped, IndexTyped, DiskTyped, FlusherTyped, Numbers

\* The newest file ends where the disk does.
LEMMA NewestEnds ==
    ASSUME Numbers, Tiles, NEW l, Newest(l)
    PROVE  l + segs[l].size = flushed
<1>1. l \in Names /\ l + segs[l].size <= flushed /\ start <= l /\ segs[l].size >= 0
  BY DEF Numbers, Tiles, Newest
<1>2. ASSUME l + segs[l].size < flushed PROVE FALSE
  <2>1. flushed - 1 \in start..(flushed - 1) BY <1>1, <1>2 DEF Numbers
  <2>2. PICK f \in Names : f <= flushed - 1 /\ flushed - 1 < f + segs[f].size BY <2>1 DEF Tiles
  <2>3. f <= l BY <2>2 DEF Newest
  <2>4. CASE f = l BY <1>1, <1>2, <2>2, <2>4 DEF Numbers
  <2>5. CASE f < l
    <3>1. f + segs[f].size <= l BY <1>1, <2>2, <2>5 DEF Tiles
    <3> QED BY <1>1, <1>2, <2>2, <3>1 DEF Numbers
  <2> QED BY <1>1, <2>2, <2>3, <2>4, <2>5 DEF Numbers
<1> QED BY <1>1, <1>2 DEF Numbers

\* A reset leaves nothing to keep.
LEMMA EmptySound ==
    ASSUME TypeOK, Empty
    PROVE  Tiles' /\ FilesWhole' /\ OpenFile' /\ MarksHeld'
<1>1. Names' = {} /\ start' = received /\ flushed' = received /\ received' = received /\ marks' = {}
  BY EmptyDoes DEF TypeOK
<1>2. received \in Int BY TypedNumbers DEF Numbers
<1>3. start'..(flushed' - 1) = {} BY <1>1, <1>2
<1> QED BY <1>1, <1>2, <1>3 DEF Tiles, FilesWhole, OpenFile, MarksHeld

\* Giving up the files before cut keeps the tiling of the rest.
LEMMA DropSound ==
    ASSUME TypeOK, Tiles, MarksHeld, pc # "fail", pc' # "fail", NEW cut \in Names \cup {start}, DropBefore(cut),
           Restless, UNCHANGED <<flushed, received, closed>>
    PROVE  Tiles' /\ MarksHeld'
<1>0. Numbers BY TypedNumbers
<1>1. /\ start' = cut /\ Names' = {f \in Names : f >= cut} /\ \A f \in Names' : segs'[f] = segs[f]
      /\ marks' = {m \in marks : m.pos >= cut}
  BY DropDoes DEF TypeOK
<1>2. start <= cut /\ cut <= flushed BY <1>0 DEF Tiles, Numbers
<1>3. start' <= flushed' /\ flushed' <= received' BY <1>1, <1>2 DEF Tiles
<1>4. \A f \in Names' : /\ start' <= f /\ f < received' /\ f + segs'[f].size <= flushed'
                        /\ 0 < segs'[f].size
  BY <1>0, <1>1 DEF Tiles, Numbers
<1>5. \A f, g \in Names' : f < g => f + segs'[f].size <= g BY <1>1 DEF Tiles
<1>6. ASSUME NEW p \in start'..(flushed' - 1) PROVE \E f \in Names' : f <= p /\ p < f + segs'[f].size
  <2>1. p \in start..(flushed - 1) /\ cut <= p BY <1>0, <1>1, <1>2 DEF Numbers
  <2>2. PICK f \in Names : f <= p /\ p < f + segs[f].size BY <2>1 DEF Tiles
  <2>3. f >= cut
    <3>1. SUFFICES ASSUME f < cut PROVE FALSE BY <1>0 DEF Numbers
    <3>2. cut \in Names BY <1>0, <2>2, <3>1 DEF Tiles, Numbers
    <3>3. f + segs[f].size <= cut BY <2>2, <3>1, <3>2 DEF Tiles
    <3> QED BY <1>0, <2>1, <2>2, <3>2, <3>3 DEF Numbers
  <2> QED BY <1>1, <2>2, <2>3
<1>7. MarksHeld' BY <1>1 DEF MarksHeld
<1> QED BY <1>3, <1>4, <1>5, <1>6, <1>7 DEF Tiles

\* Removing files that are no longer held touches none that is.
LEMMA RemovalKeeps ==
    ASSUME TypeOK, Tiles, NEW S, \A f \in S : f < start, disk' = Without(disk, S), NEW f \in Int, f >= start, NEW at
    PROVE  Reaches(f, at) => f \in DOMAIN disk' /\ disk'[f] = disk[f]
<1>1. f \notin S BY TypedNumbers DEF Numbers
<1> QED BY <1>1, RemovedTyped DEF TypeOK, Reaches

LEMMA NewestHeld == ASSUME TypeOK, Tiles, NEW f, Newest(f) PROVE f \in Int /\ f >= start
BY TypedNumbers DEF Tiles, Newest, Numbers
-----------------------------------------------------------------------------
(* The steps of the flusher between reading what is pending and committing  *)

LEMMA TakeSound ==
    ASSUME TypeOK, ~closed, Sound, TakeBatch PROVE Sound'
<1>0. Numbers /\ Tiles /\ FilesWhole /\ OpenFile /\ Removers /\ MarksHeld /\ Idle BY TypedNumbers DEF Sound
<1>1. UNCHANGED <<tape, index, disk, removing, drop>> /\ pc = "take" BY DEF TakeBatch
<1>2. pc' # "fail" /\ pc' \in {"wait", "create", "write"} /\ file' = file BY DEF TakeBatch, Goes
<1>3. Tiles' BY <1>0, <1>1, <1>2 DEF Tiles
<1>4. FilesWhole' BY <1>0, <1>1 DEF FilesWhole, Reaches
<1>5. MarksHeld' BY <1>0, <1>1 DEF MarksHeld
<1>6. Removers' BY <1>0, <1>1, <1>2 DEF Removers
<1>7. OpenFile' BY <1>0, <1>1, <1>2 DEF OpenFile, Newest, Ends, Reaches
<1>8. JobFits'
  <2>1. CASE flushed = received BY <2>1 DEF TakeBatch, Goes, JobFits
  <2>2. CASE flushed # received
    <3>1. /\ job' = [gen |-> gen, first |-> flushed, upto |-> received, new |-> Rotates, at |-> now, ok |-> TRUE]
          /\ pc' = IF Rotates THEN "create" ELSE "write"
      BY <2>2 DEF TakeBatch
    <3>2. job'.gen = gen /\ job'.first = flushed /\ job'.upto = received /\ job'.new = Rotates BY <3>1
    <3>3. job'.gen = gen' /\ job'.first = flushed' /\ job'.upto = received' /\ flushed' < job'.upto /\ job'.upto <= received'
      BY <1>0, <1>1, <2>2, <3>2 DEF Tiles, Numbers
    <3>4. CASE Rotates
      <4>1. pc' = "create" /\ job'.new BY <3>1, <3>2, <3>4
      <4>2. JobOpen' BY <3>3, <4>1 DEF JobOpen
      <4>3. job'.gen <= gen' BY <1>0, <1>1, <3>3 DEF Numbers
      <4> QED BY <3>3, <4>2, <4>3 DEF JobFits
    <3>5. CASE ~Rotates
      <4>1. Newest(file) /\ Ends(flushed) BY <1>0, <1>1, <3>5 DEF Rotates, OpenFile
      <4>2. Newest(file)' /\ Ends(flushed)' BY <1>1, <1>2, <4>1 DEF Newest, Ends, Reaches
      <4>3. pc' = "write" /\ ~job'.new BY <3>1, <3>2, <3>5
      <4>4. JobOpen' BY <3>3, <4>2, <4>3 DEF JobOpen
      <4>5. job'.gen <= gen' BY <1>0, <1>1, <3>3 DEF Numbers
      <4> QED BY <3>3, <4>4, <4>5 DEF JobFits
    <3> QED BY <3>4, <3>5
  <2> QED BY <2>1, <2>2
<1>9. Idle'
  <2>1. UNCHANGED mode BY DEF TakeBatch
  <2>2. flushed = received => pc' = "wait" BY DEF TakeBatch, Goes
  <2> QED BY <1>0, <1>1, <2>1, <2>2 DEF Idle
<1> QED BY <1>3, <1>4, <1>5, <1>6, <1>7, <1>8, <1>9 DEF Sound

LEMMA CreateSound ==
    ASSUME TypeOK, ~closed, Sound, Create PROVE Sound'
<1>0. Numbers /\ Tiles /\ FilesWhole /\ JobFits /\ Removers /\ MarksHeld /\ Idle BY TypedNumbers DEF Sound
<1>1. UNCHANGED <<tape, index, removing, job, drop>> /\ pc = "create" BY DEF Create
<1>2. pc' \in {"write", "fail"} BY DEF Create
<1>3. Tiles'
  <2>1. Names' = Names /\ UNCHANGED <<start, flushed, received, segs>> BY <1>1
  <2> QED BY <1>0, <1>1, <2>1 DEF Tiles, Numbers
<1>4. MarksHeld' BY <1>0, <1>1 DEF MarksHeld
<1>5. Removers' BY <1>0, <1>1, <1>2 DEF Removers
<1>9. Idle' BY <1>0, <1>1 DEF Idle, Create
<1>6. CASE pc' = "fail"
  <2>1. file' = NoFile /\ disk' = disk BY <1>6 DEF Create
  <2>2. FilesWhole' BY <1>0, <1>1, <2>1 DEF FilesWhole, Reaches
  <2>3. OpenFile' BY <2>1 DEF OpenFile
  <2>4. JobFits' BY <1>0, <1>1, <1>6 DEF JobFits, JobOpen
  <2> QED BY <1>3, <1>4, <1>5, <1>9, <2>2, <2>3, <2>4 DEF Sound
<1>7. CASE pc' = "write"
  <2>1. disk' = With(disk, job.first, [to |-> job.first, whole |-> TRUE]) /\ file' = job.first
    BY <1>7 DEF Create
  <2>2. /\ job.first \in DOMAIN disk' /\ disk'[job.first] = [to |-> job.first, whole |-> TRUE]
        /\ \A f \in DOMAIN disk : f # job.first => f \in DOMAIN disk' /\ disk'[f] = disk[f]
    BY <2>1 DEF With
  <2>3. OpenFile' BY <1>7 DEF OpenFile
  <2>4. CASE gen = job.gen
    <3>1. flushed = job.first /\ job.new /\ flushed < job.upto /\ job.upto <= received
      BY <1>0, <1>1, <2>4 DEF JobFits, JobOpen
    <3>2. flushed \notin Names BY <1>0, <1>1 DEF Tiles, Numbers
    <3>3. Ends(flushed)' BY <1>0, <1>1, <2>1, <2>2, <3>1 DEF Ends, Reaches, Numbers
    <3>4. JobFits' BY <1>0, <1>1, <1>7, <2>1, <2>4, <3>1, <3>2, <3>3 DEF JobFits, JobOpen
    <3>5. FilesWhole' BY <1>0, <1>1, <2>2, <3>1, <3>2 DEF FilesWhole, Reaches
    <3> QED BY <1>3, <1>4, <1>5, <1>9, <2>3, <3>4, <3>5 DEF Sound
  <2>5. CASE gen # job.gen
    <3>1. Names = {} /\ job.gen <= gen BY <1>0, <1>1, <2>5 DEF JobFits
    <3>2. FilesWhole' BY <1>1, <3>1 DEF FilesWhole
    <3>3. JobFits' BY <1>1, <2>5, <3>1 DEF JobFits
    <3> QED BY <1>3, <1>4, <1>5, <1>9, <2>3, <3>2, <3>3 DEF Sound
  <2> QED BY <2>4, <2>5
<1> QED BY <1>2, <1>6, <1>7
LEMMA IndexKept ==
    ASSUME TypeOK, Tiles, MarksHeld, UNCHANGED <<tape, index>>, pc # "fail" \/ Names = {} \/ pc' = "fail"
    PROVE  Tiles' /\ MarksHeld'
<1>0. Numbers BY TypedNumbers
<1>1. Names' = Names /\ UNCHANGED <<start, flushed, received, segs, marks>> OBVIOUS
<1>2. \A f \in Names : IF pc' = "fail" THEN 0 <= segs[f].size ELSE 0 < segs[f].size
  BY <1>0 DEF Tiles, Numbers
<1>3. Tiles' BY <1>0, <1>1, <1>2 DEF Tiles, Numbers
<1>4. MarksHeld' BY <1>1 DEF MarksHeld
<1> QED BY <1>3, <1>4

LEMMA WriteSound ==
    ASSUME TypeOK, ~closed, Sound, Write PROVE Sound'
<1>0. Numbers /\ Tiles /\ FilesWhole /\ JobFits /\ Removers /\ MarksHeld /\ Idle BY TypedNumbers DEF Sound
<1>1. UNCHANGED <<tape, index, removing, file, drop>> /\ pc = "write" /\ pc' = "commit" BY DEF Write
<1>2. Tiles' /\ MarksHeld' BY <1>0, <1>1, IndexKept
<1>3. Removers' BY <1>0, <1>1 DEF Removers
<1>4. OpenFile' /\ Idle' BY <1>0, <1>1 DEF OpenFile, Idle, Write
<1>5. PICK n \in Int : /\ WriteTo(n)
                       /\ \/ job' = job /\ n = job.upto - job.first
                          \/ job' = [job EXCEPT !.ok = FALSE] /\ n >= 0
  <2>1. job.upto - job.first \in Int BY <1>0 DEF Numbers
  <2>2. CASE WriteTo(job.upto - job.first) /\ job' = job BY <2>1, <2>2
  <2>3. ASSUME NEW n \in 0..(job.upto - job.first), WriteTo(n), job' = [job EXCEPT !.ok = FALSE]
        PROVE \E m \in Int : WriteTo(m) /\ job' = [job EXCEPT !.ok = FALSE] /\ m >= 0
    <3>1. n \in Int /\ n >= 0 BY <2>1
    <3> QED BY <2>3, <3>1
  <2> QED BY <2>2, <2>3 DEF Write
<1>6. job'.gen = job.gen /\ job'.first = job.first /\ job'.upto = job.upto /\ job'.new = job.new
  BY <1>5 DEF TypeOK, FlusherTyped
<1>7. CASE gen # job.gen
  <2>1. Names = {} /\ job.gen <= gen BY <1>0, <1>1, <1>7 DEF JobFits
  <2>2. FilesWhole' BY <1>1, <2>1 DEF FilesWhole
  <2>3. JobFits' BY <1>1, <1>6, <1>7, <2>1 DEF JobFits
  <2> QED BY <1>2, <1>3, <1>4, <2>2, <2>3 DEF Sound
<1>8. CASE gen = job.gen
  <2>1. /\ JobOpen /\ job.first = flushed /\ flushed < job.upto /\ Ends(flushed)
        /\ IF job.new THEN file = flushed /\ file \notin Names ELSE Newest(file)
    BY <1>0, <1>1, <1>8 DEF JobFits, JobOpen
  <2>2. file \in DOMAIN disk /\ disk[file].whole /\ disk[file].to = flushed BY <2>1 DEF Ends, Reaches
  <2>3. disk' = [disk EXCEPT ![file] = [to |-> disk[file].to + n, whole |-> disk[file].whole /\ disk[file].to = job.first]]
    BY <1>5, <2>2 DEF WriteTo
  <2>4. DOMAIN disk' = DOMAIN disk /\ (\A f \in DOMAIN disk : f # file => disk'[f] = disk[f])
    BY <2>3
  <2>5. disk'[file].whole /\ disk'[file].to = flushed + n BY <2>1, <2>2, <2>3
  <2>6. n >= 0 BY <1>0, <1>5, <2>1 DEF Numbers
  <2>7. Reaches(file, flushed)' BY <1>0, <1>1, <2>2, <2>4, <2>5, <2>6 DEF Reaches, Numbers
  <2>8. job'.ok => Ends(job.upto)'
    <3>1. SUFFICES ASSUME job'.ok PROVE Ends(job.upto)' OBVIOUS
    <3>2. job' = job /\ n = job.upto - job.first
      <4>1. job' # [job EXCEPT !.ok = FALSE] BY <3>1 DEF TypeOK, FlusherTyped
      <4> QED BY <1>5, <4>1
    <3> QED BY <1>0, <1>1, <1>6, <2>1, <2>2, <2>4, <2>5, <3>2 DEF Ends, Reaches, Numbers
  <2>9. JobOpen'
    <3>1. job'.first = flushed' /\ flushed' < job'.upto /\ job'.upto <= received'
      BY <1>0, <1>1, <1>6, <2>1 DEF JobOpen
    <3>2. IF job'.new THEN file' = flushed' /\ file' \notin Names' ELSE Newest(file)'
      BY <1>1, <1>6, <2>1 DEF Newest
    <3> QED BY <1>1, <2>7, <2>8, <3>1, <3>2 DEF JobOpen
  <2>10. JobFits' BY <1>0, <1>1, <1>6, <1>8, <2>9 DEF JobFits
  <2>11. FilesWhole'
    <3>1. SUFFICES ASSUME NEW f \in Names PROVE Reaches(f, f + segs[f].size)' BY <1>1 DEF FilesWhole
    <3>2. Reaches(f, f + segs[f].size) BY <1>0 DEF FilesWhole
    <3>3. CASE f # file BY <1>1, <2>4, <3>2, <3>3 DEF Reaches
    <3>4. CASE f = file
      BY <1>0, <1>1, <2>2, <2>4, <2>5, <2>6, <3>2, <3>4 DEF Reaches, Numbers
    <3> QED BY <3>3, <3>4
  <2> QED BY <1>2, <1>3, <1>4, <2>10, <2>11 DEF Sound
<1> QED BY <1>7, <1>8

LEMMA WriteFailedSound ==
    ASSUME TypeOK, ~closed, Sound, Commit, WriteFailed PROVE Sound'
<1>0. Numbers /\ Tiles /\ FilesWhole /\ JobFits /\ Removers /\ MarksHeld /\ Idle BY TypedNumbers DEF Sound
<1>1. /\ UNCHANGED <<tape, gen, marks, disk, drop, removing, job>> /\ pc = "commit" /\ pc' = "fail"
      /\ file' = NoFile /\ segs' = Grown /\ gen = job.gen
  BY DEF Commit, WriteFailed
<1>2. /\ JobOpen /\ job.first = flushed /\ flushed < received /\ Reaches(file, flushed)
      /\ IF job.new THEN file = flushed /\ file \notin Names ELSE Newest(file)
  BY <1>0, <1>1 DEF JobFits, JobOpen, Numbers
<1>3. OpenFile' /\ Idle' BY <1>0, <1>1 DEF OpenFile, Idle, Commit
<1>4. Removers' BY <1>0, <1>1 DEF Removers
<1>5. MarksHeld' BY <1>0, <1>1 DEF MarksHeld
<1>6. JobFits' BY <1>0, <1>1, <1>2 DEF JobFits, JobOpen, Numbers
<1>7. CASE ~job.new
  <2>1. segs' = segs /\ Names' = Names BY <1>1, <1>7 DEF Grown
  <2>2. Tiles' BY <1>0, <1>1, <2>1 DEF Tiles, Numbers
  <2>3. FilesWhole' BY <1>0, <1>1, <2>1 DEF FilesWhole, Reaches
  <2> QED BY <1>3, <1>4, <1>5, <1>6, <2>2, <2>3 DEF Sound
<1>8. CASE job.new
  <2>1. segs' = With(segs, flushed, [size |-> 0, opened |-> job.at]) BY <1>1, <1>2, <1>8 DEF Grown
  <2>2. /\ flushed \notin Names /\ Names' = Names \cup {flushed} /\ segs'[flushed].size = 0
        /\ \A f \in Names : segs'[f] = segs[f]
    BY <1>2, <1>8, <2>1 DEF With
  <2>3. \A f \in Names' :
          /\ start <= f /\ f < received /\ f + segs'[f].size <= flushed /\ 0 <= segs'[f].size
    BY <1>0, <1>1, <1>2, <2>2 DEF Tiles, Numbers
  <2>4. \A f, g \in Names' : f < g => f + segs'[f].size <= g
    <3>1. \A f \in Names : f < flushed BY <1>0, <1>1 DEF Tiles, Numbers
    <3> QED BY <1>0, <2>2, <3>1 DEF Tiles, Numbers
  <2>5. \A p \in start..(flushed - 1) : \E f \in Names' : f <= p /\ p < f + segs'[f].size
    BY <1>0, <2>2 DEF Tiles
  <2>6. Tiles' BY <1>0, <1>1, <2>3, <2>4, <2>5 DEF Tiles, Numbers
  <2>7. FilesWhole'
    <3>1. \A f \in Names : Reaches(f, f + segs[f].size)' BY <1>0, <1>1, <2>2 DEF FilesWhole, Reaches
    <3>2. Reaches(flushed, flushed + segs[flushed].size)'
      BY <1>0, <1>1, <1>2, <1>8, <2>2 DEF Reaches, Numbers
    <3> QED BY <2>2, <3>1, <3>2, <1>1 DEF FilesWhole
  <2> QED BY <1>3, <1>4, <1>5, <1>6, <2>6, <2>7 DEF Sound
<1> QED BY <1>7, <1>8
LEMMA CommittedSound ==
    ASSUME TypeOK, ~closed, Sound, Commit, Committed PROVE Sound'
<1>0. Numbers /\ Tiles /\ FilesWhole /\ JobFits /\ Removers /\ MarksHeld /\ Idle BY TypedNumbers DEF Sound
<1>1. /\ UNCHANGED <<received, closed, gen, file, disk, removing, job>> /\ pc = "commit" /\ pc' = "remove"
      /\ gen = job.gen /\ job.ok /\ flushed' = flushed + job.upto - job.first
  BY DEF Commit, Committed
<1>2. /\ JobOpen /\ job.first = flushed /\ flushed < job.upto /\ job.upto <= received
      /\ IF job.new THEN file = flushed /\ file \notin Names ELSE Newest(file)
      /\ Ends(job.upto)
  BY <1>0, <1>1 DEF JobFits, JobOpen, Numbers
<1>3. flushed' = job.upto BY <1>0, <1>1, <1>2 DEF Numbers
<1>4. PICK last \in DOMAIN Grown, cut \in DOMAIN Grown \cup {start} :
          /\ \A f \in DOMAIN Grown : f <= last
          /\ segs' = [f \in {g \in DOMAIN Grown : g >= cut} |->
                        IF f = last THEN [Grown[f] EXCEPT !.size = @ + job.upto - job.first] ELSE Grown[f]]
          /\ marks' = {m \in marks : m.pos >= cut}
          /\ start' = cut
          /\ drop' = {f \in DOMAIN Grown : f < cut}
  BY DEF Committed
\* The files before the batch, and the one it went to.
<1>5. /\ DOMAIN Grown \subseteq Int /\ file \in DOMAIN Grown
      /\ \A f \in DOMAIN Grown : f # file => f \in Names /\ Grown[f] = segs[f]
      /\ Grown[file].size \in Int /\ file + Grown[file].size = flushed /\ 0 <= Grown[file].size
      /\ Grown[file] \in [size : Int, opened : Nat]
  <2>1. CASE job.new
    <3>1. Grown = With(segs, flushed, [size |-> 0, opened |-> job.at]) BY <1>2, <2>1 DEF Grown
    <3>2. job.at \in Nat BY DEF TypeOK, FlusherTyped
    <3> QED BY <1>0, <1>2, <2>1, <3>1, <3>2 DEF With, Numbers
  <2>2. CASE ~job.new
    <3>1. Grown = segs /\ Newest(file) BY <1>2, <2>2 DEF Grown
    <3>2. file + segs[file].size = flushed BY <1>0, <3>1, NewestEnds
    <3> QED BY <1>0, <1>1, <3>1, <3>2 DEF Newest, Numbers, Tiles, TypeOK, IndexTyped
  <2> QED BY <2>1, <2>2
<1>6. \A f \in DOMAIN Grown : start <= f /\ f <= file
  <2>1. start <= file /\ file <= flushed BY <1>0, <1>2, <1>5 DEF Tiles, Numbers, Newest
  <2>2. ASSUME NEW f \in DOMAIN Grown, f # file PROVE start <= f /\ f <= file
    <3>1. f \in Names BY <1>5, <2>2
    <3>2. CASE job.new BY <1>0, <1>1, <1>2, <3>1, <3>2 DEF Tiles, Numbers
    <3>3. CASE ~job.new BY <1>0, <1>2, <3>1, <3>3 DEF Tiles, Newest
    <3> QED BY <3>2, <3>3
  <2> QED BY <1>0, <2>1, <2>2 DEF Numbers
<1>7. last = file BY <1>4, <1>5, <1>6
<1>8. cut \in Int /\ start <= cut /\ cut <= file BY <1>0, <1>4, <1>5, <1>6 DEF Numbers
<1>9. /\ Names' = {g \in DOMAIN Grown : g >= cut} /\ file \in Names'
      /\ segs'[file].size = Grown[file].size + job.upto - job.first
      /\ \A f \in Names' : f # file => f \in Names /\ segs'[f] = segs[f]
  BY <1>0, <1>4, <1>5, <1>7, <1>8 DEF Numbers
<1>10. file + segs'[file].size = job.upto BY <1>0, <1>2, <1>5, <1>9 DEF Numbers
<1>11. segs'[file].size \in Int /\ 0 < segs'[file].size BY <1>0, <1>2, <1>5, <1>9 DEF Numbers
<1>12. file <= flushed /\ file < received BY <1>0, <1>2, <1>5 DEF Numbers
<1>13. \A f \in Names' : /\ start' <= f /\ f < received' /\ f + segs'[f].size <= flushed'
                         /\ 0 < segs'[f].size
  <2>1. SUFFICES ASSUME NEW f \in Names'
                 PROVE start' <= f /\ f < received' /\ f + segs'[f].size <= flushed' /\ 0 < segs'[f].size
    OBVIOUS
  <2>2. CASE f = file BY <1>0, <1>1, <1>2, <1>3, <1>4, <1>8, <1>10, <1>11, <1>12, <2>2 DEF Numbers
  <2>3. CASE f # file
    <3>1. f \in Names /\ segs'[f] = segs[f] /\ cut <= f BY <1>9, <2>3
    <3>2. f < received /\ f + segs[f].size <= flushed /\ 0 < segs[f].size BY <1>0, <1>1, <3>1 DEF Tiles
    <3>3. f \in Int /\ segs[f].size \in Int BY <1>0, <3>1 DEF Numbers
    <3>4. f + segs[f].size <= job.upto BY <1>0, <1>2, <3>2, <3>3 DEF Numbers
    <3> QED BY <1>1, <1>3, <1>4, <3>1, <3>2, <3>4
  <2> QED BY <2>2, <2>3
<1>14. \A f, g \in Names' : f < g => f + segs'[f].size <= g
  <2>1. SUFFICES ASSUME NEW f \in Names', NEW g \in Names', f < g PROVE f + segs'[f].size <= g
    OBVIOUS
  <2>2. g <= file /\ f \in Int /\ g \in Int /\ f # file BY <1>0, <1>5, <1>6, <1>9, <2>1 DEF Numbers
  <2>3. f \in Names /\ segs'[f] = segs[f] BY <1>9, <2>2
  <2>4. CASE g \in Names BY <1>0, <2>1, <2>3, <2>4 DEF Tiles
  <2>5. CASE g \notin Names
    <3>1. g = file /\ job.new BY <1>2, <1>9, <2>5 DEF Newest
    <3> QED BY <1>0, <1>2, <2>3, <3>1 DEF Tiles
  <2> QED BY <2>4, <2>5
<1>15. ASSUME NEW p \in start'..(flushed' - 1) PROVE \E f \in Names' : f <= p /\ p < f + segs'[f].size
  <2>1. p \in Int /\ cut <= p /\ p < job.upto BY <1>0, <1>3, <1>4, <1>8 DEF Numbers
  <2>2. CASE file <= p BY <1>9, <1>10, <2>1, <2>2
  <2>3. CASE p < file
    <3>1. p \in start..(flushed - 1) BY <1>0, <1>8, <1>12, <2>1, <2>3 DEF Numbers
    <3>2. PICK f \in Names : f <= p /\ p < f + segs[f].size BY <1>0, <3>1 DEF Tiles
    <3>3. f \in Int /\ f # file /\ f \in DOMAIN Grown
      BY <1>0, <2>1, <2>3, <3>2 DEF Numbers, Grown, With
    <3>4. cut <= f
      <4>1. SUFFICES ASSUME f < cut PROVE FALSE BY <1>0, <1>5, <1>8, <3>3, <1>4 DEF Numbers
      <4>2. f + segs[f].size <= cut
        <5>1. CASE cut \in Names BY <1>0, <3>2, <4>1, <5>1 DEF Tiles
        <5>2. CASE cut = start BY <1>0, <3>2, <3>3, <4>1, <5>2 DEF Tiles, Numbers
        <5>3. CASE cut \notin Names /\ cut # start
          <6>1. cut = file /\ job.new BY <1>2, <1>4, <1>5, <5>3 DEF Newest
          <6> QED BY <1>0, <1>2, <3>2, <6>1 DEF Tiles
        <5> QED BY <5>1, <5>2, <5>3
      <4> QED BY <1>0, <1>4, <1>5, <2>1, <3>2, <3>3, <4>2 DEF Numbers
    <3>5. f \in Names' /\ segs'[f] = segs[f] BY <1>5, <1>9, <3>3, <3>4
    <3> QED BY <3>2, <3>5
  <2> QED BY <1>0, <2>1, <2>2, <2>3 DEF Numbers
<1>16. Tiles'
  <2>1. start' <= flushed' /\ flushed' <= received'
    BY <1>0, <1>1, <1>2, <1>3, <1>4, <1>5, <1>8, <1>12 DEF Numbers
  <2> QED BY <1>1, <1>13, <1>14, <1>15, <2>1 DEF Tiles
<1>17. FilesWhole'
  <2>1. SUFFICES ASSUME NEW f \in Names' PROVE Reaches(f, f + segs[f].size)' BY DEF FilesWhole
  <2>2. CASE f = file BY <1>1, <1>2, <1>10, <2>2 DEF Ends, Reaches
  <2>3. CASE f # file BY <1>0, <1>1, <1>9, <2>3 DEF FilesWhole, Reaches
  <2> QED BY <2>2, <2>3
<1>18. OpenFile'
  <2>1. Newest(file)' BY <1>1, <1>6, <1>9 DEF Newest
  <2>2. Ends(flushed)' BY <1>1, <1>2, <1>3 DEF Ends, Reaches
  <2> QED BY <2>1, <2>2 DEF OpenFile
<1>19. JobFits' BY <1>1 DEF JobFits
<1>20. Removers'
  <2>1. \A f \in removing' \cup drop' : f < start'
    <3>1. \A f \in removing : f \in Int BY DEF TypeOK, FlusherTyped
    <3> QED BY <1>0, <1>1, <1>4, <1>5, <1>8, <3>1 DEF Removers, Numbers
  <2> QED BY <1>1, <2>1 DEF Removers
<1>21. MarksHeld' BY <1>0, <1>1, <1>4 DEF MarksHeld, Numbers
<1>22. Idle' BY <1>0, <1>1 DEF Idle, Commit
<1> QED BY <1>16, <1>17, <1>18, <1>19, <1>20, <1>21, <1>22 DEF Sound

LEMMA CommitSound ==
    ASSUME TypeOK, ~closed, Sound, Commit PROVE Sound'
<1>0. Numbers /\ Tiles /\ JobFits /\ Removers /\ MarksHeld /\ Idle BY TypedNumbers DEF Sound
<1>1. CASE Resetted
  <2>1. /\ UNCHANGED <<tape, index, drop, removing, job>> /\ pc = "commit" /\ pc' = "wait" /\ gen # job.gen
    BY <1>1 DEF Commit, Resetted
  <2>2. Names = {} /\ Names' = {} BY <1>0, <2>1 DEF JobFits
  <2>3. Tiles' /\ MarksHeld' BY <1>0, <2>1, IndexKept
  <2>4. FilesWhole' /\ OpenFile' BY <2>2 DEF FilesWhole, OpenFile
  <2>5. JobFits' /\ Removers' /\ Idle' BY <1>0, <2>1 DEF JobFits, Removers, Idle, Commit
  <2> QED BY <2>3, <2>4, <2>5 DEF Sound
<1> QED BY <1>1, WriteFailedSound, CommittedSound DEF Commit
-----------------------------------------------------------------------------
(* The other steps                                                          *)

LEMMA AppendSound ==
    ASSUME TypeOK, ~closed, Sound, NEW n \in 1..MaxChunk, Append(n) PROVE Sound'
<1>0. Numbers /\ Tiles /\ FilesWhole /\ OpenFile /\ JobFits /\ Removers /\ MarksHeld /\ Idle BY TypedNumbers DEF Sound
<1>1. UNCHANGED <<closed, mode, disk, flusher, now, turns>> /\ n \in Int /\ n > 0 BY DEF Append, AppendKept, AppendLost
<1>2. CASE AppendKept(n)
  <2>1. /\ UNCHANGED <<start, flushed, gen, segs, removing>> /\ received' = received + n
        /\ marks' = marks \/ marks' = marks \cup {[at |-> now, pos |-> received]}
    BY <1>2 DEF AppendKept, NewMark
  <2>2. Tiles' BY <1>0, <1>1, <2>1 DEF Tiles, Numbers
  <2>3. FilesWhole' BY <1>0, <1>1, <2>1 DEF FilesWhole, Reaches
  <2>4. OpenFile' BY <1>0, <1>1, <2>1 DEF OpenFile, Newest, Ends, Reaches
  <2>5. JobFits'
    <3>1. CASE gen = job.gen
      <4>1. JobOpen => JobOpen' BY <1>0, <1>1, <2>1 DEF JobOpen, Newest, Ends, Reaches, Numbers
      <4> QED BY <1>0, <1>1, <2>1, <3>1, <4>1 DEF JobFits
    <3>2. CASE gen # job.gen BY <1>0, <1>1, <2>1, <3>2 DEF JobFits
    <3> QED BY <3>1, <3>2
  <2>6. Removers' BY <1>0, <1>1, <2>1 DEF Removers
  <2>7. MarksHeld' BY <1>0, <1>1, <2>1 DEF MarksHeld, Numbers, Tiles
  <2>8. Idle' BY <1>1, <1>2 DEF Idle, AppendKept, Kept
  <2> QED BY <2>2, <2>3, <2>4, <2>5, <2>6, <2>7, <2>8 DEF Sound
<1>3. CASE AppendLost(n)
  <2>1. received' = received + n /\ start' = received' /\ flushed' = received' BY <1>3 DEF AppendLost, StartOver
  <2>2. start' \in Int /\ start < start' BY <1>0, <1>1, <2>1 DEF Tiles, Numbers
  <2>3. start'..(flushed' - 1) = {} BY <1>0, <1>1, <2>1 DEF Numbers
  <2>4. CASE low \/ off
    <3>1. UNCHANGED <<index, removing>> BY <1>1, <1>3, <2>4 DEF AppendLost
    <3>2. Names' = {} /\ marks' = {} /\ pc' \notin {"create", "write", "commit", "fail"}
      BY <1>0, <1>1, <2>4, <3>1 DEF Idle
    <3>3. Tiles' BY <2>1, <2>2, <2>3, <1>0, <1>1, <3>2 DEF Tiles, Numbers
    <3>4. FilesWhole' /\ OpenFile' /\ MarksHeld' /\ JobFits' /\ Idle'
      BY <2>1, <3>2 DEF FilesWhole, OpenFile, MarksHeld, JobFits, Idle
    <3>5. \A f \in removing \cup drop : f \in Int BY DEF TypeOK, FlusherTyped
    <3>6. Removers' BY <1>0, <1>1, <2>2, <3>1, <3>2, <3>5 DEF Removers, Numbers
    <3> QED BY <3>3, <3>4, <3>6 DEF Sound
  <2>5. CASE ~low /\ ~off
    <3>1. ResetLocked /\ removing' = removing \cup Names BY <1>1, <1>3, <2>5 DEF AppendLost
    <3>2. Names' = {} /\ gen' = gen + 1 /\ marks' = {} BY <3>1 DEF ResetLocked
    <3>3. Tiles' BY <1>0, <1>1, <2>1, <2>3, <3>2 DEF Tiles, Numbers
    <3>4. FilesWhole' /\ OpenFile' /\ MarksHeld' BY <3>2 DEF FilesWhole, OpenFile, MarksHeld
    <3>5. JobFits' BY <1>0, <1>1, <3>2 DEF JobFits, Numbers
    <3>6. Removers'
      <4>1. \A f \in Names : f < start' BY <1>0, <1>1, <2>1 DEF Tiles, Numbers
      <4>2. \A f \in removing \cup drop : f \in Int BY DEF TypeOK, FlusherTyped
      <4>3. \A f \in removing \cup drop : f < start' BY <1>0, <2>2, <4>2 DEF Removers, Numbers
      <4> QED BY <1>0, <1>1, <3>1, <3>2, <4>1, <4>3 DEF Removers
    <3>7. Idle' BY <1>1, <2>5 DEF Idle
    <3> QED BY <3>3, <3>4, <3>5, <3>6, <3>7 DEF Sound
  <2> QED BY <2>4, <2>5
<1> QED BY <1>2, <1>3 DEF Append
\* What removes files no longer held, between the sections of the flusher.
LEMMA RemovedSound ==
    ASSUME TypeOK, ~closed, Sound, NEW S \in SUBSET (removing \cup drop), disk' = Without(disk, S),
           UNCHANGED <<tape, index, mode, file, job>>, removing' \subseteq removing,
           \/ pc' = pc /\ drop' = drop
           \/ pc \in {"remove", "failed"} /\ drop' = {} /\ pc' \in {"take", "wait"}
    PROVE  Sound'
<1>0. Numbers /\ Tiles /\ FilesWhole /\ OpenFile /\ JobFits /\ Removers /\ MarksHeld /\ Idle BY TypedNumbers DEF Sound
<1>1. Tiles' /\ MarksHeld' BY <1>0, IndexKept
<1>2. \A f \in S : f < start BY <1>0 DEF Removers
<1>3. \A f \in Names : f \in Int /\ f >= start BY <1>0 DEF Tiles, Numbers
<1>4. \A f \in Int, at \in Int : f >= start /\ Reaches(f, at) => f \in DOMAIN disk' /\ disk'[f] = disk[f]
  BY <1>0, <1>2, RemovalKeeps
<1>5. FilesWhole'
  <2>1. \A f \in Names : f + segs[f].size \in Int BY <1>0, <1>3 DEF Numbers
  <2> QED BY <1>0, <1>3, <1>4, <2>1 DEF FilesWhole, Reaches
<1>6. ASSUME NEW at \in Int, Ends(at), file >= start PROVE Ends(at)'
  BY <1>0, <1>4, <1>6 DEF Ends, Reaches, Numbers
<1>7. Newest(file) => Newest(file)' /\ file >= start BY <1>3 DEF Newest
<1>8. OpenFile' BY <1>0, <1>6, <1>7 DEF OpenFile, Numbers
<1>9. JobFits'
  <2>1. CASE gen # job.gen BY <1>0, <2>1 DEF JobFits
  <2>2. CASE gen = job.gen /\ pc' \in {"create", "write", "commit", "fail"}
    <3>1. JobOpen /\ job.gen <= gen /\ pc' = pc BY <1>0, <2>2 DEF JobFits
    <3>2. pc \in {"write", "commit"} => file >= start
      BY <1>0, <1>7, <3>1 DEF JobOpen, Tiles, Numbers
    <3>3. pc = "commit" => Reaches(file, flushed)' BY <1>0, <1>4, <3>1, <3>2 DEF JobOpen, Reaches, Numbers
    <3>4. JobOpen' BY <1>0, <1>6, <1>7, <3>1, <3>2, <3>3 DEF JobOpen, Numbers
    <3> QED BY <2>2, <3>1, <3>4 DEF JobFits
  <2> QED BY <2>1, <2>2 DEF JobFits
<1>10. Removers' /\ Idle' BY <1>0 DEF Removers, Idle
<1> QED BY <1>1, <1>5, <1>8, <1>9, <1>10 DEF Sound
LEMMA CheckWindowSound ==
    ASSUME TypeOK, ~closed, Sound, CheckWindow PROVE Sound'
<1>0. Numbers /\ Tiles /\ FilesWhole /\ OpenFile /\ JobFits /\ Removers /\ MarksHeld /\ Idle BY TypedNumbers DEF Sound
<1>1. UNCHANGED <<low, disk, removing, file, job>> /\ pc = "window" /\ pc' = "room" BY DEF CheckWindow, Goes
<1>2. PICK w \in Windows : WindowSet(w) BY DEF CheckWindow
<1>3. JobFits' BY <1>1 DEF JobFits
<1>4. drop = {} BY <1>0, <1>1 DEF Removers
<1>5. CASE w = 0 /\ ~off
  <2>1. Empty /\ off' = TRUE /\ drop' = Names BY <1>2, <1>5 DEF WindowSet
  <2>2. Tiles' /\ FilesWhole' /\ OpenFile' /\ MarksHeld' BY <2>1, EmptySound
  <2>3. Names' = {} /\ marks' = {} /\ start' = received /\ flushed' = received /\ received' = received
    BY <2>1, EmptyDoes DEF TypeOK
  <2>4. Idle' BY <1>1, <2>3 DEF Idle
  <2>5. \A f \in removing' \cup drop' : f < start'
    <3>1. \A f \in removing : f \in Int BY DEF TypeOK, FlusherTyped
    <3> QED BY <1>0, <1>1, <2>1, <2>3, <3>1 DEF Removers, Tiles, Numbers
  <2>6. Removers' BY <1>1, <2>5 DEF Removers
  <2> QED BY <1>3, <2>2, <2>4, <2>6 DEF Sound
<1>6. CASE w = 0 /\ off
  <2>1. UNCHANGED <<tape, index, off, drop>> BY <1>2, <1>6 DEF WindowSet
  <2>2. Tiles' /\ MarksHeld' BY <1>0, <1>1, <2>1, IndexKept
  <2>3. FilesWhole' /\ OpenFile' BY <1>0, <1>1, <2>1 DEF FilesWhole, OpenFile, Reaches, Ends, Newest
  <2>4. Removers' /\ Idle' BY <1>0, <1>1, <2>1 DEF Removers, Idle
  <2> QED BY <1>3, <2>2, <2>3, <2>4 DEF Sound
<1>7. CASE w > 0
  <2>1. PICK cut \in Names \cup {start} : DropBefore(cut) BY <1>2, <1>7 DEF WindowSet
  <2>2. Restless /\ UNCHANGED <<flushed, received, closed>> /\ off' = FALSE BY <1>2, <1>7 DEF WindowSet
  <2>3. Tiles' /\ MarksHeld' BY <1>0, <1>1, <2>1, <2>2, DropSound
  <2>4. /\ start' = cut /\ drop' = {f \in Names : f < cut} /\ marks' \subseteq marks
        /\ Names' = {f \in Names : f >= cut} /\ \A f \in Names' : segs'[f] = segs[f]
    BY <2>1, <2>2, DropDoes DEF TypeOK
  <2>5. FilesWhole' BY <1>0, <1>1, <2>4 DEF FilesWhole, Reaches
  <2>6. OpenFile'
    <3>1. Newest(file) /\ Names' # {} => Newest(file)' BY <1>0, <1>1, <2>4 DEF Newest, Numbers
    <3> QED BY <1>0, <1>1, <2>2, <2>4, <3>1 DEF OpenFile, Ends, Reaches
  <2>7. Removers'
    <3>1. \A f \in removing : f \in Int BY DEF TypeOK, FlusherTyped
    <3>2. start <= cut /\ cut \in Int BY <1>0 DEF Tiles, Numbers
    <3>3. \A f \in removing' \cup drop' : f < start' BY <1>0, <1>1, <2>4, <3>1, <3>2 DEF Removers, Numbers
    <3> QED BY <1>1, <3>3 DEF Removers
  <2>8. Idle' BY <1>0, <1>1, <2>2, <2>4 DEF Idle
  <2> QED BY <1>3, <2>3, <2>5, <2>6, <2>7, <2>8 DEF Sound
<1> QED BY <1>2, <1>5, <1>6, <1>7 DEF WindowSet, RingAssumption

LEMMA CheckRoomSound ==
    ASSUME TypeOK, ~closed, Sound, CheckRoom PROVE Sound'
<1>0. Numbers /\ Tiles /\ FilesWhole /\ OpenFile /\ JobFits /\ Removers /\ MarksHeld /\ Idle BY TypedNumbers DEF Sound
<1>1. UNCHANGED <<off, removing, file, job>> /\ pc = "room" /\ pc' = "remove" /\ disk' = Without(disk, drop)
  BY DEF CheckRoom, Goes, RemoveDropped
<1>2. JobFits' BY <1>1 DEF JobFits
<1>3. \A f \in drop : f < start BY <1>0 DEF Removers
<1>4. \A f \in removing : f \in Int /\ f < start BY <1>0 DEF TypeOK, FlusherTyped, Removers
<1>5. \A f \in Names : f \in Int /\ f >= start BY <1>0 DEF Tiles, Numbers
<1>6. \A f \in Int, at \in Int : f >= start /\ Reaches(f, at) => f \in DOMAIN disk' /\ disk'[f] = disk[f]
  BY <1>0, <1>1, <1>3, RemovalKeeps
<1>7. \A f \in Names : f \in DOMAIN disk' /\ disk'[f].whole /\ f + segs[f].size <= disk'[f].to
  <2>1. \A f \in Names : f + segs[f].size \in Int BY <1>0, <1>5 DEF Numbers
  <2> QED BY <1>0, <1>5, <1>6, <2>1 DEF FilesWhole, Reaches
<1>8. file # NoFile /\ Names # {} =>
        /\ Newest(file)
        /\ file \in DOMAIN disk' /\ disk'[file].whole /\ disk'[file].to = flushed
  BY <1>0, <1>1, <1>5, <1>6 DEF OpenFile, Ends, Reaches, Newest, Numbers
<1>9. ASSUME UNCHANGED <<tape, index>>, drop' = {}, low' => low PROVE Sound'
  <2>1. Tiles' /\ MarksHeld' BY <1>0, <1>1, <1>9, IndexKept
  <2>2. FilesWhole' BY <1>7, <1>9 DEF FilesWhole, Reaches
  <2>3. OpenFile' BY <1>0, <1>1, <1>8, <1>9 DEF OpenFile, Ends, Reaches, Newest, Numbers
  <2>4. Removers' BY <1>1, <1>4, <1>9 DEF Removers
  <2>5. Idle' BY <1>0, <1>1, <1>9 DEF Idle
  <2> QED BY <1>2, <2>1, <2>2, <2>3, <2>4, <2>5 DEF Sound
<1>10. ASSUME NEW cut \in Names, DropBefore(cut), Restless, UNCHANGED <<flushed, received, closed, low>>
       PROVE Sound'
  <2>1. Tiles' /\ MarksHeld' BY <1>0, <1>1, <1>10, DropSound
  <2>2. /\ start' = cut /\ drop' = {f \in Names : f < cut} /\ marks' \subseteq marks
        /\ Names' = {f \in Names : f >= cut} /\ \A f \in Names' : segs'[f] = segs[f]
    BY <1>10, DropDoes DEF TypeOK
  <2>3. FilesWhole' BY <1>7, <2>2 DEF FilesWhole, Reaches
  <2>4. OpenFile'
    <3>1. Newest(file) /\ Names' # {} => Newest(file)' BY <1>0, <1>1, <2>2 DEF Newest, Numbers
    <3> QED BY <1>0, <1>1, <1>8, <1>10, <2>2, <3>1 DEF OpenFile, Ends, Reaches, Numbers
  <2>5. \A f \in removing' \cup drop' : f < start' BY <1>0, <1>1, <1>4, <1>5, <2>2 DEF Numbers
  <2>6. Removers' BY <1>1, <2>5 DEF Removers
  <2>7. Idle' BY <1>0, <1>1, <1>10 DEF Idle
  <2> QED BY <1>2, <2>1, <2>3, <2>4, <2>6, <2>7 DEF Sound
<1>11. ASSUME Empty, drop' = Names PROVE Sound'
  <2>1. Tiles' /\ FilesWhole' /\ OpenFile' /\ MarksHeld' BY <1>11, EmptySound
  <2>2. Names' = {} /\ marks' = {} /\ start' = received /\ flushed' = received /\ received' = received
    BY <1>11, EmptyDoes DEF TypeOK
  <2>3. Idle' BY <1>1, <2>2 DEF Idle
  <2>4. \A f \in removing' \cup drop' : f < start'
    BY <1>0, <1>1, <1>4, <1>11, <2>2 DEF Tiles, Numbers
  <2>5. Removers' BY <1>1, <2>4 DEF Removers
  <2> QED BY <1>2, <2>1, <2>3, <2>5 DEF Sound
<1> QED BY <1>9, <1>10, <1>11 DEF CheckRoom

LEMMA BeginSound == ASSUME TypeOK, ~closed, Sound, Begin PROVE Sound'
<1>0. Numbers /\ Tiles /\ JobFits /\ Removers /\ MarksHeld /\ Idle BY TypedNumbers DEF Sound
<1>1. UNCHANGED <<off, removing, file, job, drop>> /\ pc = "begin" /\ pc' = "window" BY DEF Begin
<1>2. Names = {} /\ drop = {} BY <1>0, <1>1 DEF Removers
<1>3. JobFits' BY <1>1 DEF JobFits
<1>4. CASE UNCHANGED <<tape, index, low>>
  <2>1. Tiles' /\ MarksHeld' BY <1>0, <1>1, <1>4, IndexKept
  <2>2. FilesWhole' /\ OpenFile' /\ Removers' /\ Idle'
    BY <1>0, <1>1, <1>2, <1>4 DEF FilesWhole, OpenFile, Removers, Idle
  <2> QED BY <1>3, <2>1, <2>2 DEF Sound
<1>5. CASE Empty
  <2>1. Tiles' /\ FilesWhole' /\ OpenFile' /\ MarksHeld' BY <1>5, EmptySound
  <2>2. Names' = {} /\ marks' = {} /\ start' = received /\ flushed' = received /\ received' = received
    BY <1>5, EmptyDoes DEF TypeOK
  <2>3. \A f \in removing : f \in Int BY DEF TypeOK, FlusherTyped
  <2>4. Removers' BY <1>0, <1>1, <1>2, <2>2, <2>3 DEF Removers, Tiles, Numbers
  <2>5. Idle' BY <1>1, <2>2 DEF Idle
  <2> QED BY <1>3, <2>1, <2>4, <2>5 DEF Sound
<1> QED BY <1>4, <1>5 DEF Begin

LEMMA FailSound == ASSUME TypeOK, ~closed, Sound, Fail PROVE Sound'
<1>0. Numbers /\ Tiles /\ JobFits /\ Removers /\ MarksHeld /\ Idle BY TypedNumbers DEF Sound
<1>1. UNCHANGED <<off, disk, removing, file, job>> /\ pc = "fail" /\ pc' = "failed" BY DEF Fail
<1>2. JobFits' BY <1>1 DEF JobFits
<1>3. CASE gen = job.gen
  <2>1. Empty /\ drop' = Names BY <1>3 DEF Fail
  <2>2. Tiles' /\ FilesWhole' /\ OpenFile' /\ MarksHeld' BY <2>1, EmptySound
  <2>3. Names' = {} /\ marks' = {} /\ start' = received /\ flushed' = received /\ received' = received
    BY <2>1, EmptyDoes DEF TypeOK
  <2>4. \A f \in removing : f \in Int BY DEF TypeOK, FlusherTyped
  <2>5. \A f \in removing' \cup drop' : f < start' BY <1>0, <1>1, <2>1, <2>3, <2>4 DEF Removers, Tiles, Numbers
  <2>6. Removers' /\ Idle' BY <1>1, <2>3, <2>5 DEF Removers, Idle
  <2> QED BY <1>2, <2>2, <2>6 DEF Sound
<1>4. CASE gen # job.gen
  <2>1. UNCHANGED <<tape, index, low>> /\ drop' = {} BY <1>4 DEF Fail
  <2>2. Names = {} BY <1>0, <1>1, <1>4 DEF JobFits
  <2>3. Tiles' /\ MarksHeld' BY <1>0, <2>1, <2>2, IndexKept
  <2>4. FilesWhole' /\ OpenFile' /\ Removers' /\ Idle'
    BY <1>0, <1>1, <2>1, <2>2 DEF FilesWhole, OpenFile, Removers, Idle
  <2> QED BY <1>2, <2>3, <2>4 DEF Sound
<1> QED BY <1>3, <1>4

LEMMA EndSound == ASSUME TypeOK, ~closed, Sound, End PROVE Sound'
<1>0. Numbers /\ Tiles /\ Removers BY TypedNumbers DEF Sound
<1>1. UNCHANGED <<removing, drop>> /\ Empty /\ pc = "end" /\ pc' = "exited" BY DEF End
<1>2. Tiles' /\ FilesWhole' /\ OpenFile' /\ MarksHeld' BY <1>1, EmptySound
<1>3. Names' = {} /\ marks' = {} /\ start' = received /\ flushed' = received /\ received' = received
  BY <1>1, EmptyDoes DEF TypeOK
<1>4. \A f \in removing \cup drop : f \in Int BY DEF TypeOK, FlusherTyped
<1>5. Removers' BY <1>0, <1>1, <1>3, <1>4 DEF Removers, Tiles, Numbers
<1>6. JobFits' /\ Idle' BY <1>1, <1>3 DEF JobFits, Idle
<1> QED BY <1>2, <1>5, <1>6 DEF Sound

LEMMA StaysClosed == TypeOK /\ [Next]_vars /\ closed => closed'
<1> SUFFICES ASSUME TypeOK, [Next]_vars, closed PROVE closed' OBVIOUS
<1>1. ASSUME Empty PROVE closed' BY <1>1 DEF Empty
<1>2. CASE (\E n \in 1..MaxChunk : Append(n)) \/ RemoveLater \/ Close \/ Ticks \/ Tick \/ UNCHANGED vars
  BY <1>2 DEF Append, AppendKept, AppendLost, RemoveLater, Close, Ticks, Tick, vars
<1>3. CASE Begin \/ Remove \/ Stops \/ Wakes \/ TakeBatch \/ Create \/ Write \/ Fail \/ Failed \/ End
  BY <1>1, <1>3 DEF Begin, Remove, Stops, Wakes, TakeBatch, Create, Write, Fail, Failed, End
<1>4. CASE CheckWindow
  <2>1. PICK w \in Windows : WindowSet(w) BY <1>4 DEF CheckWindow
  <2>2. CASE w = 0 /\ ~off BY <1>1, <2>1, <2>2 DEF WindowSet
  <2>3. CASE w = 0 /\ off BY <2>1, <2>3 DEF WindowSet
  <2>4. CASE w > 0 BY <2>1, <2>4 DEF WindowSet
  <2> QED BY <2>2, <2>3, <2>4
<1>5. CASE CheckRoom BY <1>1, <1>5 DEF CheckRoom
<1>6. CASE Commit BY <1>6 DEF Commit, Resetted, WriteFailed, Committed
<1> QED BY <1>2, <1>3, <1>4, <1>5, <1>6 DEF Next, Flusher

LEMMA StepIndexed == TypeOK /\ Indexed /\ [Next]_vars => Indexed'
<1> SUFFICES ASSUME TypeOK, Indexed, [Next]_vars, ~closed' PROVE Sound' BY DEF Indexed
<1>0. ~closed /\ Sound BY StaysClosed DEF Indexed
<1>1. ASSUME NEW n \in 1..MaxChunk, Append(n) PROVE Sound' BY <1>0, <1>1, AppendSound
<1>2. CASE RemoveLater
  <2>1. PICK f \in removing : removing' = removing \ {f} /\ disk' = Without(disk, {f}) BY <1>2 DEF RemoveLater
  <2>2. {f} \in SUBSET (removing \cup drop) BY <2>1
  <2>3. UNCHANGED <<tape, index, mode, file, job, pc, drop>> BY <1>2 DEF RemoveLater
  <2> QED BY <1>0, <2>1, <2>2, <2>3, RemovedSound
<1>3. CASE Close BY <1>3 DEF Close
<1>4. CASE Begin BY <1>0, <1>4, BeginSound
<1>5. CASE CheckWindow BY <1>0, <1>5, CheckWindowSound
<1>6. CASE CheckRoom BY <1>0, <1>6, CheckRoomSound
<1>7. CASE Remove
  <2>1. disk' = Without(disk, drop) /\ drop \in SUBSET (removing \cup drop) BY <1>7 DEF Remove, RemoveDropped
  <2>2. UNCHANGED <<tape, index, mode, file, job, removing>> /\ pc = "remove" /\ drop' = {} /\ pc' = "take"
    BY <1>7 DEF Remove, Goes
  <2> QED BY <1>0, <2>1, <2>2, RemovedSound
<1>8. CASE Stops \/ Wakes \/ Ticks \/ Tick \/ UNCHANGED vars
  <2>1. /\ UNCHANGED <<tape, index, mode, disk, removing, file, job, drop>>
        /\ pc' = pc \/ (pc = "wait" /\ pc' \in {"end", "take", "window"})
    BY <1>8 DEF Stops, Wakes, Ticks, Tick, vars, Goes
  <2>2. Tiles' /\ MarksHeld' BY <1>0, <2>1, IndexKept DEF Sound
  <2>3. FilesWhole' BY <1>0, <2>1 DEF Sound, FilesWhole, Reaches
  <2>4. OpenFile' BY <1>0, <2>1 DEF Sound, OpenFile, Newest, Ends, Reaches
  <2>5. JobFits'
    <3>1. JobOpen /\ pc' = pc => JobOpen' BY <2>1 DEF JobOpen, Newest, Ends, Reaches
    <3> QED BY <1>0, <2>1, <3>1 DEF Sound, JobFits
  <2>6. Removers' BY <1>0, <2>1 DEF Sound, Removers
  <2>7. Idle' BY <1>0, <2>1 DEF Sound, Idle
  <2> QED BY <2>2, <2>3, <2>4, <2>5, <2>6, <2>7 DEF Sound
<1>9. CASE TakeBatch BY <1>0, <1>9, TakeSound
<1>10. CASE Create BY <1>0, <1>10, CreateSound
<1>11. CASE Write BY <1>0, <1>11, WriteSound
<1>12. CASE Commit BY <1>0, <1>12, CommitSound
<1>13. CASE Fail BY <1>0, <1>13, FailSound
<1>14. CASE Failed
  <2>1. disk' = Without(disk, drop) /\ drop \in SUBSET (removing \cup drop) BY <1>14 DEF Failed, RemoveDropped
  <2>2. UNCHANGED <<tape, index, mode, file, job, removing>> /\ pc = "failed" /\ drop' = {} /\ pc' = "wait"
    BY <1>14 DEF Failed, Goes
  <2> QED BY <1>0, <2>1, <2>2, RemovedSound
<1>15. CASE End BY <1>0, <1>15, EndSound
<1> QED BY <1>1, <1>2, <1>3, <1>4, <1>5, <1>6, <1>7, <1>8, <1>9, <1>10, <1>11, <1>12, <1>13, <1>14, <1>15
        DEF Next, Flusher

LEMMA InitIndexed == Init => Indexed
<1> SUFFICES ASSUME Init PROVE Sound BY DEF Indexed
<1>1. Names = {} /\ marks = {} /\ drop = {} /\ removing = {} /\ pc = "begin" BY DEF Init
<1>2. start = 0 /\ flushed = 0 /\ received = 0 BY DEF Init
<1>3. start..(flushed - 1) = {} BY <1>2
<1>4. Tiles BY <1>1, <1>2, <1>3 DEF Tiles
<1>5. FilesWhole /\ OpenFile /\ JobFits /\ Removers /\ MarksHeld /\ Idle
  BY <1>1, <1>2 DEF FilesWhole, OpenFile, JobFits, Removers, MarksHeld, Idle
<1> QED BY <1>4, <1>5 DEF Sound

-----------------------------------------------------------------------------
(* Positions by time                                                        *)

\* What a step does to the marks: a kept chunk may add one, a reset forgets them.
LEMMA MarksGo ==
    ASSUME TypeOK, [Next]_vars
    PROVE  /\ received <= received' /\ now <= now'
           /\ \/ now' = now /\ \E n \in 1..MaxChunk : AppendKept(n)
              \/ marks' \subseteq marks /\ UNCHANGED <<lastMark, lastAt>>
              \/ marks' = {} /\ lastMark' = NoTime /\ lastAt' = NoTime
<1> DEFINE Grow == received <= received' /\ now <= now'
           Keep == marks' \subseteq marks /\ UNCHANGED <<lastMark, lastAt>>
           Lose == marks' = {} /\ lastMark' = NoTime /\ lastAt' = NoTime
<1>0. received \in Int /\ now \in Int BY DEF TypeOK, TapeTyped, ModeTyped
<1>1. ASSUME Empty PROVE Lose /\ received' = received BY <1>1 DEF Empty, ResetLocked
<1>8. ASSUME NEW cut, DropBefore(cut), Restless PROVE Keep BY <1>8 DEF DropBefore, Restless
<1>2. ASSUME NEW n \in 1..MaxChunk, Append(n) PROVE Grow /\ now' = now /\ (AppendKept(n) \/ Keep \/ Lose)
  <2>1. Grow /\ now' = now BY <1>0, <1>2 DEF Append, AppendKept, AppendLost, StartOver
  <2>2. CASE AppendLost(n) BY <2>1, <2>2 DEF AppendLost, ResetLocked
  <2> QED BY <1>2, <2>1, <2>2 DEF Append
<1>3. CASE RemoveLater \/ Close \/ Ticks \/ Tick \/ UNCHANGED vars
  BY <1>0, <1>3 DEF RemoveLater, Close, Ticks, Tick, vars
<1>4. CASE Begin \/ Remove \/ Stops \/ Wakes \/ TakeBatch \/ Create \/ Write \/ Fail \/ Failed \/ End
  BY <1>0, <1>1, <1>4 DEF Begin, Remove, Stops, Wakes, TakeBatch, Create, Write, Fail, Failed, End
<1>5. CASE CheckWindow
  <2>1. PICK w \in Windows : WindowSet(w) BY <1>5 DEF CheckWindow
  <2>2. now' = now BY <1>5 DEF CheckWindow
  <2>3. CASE w = 0 /\ ~off BY <1>0, <1>1, <2>1, <2>2, <2>3 DEF WindowSet
  <2>4. CASE w = 0 /\ off BY <1>0, <2>1, <2>2, <2>4 DEF WindowSet
  <2>5. CASE w > 0
    <3>1. \E cut : DropBefore(cut) BY <2>1, <2>5 DEF WindowSet
    <3>2. Restless /\ received' = received BY <2>1, <2>5 DEF WindowSet
    <3> QED BY <1>0, <1>8, <2>2, <3>1, <3>2
  <2> QED BY <2>3, <2>4, <2>5
<1>6. CASE CheckRoom
  <2>1. now' = now BY <1>6 DEF CheckRoom
  <2>2. CASE UNCHANGED <<tape, index>> BY <1>0, <2>1, <2>2
  <2>3. ASSUME NEW cut, DropBefore(cut), Restless, received' = received PROVE Keep /\ Grow
    BY <1>0, <1>8, <2>1, <2>3
  <2>4. CASE Empty BY <1>0, <1>1, <2>1, <2>4
  <2> QED BY <1>6, <2>2, <2>3, <2>4 DEF CheckRoom
<1>7. CASE Commit
  <2>1. now' = now BY <1>7 DEF Commit
  <2>2. CASE Resetted \/ WriteFailed BY <1>0, <2>1, <2>2 DEF Resetted, WriteFailed
  <2>3. CASE Committed
    <3>1. UNCHANGED <<received, lastMark, lastAt>> BY <2>3 DEF Committed
    <3>2. \E cut : marks' = {m \in marks : m.pos >= cut} BY <2>3 DEF Committed
    <3> QED BY <1>0, <2>1, <3>1, <3>2
  <2> QED BY <1>7, <2>2, <2>3 DEF Commit
<1> QED BY <1>2, <1>3, <1>4, <1>5, <1>6, <1>7 DEF Next, Flusher

\* A mark that comes after all others keeps every set of them with a first and a last.
LEMMA AddedLast ==
    ASSUME NEW M, NEW x, x \notin M, \A m \in M : Before(m, x),
           \A S \in SUBSET M : S # {} => (\E m \in S : First(m, S)) /\ (\E m \in S : Last(m, S)),
           NEW S \in SUBSET (M \cup {x}), S # {}
    PROVE  (\E m \in S : First(m, S)) /\ (\E m \in S : Last(m, S))
<1>1. CASE x \notin S BY <1>1
<1>2. CASE x \in S
  <2>1. Last(x, S) BY <1>2 DEF Last
  <2>2. CASE S = {x} BY <2>2 DEF First, Last
  <2>3. CASE S # {x}
    <3>1. S \ {x} \in SUBSET M /\ S \ {x} # {} BY <1>2, <2>3
    <3>2. PICK m \in S \ {x} : First(m, S \ {x}) BY <3>1
    <3>3. First(m, S) BY <3>1, <3>2 DEF First
    <3> QED BY <1>2, <2>1, <3>3
  <2> QED BY <2>2, <2>3
<1> QED BY <1>1, <1>2

LEMMA InitMarks == Init => MarksInOrder
BY DEF Init, MarksInOrder

LEMMA StepMarks == TypeOK /\ TypeOK' /\ MarksInOrder /\ [Next]_vars => MarksInOrder'
<1> SUFFICES ASSUME TypeOK, TypeOK', MarksInOrder, [Next]_vars PROVE MarksInOrder' OBVIOUS
<1>0. /\ received \in Int /\ received' \in Int /\ now \in Nat /\ now' \in Nat
      /\ lastMark \in Times /\ lastAt \in Times /\ lastMark' \in Times /\ lastAt' \in Times
      /\ marks \subseteq [at : Nat, pos : Int] /\ marks' \subseteq [at : Nat, pos : Int]
  BY DEF TypeOK, TapeTyped, IndexTyped, ModeTyped
<1>1. received <= received' /\ now <= now' BY MarksGo
<1>2. CASE marks' \subseteq marks /\ UNCHANGED <<lastMark, lastAt>>
  <2>1. lastMark' <= lastAt' /\ lastAt' <= now' BY <1>0, <1>1, <1>2 DEF MarksInOrder
  <2>2. \A m \in marks' : m.pos < received' /\ m.at <= lastMark' BY <1>0, <1>1, <1>2 DEF MarksInOrder
  <2>3. \A m, n \in marks' : Before(m, n) => m.at < n.at BY <1>2 DEF MarksInOrder
  <2>4. \A S \in SUBSET marks' : S # {} => (\E m \in S : First(m, S)) /\ (\E m \in S : Last(m, S))
    BY <1>2 DEF MarksInOrder
  <2> QED BY <2>1, <2>2, <2>3, <2>4 DEF MarksInOrder, Before, First, Last
<1>3. CASE marks' = {} /\ lastMark' = NoTime /\ lastAt' = NoTime
  BY <1>0, <1>3 DEF MarksInOrder
<1>4. CASE now' = now /\ \E n \in 1..MaxChunk : AppendKept(n)
  <2>1. PICK n \in 1..MaxChunk : AppendKept(n) BY <1>4
  <2>2. lastAt' = now /\ received' = received + n /\ n > 0 BY <2>1 DEF AppendKept
  <2>3. CASE UNCHANGED <<marks, lastMark>>
    BY <1>0, <1>1, <1>4, <2>2, <2>3 DEF MarksInOrder, Before, First, Last
  <2>4. CASE (lastMark = NoTime \/ now - lastMark >= MarkEvery) /\ NewMark(n) /\ lastMark' = now
    <3> DEFINE x == [at |-> now, pos |-> received]
    <3>1. marks' = marks \cup {x} BY <2>4 DEF NewMark
    <3>2. \A m \in marks : m.at < now /\ m.at <= lastMark /\ m.pos < received
      BY <1>0, <2>4 DEF MarksInOrder
    <3>3. x \notin marks /\ \A m \in marks : Before(m, x) BY <1>0, <3>2 DEF Before
    <3>4. lastMark' <= lastAt' /\ lastAt' <= now' BY <1>0, <1>4, <2>2, <2>4
    <3>5. \A m \in marks' : m.pos < received' /\ m.at <= lastMark' BY <1>0, <2>2, <2>4, <3>1, <3>2
    <3>6. \A m, k \in marks' : Before(m, k) => m.at < k.at BY <1>0, <3>1, <3>2 DEF MarksInOrder, Before
    <3>7. \A S \in SUBSET marks : S # {} => (\E m \in S : First(m, S)) /\ (\E m \in S : Last(m, S))
      BY DEF MarksInOrder
    <3>8. \A S \in SUBSET marks' : S # {} => (\E m \in S : First(m, S)) /\ (\E m \in S : Last(m, S))
      <4> SUFFICES ASSUME NEW S \in SUBSET (marks \cup {x}), S # {}
                   PROVE  (\E m \in S : First(m, S)) /\ (\E m \in S : Last(m, S))
        BY <3>1
      <4> HIDE DEF x
      <4> QED BY <3>3, <3>7, AddedLast
    <3> QED BY <3>4, <3>5, <3>6, <3>8 DEF MarksInOrder, Before, First, Last
  <2> QED BY <2>1, <2>3, <2>4 DEF AppendKept
<1> QED BY <1>2, <1>3, <1>4, MarksGo

LEMMA FirstIs == ASSUME NEW S \in SUBSET marks, S # {}, MarksInOrder PROVE First(FirstOf(S), S)
<1>1. \E m \in S : First(m, S) BY DEF MarksInOrder
<1> QED BY <1>1 DEF First, FirstOf

LEMMA LastIs == ASSUME NEW S \in SUBSET marks, S # {}, MarksInOrder PROVE Last(LastOf(S), S)
<1>1. \E m \in S : Last(m, S) BY DEF MarksInOrder
<1> QED BY <1>1 DEF Last, LastOf

-----------------------------------------------------------------------------
(* A share of a distance, b of c, stays inside it and grows with b.         *)

LEMMA Share ==
    ASSUME NEW a \in Nat, NEW b \in Nat, NEW c \in Nat \ {0}, b <= c
    PROVE  (a * b) \div c \in 0..a
<1>1. a * b \in Nat /\ a * c \in Nat OBVIOUS
<1>2. 0 <= a * b /\ a * b <= a * c OBVIOUS
<1>3. \A x, y \in Nat : x <= y => x \div c <= y \div c OBVIOUS
<1>4. 0 \div c = 0 /\ (a * c) \div c = a OBVIOUS
<1>5. (a * b) \div c \in Int BY <1>1
<1> QED BY <1>1, <1>2, <1>3, <1>4, <1>5

LEMMA ShareGrows ==
    ASSUME NEW a \in Nat, NEW b \in Nat, NEW d \in Nat, NEW c \in Nat \ {0}, b <= d
    PROVE  (a * b) \div c <= (a * d) \div c
<1>1. a * b \in Nat /\ a * d \in Nat /\ a * b <= a * d OBVIOUS
<1>2. \A x, y \in Nat : x <= y => x \div c <= y \div c OBVIOUS
<1> QED BY <1>1, <1>2

-----------------------------------------------------------------------------
Early(t) == {m \in HeldMarks : m.at <= t}
From(t) == LastOf(Early(t))
After(t) == {m \in marks : Before(From(t), m)}
To(t) == IF After(t) = {} THEN [at |-> lastAt, pos |-> received] ELSE FirstOf(After(t))
Between(t) == From(t).pos + ((To(t).pos - From(t).pos) * (t - From(t).at)) \div (To(t).at - From(t).at)

LEMMA AtIs ==
    ASSUME NEW t
    PROVE  At(t) = IF closed \/ Early(t) = {} THEN Nothing
                   ELSE IF t >= lastAt THEN received
                   ELSE IF To(t).at <= From(t).at THEN From(t).pos ELSE Between(t)
BY DEF At, Early, From, After, To, Between

\* The marks around a time before the last byte.
LEMMA Around ==
    ASSUME TypeOK, Indexed, MarksInOrder, ~closed, NEW t \in Nat, Early(t) # {}, t < lastAt
    PROVE  /\ From(t) \in marks /\ From(t).at <= t
           /\ To(t).at \in Nat /\ To(t).pos \in Int
           /\ start <= From(t).pos /\ From(t).pos < To(t).pos /\ To(t).pos <= received
           /\ t < To(t).at
           /\ \A m \in Early(t) : m = From(t) \/ Before(m, From(t))
           /\ \A m \in marks : Before(From(t), m) => To(t).pos <= m.pos
<1>0. /\ start \in Int /\ received \in Int /\ lastAt \in Int /\ marks \subseteq [at : Nat, pos : Int]
      /\ \A m \in marks : start <= m.pos /\ m.pos < received
  BY DEF TypeOK, TapeTyped, IndexTyped, Indexed, Sound, MarksHeld
<1>1. Early(t) \in SUBSET marks BY DEF Early, HeldMarks
<1>2. Last(From(t), Early(t)) BY <1>1, LastIs DEF From
<1>3. From(t) \in marks /\ From(t).at <= t BY <1>1, <1>2 DEF Last, Early
<1>4. \A m \in Early(t) : m = From(t) \/ Before(m, From(t)) BY <1>2 DEF Last
<1>5. CASE After(t) = {}
  <2>1. To(t).at = lastAt /\ To(t).pos = received BY <1>5 DEF To
  <2>2. \A m \in marks : ~Before(From(t), m) BY <1>5 DEF After
  <2> QED BY <1>0, <1>3, <1>4, <2>1, <2>2
<1>6. CASE After(t) # {}
  <2>1. After(t) \in SUBSET marks BY DEF After
  <2>2. First(To(t), After(t)) BY <1>6, <2>1, FirstIs DEF To
  <2>3. To(t) \in marks /\ Before(From(t), To(t)) BY <2>1, <2>2 DEF First, After
  <2>4. ~(To(t).at <= t)
    <3>1. SUFFICES ASSUME To(t).at <= t PROVE FALSE OBVIOUS
    <3>2. To(t) \in Early(t) BY <1>0, <2>3, <3>1 DEF Early, HeldMarks
    <3> QED BY <1>0, <1>3, <1>4, <2>3, <3>2 DEF Before
  <2>5. \A m \in marks : Before(From(t), m) => To(t).pos <= m.pos
    <3>1. SUFFICES ASSUME NEW m \in marks, Before(From(t), m) PROVE To(t).pos <= m.pos OBVIOUS
    <3>2. m \in After(t) BY <3>1 DEF After
    <3> QED BY <1>0, <2>2, <2>3, <3>2 DEF First, Before
  <2> QED BY <1>0, <1>3, <1>4, <2>3, <2>4, <2>5 DEF Before
<1> QED BY <1>5, <1>6

\* A position between two marks.
LEMMA Within ==
    ASSUME TypeOK, Indexed, MarksInOrder, ~closed, NEW t \in Nat, Early(t) # {}, t < lastAt
    PROVE  /\ At(t) = Between(t)
           /\ At(t) \in From(t).pos .. To(t).pos
<1>0. marks \subseteq [at : Nat, pos : Int] /\ received \in Int /\ lastAt \in Int
  BY DEF TypeOK, TapeTyped, IndexTyped
<1>1. /\ From(t) \in marks /\ From(t).at <= t /\ To(t).at \in Nat /\ To(t).pos \in Int
      /\ From(t).pos < To(t).pos /\ t < To(t).at
  BY Around
<1>2. From(t).at \in Nat /\ From(t).pos \in Int BY <1>0, <1>1
<1>3. At(t) = Between(t)
  <2>1. ~(t >= lastAt) BY <1>0
  <2>2. ~(To(t).at <= From(t).at) BY <1>1, <1>2
  <2> QED BY <2>1, <2>2, AtIs
<1> DEFINE a == To(t).pos - From(t).pos
           b == t - From(t).at
           c == To(t).at - From(t).at
<1>4. a \in Nat /\ b \in Nat /\ c \in Nat \ {0} /\ b <= c BY <1>1, <1>2
<1>5. Between(t) = From(t).pos + (a * b) \div c BY DEF Between
<1>6. (a * b) \div c \in 0..a
  <2> HIDE DEF a, b, c
  <2> QED BY <1>4, Share
<1> QED BY <1>1, <1>2, <1>3, <1>5, <1>6

LEMMA LookupsHeld == TypeOK /\ Indexed /\ MarksInOrder => LookupsAreHeld
<1> SUFFICES ASSUME TypeOK, Indexed, MarksInOrder, ~closed, NEW t \in 0..now
             PROVE  /\ Position(t) # Nothing => Position(t) \in start..(received - 1)
                    /\ At(t) # Nothing => At(t) \in start..received
                    /\ \A u \in t..now : At(t) # Nothing => At(t) <= At(u)
  BY DEF LookupsAreHeld
<1>0. /\ start \in Int /\ received \in Int /\ lastAt \in Int /\ now \in Nat /\ t \in Nat
      /\ start <= received /\ marks \subseteq [at : Nat, pos : Int]
      /\ \A m \in marks : start <= m.pos /\ m.pos < received
  BY DEF TypeOK, TapeTyped, IndexTyped, ModeTyped, Indexed, Sound, MarksHeld, Tiles
<1>1. Position(t) # Nothing => Position(t) \in start..(received - 1)
  <2> DEFINE late == {m \in HeldMarks : m.at >= t}
  <2>1. late \in SUBSET marks BY DEF HeldMarks
  <2>2. CASE late = {} BY <2>2 DEF Position
  <2>3. CASE late # {}
    <3>1. FirstOf(late) \in marks BY <2>1, <2>3, FirstIs DEF First
    <3>2. Position(t) = FirstOf(late).pos BY <2>3 DEF Position
    <3> QED BY <1>0, <3>1, <3>2
  <2> QED BY <2>2, <2>3
<1>2. ASSUME NEW u \in Nat, Early(u) # {} PROVE At(u) \in start..received
  <2>1. CASE u >= lastAt BY <1>0, <1>2, <2>1, AtIs
  <2>2. CASE u < lastAt
    <3>1. /\ From(u) \in marks /\ To(u).pos \in Int /\ start <= From(u).pos /\ To(u).pos <= received
      BY <1>2, <2>2, Around
    <3>2. At(u) \in From(u).pos .. To(u).pos BY <1>2, <2>2, Within
    <3> QED BY <1>0, <3>1, <3>2
  <2> QED BY <1>0, <2>1, <2>2
<1>3. At(t) # Nothing => Early(t) # {} BY AtIs
<1>4. ASSUME NEW u \in t..now, At(t) # Nothing PROVE At(t) <= At(u)
  <2>0. u \in Nat /\ t <= u BY <1>0
  <2>1. Early(t) # {} /\ Early(t) \subseteq Early(u)
    <3>1. Early(t) # {} BY <1>3, <1>4
    <3>2. HeldMarks \subseteq [at : Nat, pos : Int] BY <1>0 DEF HeldMarks
    <3> QED BY <1>0, <2>0, <3>1, <3>2 DEF Early
  <2>2. Early(u) # {} /\ At(t) \in start..received BY <1>0, <1>2, <2>1
  <2>3. CASE u >= lastAt BY <1>0, <2>0, <2>2, <2>3, AtIs
  <2>4. CASE u < lastAt
    <3>1. t < lastAt BY <1>0, <2>0, <2>4
    <3>2. /\ At(t) = Between(t) /\ At(t) \in From(t).pos .. To(t).pos
          /\ From(t) \in marks /\ From(t).at <= t /\ To(t).pos \in Int /\ To(t).at \in Nat
          /\ From(t).pos < To(t).pos /\ t < To(t).at
          /\ \A m \in marks : Before(From(t), m) => To(t).pos <= m.pos
      BY <1>0, <2>1, <3>1, Around, Within
    <3>3. /\ At(u) = Between(u) /\ At(u) \in From(u).pos .. To(u).pos
          /\ From(u) \in marks /\ To(u).pos \in Int
          /\ \A m \in Early(u) : m = From(u) \/ Before(m, From(u))
      BY <2>0, <2>2, <2>4, Around, Within
    <3>4. From(t) \in Early(u)
      <4>1. From(t) \in HeldMarks BY <1>0, <3>2 DEF HeldMarks
      <4> QED BY <1>0, <2>0, <3>2, <4>1 DEF Early
    <3>5. CASE Before(From(t), From(u))
      <4>1. To(t).pos <= From(u).pos BY <3>2, <3>3, <3>5
      <4> QED BY <1>0, <3>2, <3>3, <4>1
    <3>6. CASE From(t) = From(u)
      <4> DEFINE a == To(t).pos - From(t).pos
                 b == t - From(t).at
                 d == u - From(t).at
                 c == To(t).at - From(t).at
      <4>1. To(u) = To(t) BY <3>6 DEF To, After
      <4>2. a \in Nat /\ b \in Nat /\ d \in Nat /\ c \in Nat \ {0} /\ b <= d BY <1>0, <2>0, <3>2
      <4>3. Between(t) = From(t).pos + (a * b) \div c /\ Between(u) = From(t).pos + (a * d) \div c
        BY <3>6, <4>1 DEF Between
      <4>4. (a * b) \div c <= (a * d) \div c /\ (a * b) \div c \in Int /\ (a * d) \div c \in Int
        <5> HIDE DEF a, b, c, d
        <5> QED BY <4>2, ShareGrows
      <4>5. From(t).pos \in Int BY <1>0, <3>2
      <4> HIDE DEF a, b, c, d
      <4> QED BY <3>2, <3>3, <4>3, <4>4, <4>5
    <3> QED BY <3>3, <3>4, <3>5, <3>6
  <2> QED BY <1>0, <2>0, <2>3, <2>4
<1> QED BY <1>1, <1>2, <1>3, <1>4

-----------------------------------------------------------------------------
(* What the ring keeps                                                      *)

\* Every variable of the ring keeps its type, whatever the bounds are.
THEOREM Typed == Spec => []TypeOK
BY InitTyped, StepTyped, PTL DEF Spec

\* The index and the folder agree at every step of the flusher: the invariant
\* the other results rest on.
THEOREM IndexSound == Spec => []RingInv
BY InitTyped, InitIndexed, InitMarks, StepTyped, StepIndexed, StepMarks, PTL DEF Spec, RingInv

\* flushOnce, trimLocked, checkRoom and resetLocked, each a section under r.mu
\* with file operations between them: what the ring says is on disk is there.
THEOREM RingHolds == Spec => []HoldsWhatItSays
<1>1. RingInv => HoldsWhatItSays
  <2> SUFFICES ASSUME RingInv, ~closed, NEW p \in start..(flushed - 1) PROVE OnDisk(p)
    BY DEF HoldsWhatItSays
  <2>1. PICK f \in Names : f <= p /\ p < f + segs[f].size BY DEF RingInv, Indexed, Sound, Tiles
  <2>2. Reaches(f, f + segs[f].size) BY DEF RingInv, Indexed, Sound, FilesWhole
  <2> QED BY <2>1, <2>2 DEF OnDisk, Reaches
<1> QED BY <1>1, IndexSound, PTL

\* A position a reader is given is one the ring still has, and later times give no
\* earlier positions, through trims, resets and marks that are far apart (Position, At).
THEOREM RingLookups == Spec => []LookupsAreHeld
<1>1. RingInv => LookupsAreHeld BY LookupsHeld DEF RingInv
<1> QED BY <1>1, IndexSound, PTL

-----------------------------------------------------------------------------
(* Files                                                                    *)

\* Every file is accounted for: NoOrphanFiles, with where the flusher stands.
Accounted ==
    /\ NoOrphanFiles
    /\ drop # {} => pc \in {"room", "remove", "failed"}
    /\ pc \in {"write", "commit"} /\ job.new => file = job.first
    /\ pc = "create" => job.new
    /\ pc = "begin" => DOMAIN disk \subseteq {Stray} \cup removing

LEMMA InitAccounted == Init => Accounted
<1> SUFFICES ASSUME Init PROVE Accounted OBVIOUS
<1>1. pc = "begin" /\ drop = {} BY DEF Init
<1>2. DOMAIN disk \subseteq {Stray}
  <2>1. PICK left \in SUBSET {Stray} : disk = [f \in left |-> [to |-> 0, whole |-> FALSE]] BY DEF Init
  <2> QED BY <2>1
<1> QED BY <1>1, <1>2 DEF Accounted, NoOrphanFiles, Leftover

\* What happens to the names, whatever else a section does.
LEMMA NamesGo ==
    ASSUME TypeOK, DropBefore(start) \/ (\E cut \in Names : DropBefore(cut)) \/ (Empty /\ drop' = Names)
    PROVE  Names \subseteq Names' \cup drop'
<1>1. ASSUME NEW cut, DropBefore(cut) PROVE Names \subseteq Names' \cup drop'
  BY <1>1 DEF DropBefore, Without
<1> QED BY <1>1

LEMMA StepAccounted == TypeOK /\ Accounted /\ [Next]_vars => Accounted'
<1> SUFFICES ASSUME TypeOK, Accounted, [Next]_vars PROVE Accounted' OBVIOUS
<1> USE DEF Accounted, NoOrphanFiles, Writing, Leftover
<1>1. ASSUME NEW n \in 1..MaxChunk, Append(n) PROVE Accounted'
  <2>1. UNCHANGED <<disk, flusher>> BY <1>1 DEF Append
  <2>2. Names \cup removing \subseteq Names' \cup removing' /\ removing \subseteq removing'
    BY <1>1 DEF Append, AppendKept, AppendLost
  <2> QED BY <2>1, <2>2
<1>2. CASE RemoveLater
  <2>1. PICK f \in removing : removing' = removing \ {f} /\ disk' = Without(disk, {f}) BY <1>2 DEF RemoveLater
  <2>2. DOMAIN disk' = DOMAIN disk \ {f} BY <2>1 DEF Without
  <2>3. UNCHANGED <<index, flusher>> BY <1>2 DEF RemoveLater
  <2> QED BY <2>1, <2>2, <2>3
<1>3. CASE Close BY <1>3 DEF Close
<1>4. CASE Begin
  <2>1. UNCHANGED <<removing, job, drop, file>> /\ pc = "begin" /\ pc' = "window" BY <1>4 DEF Begin
  <2>2. CASE disk' = Without(disk, DOMAIN disk)
    <3>1. DOMAIN disk' = {} BY <2>2 DEF Without
    <3> QED BY <2>1, <3>1
  <2>3. CASE disk' = disk /\ dead' = TRUE BY <2>1, <2>3
  <2> QED BY <1>4, <2>2, <2>3 DEF Begin
<1>5. CASE CheckWindow
  <2>1. UNCHANGED <<disk, removing, file, job, dead>> /\ pc = "window" /\ pc' = "room" BY <1>5 DEF CheckWindow, Goes
  <2>2. PICK w \in Windows : WindowSet(w) BY <1>5 DEF CheckWindow
  <2>3. Names \subseteq Names' \cup drop'
    <3>1. CASE w = 0 /\ ~off BY <2>2, <3>1, NamesGo DEF WindowSet
    <3>2. CASE w = 0 /\ off BY <2>2, <3>2 DEF WindowSet
    <3>3. CASE w > 0
      <4>1. PICK cut \in Names \cup {start} : DropBefore(cut) BY <2>2, <3>3 DEF WindowSet
      <4> QED BY <4>1, NamesGo
    <3> QED BY <3>1, <3>2, <3>3
  <2> QED BY <2>1, <2>3
<1>6. CASE CheckRoom
  <2>1. UNCHANGED <<removing, file, job, dead>> /\ pc = "room" /\ pc' = "remove" /\ disk' = Without(disk, drop)
    BY <1>6 DEF CheckRoom, Goes, RemoveDropped
  <2>2. DOMAIN disk' = DOMAIN disk \ drop BY <2>1 DEF Without
  <2>3. Names \subseteq Names' \cup drop'
    <3>1. CASE UNCHANGED index BY <3>1
    <3>2. CASE ~(UNCHANGED index) BY <1>6, <3>2, NamesGo DEF CheckRoom
    <3> QED BY <3>1, <3>2
  <2> QED BY <2>1, <2>2, <2>3
<1>7. CASE Remove \/ Failed
  <2>1. UNCHANGED <<index, removing, file, job, dead>> /\ drop' = {} /\ disk' = Without(disk, drop)
    BY <1>7 DEF Remove, Failed, Goes, RemoveDropped
  <2>2. pc \in {"remove", "failed"} /\ pc' \in {"take", "wait"} BY <1>7 DEF Remove, Failed, Goes
  <2>3. DOMAIN disk' = DOMAIN disk \ drop BY <2>1 DEF Without
  <2> QED BY <2>1, <2>2, <2>3
<1>8. CASE Stops \/ Wakes \/ Ticks BY <1>8 DEF Stops, Wakes, Ticks, Goes
<1>9. CASE TakeBatch
  <2>1. UNCHANGED <<index, removing, file, drop, disk, dead>> /\ pc = "take" BY <1>9 DEF TakeBatch, Goes
  <2>2. \/ pc' = "wait"
        \/ pc' = "create" /\ job'.new
        \/ pc' = "write" /\ ~job'.new
    <3>1. CASE closed \/ flushed = received BY <1>9, <3>1 DEF TakeBatch, Goes
    <3>2. CASE ~(closed \/ flushed = received)
      <4>1. job'.new = Rotates /\ pc' = IF Rotates THEN "create" ELSE "write" BY <1>9, <3>2 DEF TakeBatch
      <4> QED BY <4>1
    <3> QED BY <3>1, <3>2
  <2> QED BY <2>1, <2>2
<1>10. CASE Create
  <2>1. UNCHANGED <<index, removing, job, drop, dead>> /\ pc = "create" BY <1>10 DEF Create
  <2>2. CASE pc' = "fail" /\ disk' = disk BY <2>1, <2>2
  <2>3. CASE pc' = "write" /\ disk' = With(disk, job.first, [to |-> job.first, whole |-> TRUE]) /\ file' = job.first
    <3>1. DOMAIN disk' = DOMAIN disk \cup {job.first} BY <2>3 DEF With
    <3> QED BY <2>1, <2>3, <3>1
  <2> QED BY <1>10, <2>2, <2>3 DEF Create
<1>11. CASE Write
  <2>1. UNCHANGED <<index, removing, file, drop, dead>> /\ pc = "write" /\ pc' = "commit" BY <1>11 DEF Write
  <2>2. PICK n : WriteTo(n) BY <1>11 DEF Write
  <2>3. DOMAIN disk' = DOMAIN disk BY <2>2 DEF WriteTo
  <2>4. job'.new = job.new /\ job'.first = job.first BY <1>11 DEF Write, TypeOK, FlusherTyped
  <2> QED BY <2>1, <2>3, <2>4
<1>12. CASE Commit
  <2>1. UNCHANGED <<removing, job, dead>> /\ pc = "commit" BY <1>12 DEF Commit
  <2>2. CASE Resetted
    <3>1. UNCHANGED <<index, drop>> /\ pc' = "wait" BY <2>2 DEF Resetted
    <3>2. CASE job.new
      <4>1. DOMAIN disk' = DOMAIN disk \ {job.first} BY <2>1, <2>2, <3>2 DEF Resetted, LateFile, Without
      <4> QED BY <2>1, <3>1, <4>1
    <3>3. CASE ~job.new BY <2>1, <2>2, <3>1, <3>3 DEF Resetted
    <3> QED BY <3>2, <3>3
  <2>3. DOMAIN Grown = Names \cup Writing BY <2>1 DEF Grown, With
  <2>4. CASE WriteFailed BY <2>1, <2>3, <2>4 DEF WriteFailed
  <2>5. CASE Committed
    <3>1. DOMAIN Grown \subseteq Names' \cup drop'
      <4>1. PICK cut \in DOMAIN Grown \cup {start} :
              DOMAIN segs' = {g \in DOMAIN Grown : g >= cut} /\ drop' = {f \in DOMAIN Grown : f < cut}
        BY <2>5 DEF Committed
      <4>2. cut \in Int /\ DOMAIN Grown \subseteq Int
        BY <2>3 DEF TypeOK, TapeTyped, IndexTyped, FlusherTyped
      <4> QED BY <4>1, <4>2
    <3>2. UNCHANGED <<disk, file>> /\ pc' = "remove" BY <2>5 DEF Committed
    <3> QED BY <2>1, <2>3, <3>1, <3>2
  <2> QED BY <1>12, <2>2, <2>4, <2>5 DEF Commit
<1>13. CASE Fail
  <2>1. UNCHANGED <<disk, removing, file, job, dead>> /\ pc = "fail" /\ pc' = "failed" BY <1>13 DEF Fail
  <2>2. Names \subseteq Names' \cup drop' BY <1>13, NamesGo DEF Fail
  <2> QED BY <2>1, <2>2
<1>14. CASE End
  <2>1. DOMAIN disk' = {} BY <1>14 DEF End, RemoveAll, Without
  <2> QED BY <1>14, <2>1 DEF End
<1>15. CASE Tick \/ UNCHANGED vars BY <1>15 DEF Tick, vars
<1> QED BY <1>1, <1>2, <1>3, <1>4, <1>5, <1>6, <1>7, <1>8, <1>9, <1>10, <1>11, <1>12, <1>13, <1>14, <1>15
        DEF Next, Flusher

\* Resets behind the flusher's back, files rotated, failed or given up: none
\* is left in the folder that nobody will remove.
THEOREM RingLeavesNoFile == Spec => []NoOrphanFiles
<1>1. Accounted => NoOrphanFiles BY DEF Accounted
<1> QED BY <1>1, InitTyped, StepTyped, InitAccounted, StepAccounted, PTL DEF Spec
-----------------------------------------------------------------------------
(* The ring implements the tape                                             *)

FromZero == ~closed => 0 <= start

\* What is given up and what is on disk only grow.
LEMMA PositionsGrow ==
    TypeOK /\ Indexed /\ [Next]_vars /\ ~closed' => start <= start' /\ flushed <= flushed'
<1> DEFINE Grow == start <= start' /\ flushed <= flushed'
<1> SUFFICES ASSUME TypeOK, Indexed, [Next]_vars, ~closed' PROVE Grow OBVIOUS
<1>0. ~closed /\ Sound /\ Numbers BY StaysClosed, TypedNumbers DEF Indexed
<1>1. start \in Int /\ start <= flushed /\ flushed <= received /\ flushed \in Int
  BY <1>0 DEF Sound, Tiles, Numbers
<1>2. ASSUME Empty PROVE Grow BY <1>0, <1>1, <1>2 DEF Empty, Numbers
<1>3. ASSUME NEW cut \in Names \cup {start}, DropBefore(cut), flushed' = flushed PROVE Grow
  BY <1>0, <1>1, <1>3 DEF DropBefore, Sound, Tiles
<1>4. ASSUME NEW n \in 1..MaxChunk, Append(n) PROVE Grow
  BY <1>0, <1>1, <1>4 DEF Append, AppendKept, AppendLost, StartOver, Numbers
<1>5. CASE RemoveLater \/ Close \/ Ticks \/ Tick \/ UNCHANGED vars
  BY <1>1, <1>5 DEF RemoveLater, Close, Ticks, Tick, vars
<1>6. CASE Begin \/ Remove \/ Stops \/ Wakes \/ TakeBatch \/ Create \/ Write \/ Fail \/ Failed \/ End
  BY <1>1, <1>2, <1>6 DEF Begin, Remove, Stops, Wakes, TakeBatch, Create, Write, Fail, Failed, End
<1>7. CASE CheckWindow
  <2>1. PICK w \in Windows : WindowSet(w) BY <1>7 DEF CheckWindow
  <2>2. CASE w = 0 /\ ~off BY <1>2, <2>1, <2>2 DEF WindowSet
  <2>3. CASE w = 0 /\ off BY <1>1, <2>1, <2>3 DEF WindowSet
  <2>4. CASE w > 0 BY <1>3, <2>1, <2>4 DEF WindowSet
  <2> QED BY <2>2, <2>3, <2>4
<1>8. CASE CheckRoom BY <1>1, <1>2, <1>3, <1>8 DEF CheckRoom
<1>9. CASE Commit
  <2>1. CASE Resetted \/ WriteFailed BY <1>1, <2>1 DEF Resetted, WriteFailed
  <2>2. CASE Committed
    <3>1. PICK cut \in DOMAIN Grown \cup {start} : start' = cut BY <2>2 DEF Committed
    <3>2. job.first = flushed /\ flushed < job.upto
      BY <1>0, <1>9, <2>2 DEF Sound, JobFits, JobOpen, Commit, Committed
    <3>3. \A f \in DOMAIN Grown : start <= f BY <1>0, <3>2 DEF Grown, With, Sound, Tiles
    <3>4. flushed <= flushed' BY <1>0, <2>2, <3>2 DEF Committed, Numbers
    <3> QED BY <1>1, <3>1, <3>3, <3>4
  <2> QED BY <1>9, <2>1, <2>2 DEF Commit
<1> QED BY <1>4, <1>5, <1>6, <1>7, <1>8, <1>9 DEF Next, Flusher

\* Bytes are added by Append only; a ring is closed by Close only.
LEMMA WhoMoves ==
    ASSUME TypeOK, [Next]_vars
    PROVE  \/ \E n \in 1..MaxChunk : Append(n)
           \/ Close
           \/ received' = received /\ closed' = closed
<1>1. ASSUME Empty PROVE received' = received /\ closed' = closed BY <1>1 DEF Empty
<1>2. CASE RemoveLater \/ Ticks \/ Tick \/ UNCHANGED vars
  BY <1>2 DEF RemoveLater, Ticks, Tick, vars
<1>3. CASE Begin \/ Remove \/ Stops \/ Wakes \/ TakeBatch \/ Create \/ Write \/ Fail \/ Failed \/ End
  BY <1>1, <1>3 DEF Begin, Remove, Stops, Wakes, TakeBatch, Create, Write, Fail, Failed, End
<1>4. CASE CheckWindow
  <2>1. PICK w \in Windows : WindowSet(w) BY <1>4 DEF CheckWindow
  <2>2. CASE w = 0 /\ ~off BY <1>1, <2>1, <2>2 DEF WindowSet
  <2>3. CASE w = 0 /\ off BY <2>1, <2>3 DEF WindowSet
  <2>4. CASE w > 0 BY <2>1, <2>4 DEF WindowSet
  <2> QED BY <2>2, <2>3, <2>4
<1>5. CASE CheckRoom BY <1>1, <1>5 DEF CheckRoom
<1>6. CASE Commit BY <1>6 DEF Commit, Resetted, WriteFailed, Committed
<1> QED BY <1>2, <1>3, <1>4, <1>5, <1>6 DEF Next, Flusher

LEMMA InitTape == Init => Held!TapeInit
BY DEF Init, Held!TapeInit

LEMMA StepTape ==
    TypeOK /\ Indexed /\ FromZero /\ [Next]_vars /\ Indexed' /\ TypeOK' => [Held!TapeNext]_Held!tape
<1> SUFFICES ASSUME TypeOK, Indexed, FromZero, [Next]_vars, Indexed', TypeOK' PROVE [Held!TapeNext]_Held!tape OBVIOUS
<1> DEFINE s == IF closed THEN received ELSE start
           f == IF closed THEN received ELSE flushed
<1>0. Numbers /\ received \in 0..MaxPos BY TypedNumbers DEF TypeOK, TapeTyped
<1>1. Held!tape = <<s, f, received, closed>> BY DEF Held!tape
<1>2. ASSUME NEW n \in 1..MaxChunk, Append(n) PROVE Held!TapeNext
  <2>1. received + n <= MaxPos /\ received' = received + n /\ closed' = closed
    BY <1>2 DEF Append, AppendKept, AppendLost, StartOver
  <2>2. CASE AppendKept(n)
    <3>1. ~closed /\ start' = start /\ flushed' = flushed BY <2>2 DEF AppendKept, Kept
    <3> QED BY <2>1, <3>1 DEF Held!TapeNext, Held!Take
  <2>3. CASE AppendLost(n)
    <3>1. start' = received' /\ flushed' = received' BY <2>1, <2>3 DEF AppendLost, StartOver
    <3> QED BY <2>1, <3>1 DEF Held!TapeNext, Held!Take
  <2> QED BY <1>2, <2>2, <2>3 DEF Append
<1>3. CASE Close
  <2>1. ~closed /\ closed' = TRUE /\ UNCHANGED <<start, flushed, received>> BY <1>3 DEF Close
  <2> QED BY <2>1 DEF Held!TapeNext, Held!CloseTape
<1>4. CASE received' = received /\ closed' = closed
  <2>1. CASE closed BY <1>1, <1>4, <2>1 DEF Held!tape
  <2>2. CASE ~closed
    <3>1. start <= start' /\ flushed <= flushed' BY <1>4, <2>2, PositionsGrow
    <3>2. Tiles /\ Tiles' BY <1>4, <2>2 DEF Indexed, Sound
    <3>3. start <= flushed /\ flushed <= received /\ 0 <= start /\ start' <= flushed' /\ flushed' <= received
      BY <1>4, <2>2, <3>2 DEF Tiles, FromZero
    <3>4. start \in Int /\ flushed \in Int /\ start' \in Int /\ flushed' \in Int BY DEF TypeOK, TapeTyped
    <3>5. start' \in 0..received /\ flushed' \in 0..received BY <1>0, <3>1, <3>3, <3>4
    <3>6. Held!Move(start', flushed') BY <1>4, <2>2, <3>1, <3>3 DEF Held!Move
    <3> QED BY <2>2, <3>5, <3>6 DEF Held!TapeNext
  <2> QED BY <2>1, <2>2
<1> QED BY <1>2, <1>3, <1>4, WhoMoves
LEMMA StepFromZero == TypeOK /\ Indexed /\ FromZero /\ [Next]_vars /\ TypeOK' => FromZero'
<1> SUFFICES ASSUME TypeOK, Indexed, FromZero, [Next]_vars, TypeOK', ~closed' PROVE 0 <= start'
  BY DEF FromZero
<1>1. ~closed /\ 0 <= start /\ start <= start' BY StaysClosed, PositionsGrow DEF FromZero
<1>2. start \in Int /\ start' \in Int BY DEF TypeOK, TapeTyped
<1> QED BY <1>1, <1>2

\* The ring implements the tape Backfill's readers are checked against: each
\* step of the tuner, the flusher and Close is a step of the tape or none.
THEOREM RingIsATape == Spec => ImplementsTape
<1>1. Init => FromZero BY DEF Init, FromZero
<1> QED BY <1>1, InitTyped, InitIndexed, InitTape, StepTyped, StepIndexed, StepFromZero, StepTape, PTL
        DEF Spec, ImplementsTape, Held!TapeSpec
=============================================================================
