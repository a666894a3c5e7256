-------------------------------- MODULE Lead --------------------------------
(* The sound lead (live/lead.go): beside the encode of an ATSC 3.0 picture,  *)
(* which writes nothing before its sound can be decoded, a second ffmpeg     *)
(* copies the picture with silence, and the packager (live/pack.go) plays    *)
(* that one first and continues on the encode.                               *)
(*                                                                           *)
(* The broadcast is pictures 1, 2, ...; Keys are the keyframes.  Everyone    *)
(* reads the same pictures in order, so a queue, a pipe and a buffer are the *)
(* number of the last picture put in.  Goroutines: the subscriber that       *)
(* writes, startLead, attach's drain, the reader of the encode's output, the *)
(* packager, and whoever stops or restarts the rendition.                    *)
EXTENDS Naturals, Sequences

CONSTANTS
    Pictures,       \* how many are broadcast
    Keys,           \* which start a group; the first does
    ChunkMax,       \* pictures in one write
    QueueCap,       \* leadQueue
    MaxRestarts     \* encodes started again

VARIABLES
    tee,    \* leadTee: the last picture written, and the lead's share
    lead,   \* leadEncode and its process
    enc,    \* the encode that runs, and what it wrote
    pack,   \* packInput and Pack: what is read, and what was played
    fault   \* the lead was ended by something else than its cut

vars == <<tee, lead, enc, pack, fault>>

Init ==
    /\ tee = [fed |-> 0, on |-> TRUE, started |-> FALSE, cut |-> FALSE, closed |-> FALSE, upto |-> 0, out |-> TRUE]
    /\ lead = [starting |-> FALSE, proc |-> "none", stdin |-> "none", got |-> 0, sent |-> 0, ended |-> FALSE,
               timer |-> FALSE]
    /\ enc = [n |-> 1, alive |-> TRUE, from |-> 0, out |-> 0]
    /\ pack = [at |-> "lead", read |-> 0, skipping |-> FALSE, handover |-> FALSE, played |-> <<>>,
               ended |-> FALSE, done |-> FALSE]
    /\ fault = FALSE

Last == IF pack.played = <<>> THEN 0 ELSE pack.played[Len(pack.played)].pic

-----------------------------------------------------------------------------
(* leadTee.                                                                 *)

\* closeLocked and drop: nothing more goes to the lead; drop takes back what waits.
Closed(t) == [t EXCEPT !.closed = TRUE, !.out = FALSE]
Dropped(t) == Closed([t EXCEPT !.upto = lead.got])

\* The lead has all that it will get.
Spent(t) == t.closed /\ t.upto = lead.got

\* Mutant: the lead is cut where it is.
CutHere(t, next) == t.cut /\ next > t.fed
\* The lead is cut before a keyframe that comes after its cut was asked.
CutBefore(t, next) == t.cut /\ next \in Keys

\* feed, of pictures t.fed + 1 to upto: the lead's share, and a queue that is full.
Share(t, upto) ==
    CHOOSE e \in t.fed .. upto : /\ e = upto \/ CutBefore(t, e + 1)
                                /\ \A n \in t.fed + 1 .. e : ~CutBefore(t, n)
Overflows(t, upto) == ~t.closed /\ Share(t, upto) - lead.got > QueueCap
Feed(t, upto) ==
    LET now == [t EXCEPT !.fed = upto, !.started = TRUE]
    IN  IF t.closed THEN now
        ELSE IF Overflows(t, upto) THEN Closed(now)
        ELSE IF Share(t, upto) < upto THEN Closed([now EXCEPT !.upto = Share(t, upto)])
        ELSE [now EXCEPT !.upto = upto]

\* The subscriber writes to the encode and then to the lead; the first picture starts it.
Write ==
    /\ tee.fed < Pictures
    /\ \E n \in 1 .. ChunkMax :
          /\ tee.fed + n <= Pictures
          /\ IF ~tee.on THEN tee' = [tee EXCEPT !.fed = @ + n] /\ UNCHANGED <<lead, fault>>
             ELSE /\ tee' = IF enc.alive THEN Feed(tee, tee.fed + n) ELSE Dropped(Feed(tee, tee.fed + n))
                  /\ lead' = [lead EXCEPT !.starting = @ \/ ~tee.started]
                  /\ fault' = (fault \/ Overflows(tee, tee.fed + n) \/ (~enc.alive /\ ~Spent(tee)))
    /\ ~pack.ended
    /\ UNCHANGED <<enc, pack>>

\* The subscriber ends: tee.Close.
Close ==
    /\ tee.on /\ ~Spent(tee) /\ ~enc.alive
    /\ tee' = Dropped(tee) /\ fault' = TRUE
    /\ UNCHANGED <<lead, enc, pack>>

\* leadMax passed: the picture waits for the sound.
TimedOut ==
    /\ lead.timer /\ ~tee.cut /\ tee' = [tee EXCEPT !.cut = TRUE]
    /\ UNCHANGED <<lead, enc, pack, fault>>

-----------------------------------------------------------------------------
(* leadEncode.                                                              *)

\* endLeadLocked.
Ended(l) ==
    [l EXCEPT !.ended = TRUE, !.timer = FALSE, !.proc = IF @ = "running" THEN "killed" ELSE @]

\* startLead: a pipe already given up cannot be the process's output.
StartLead ==
    /\ lead.starting
    /\ \/ /\ ~lead.ended /\ tee.out
          /\ tee' = [tee EXCEPT !.out = FALSE]
          /\ lead' = [lead EXCEPT !.starting = FALSE, !.proc = "running", !.timer = TRUE,
                                  !.stdin = IF tee.closed /\ tee.upto = lead.got THEN "closed" ELSE "open"]
          /\ UNCHANGED fault
       \/ \* No command line, or no process: the packager moves on.
          /\ tee' = Dropped(tee)
          /\ lead' = [Ended(lead) EXCEPT !.starting = FALSE]
          /\ fault' = TRUE
    /\ UNCHANGED <<enc, pack>>

\* attach: what waits is written, and after the cut the input ends.
Drain ==
    /\ lead.stdin = "open"
    /\ \/ /\ lead.got < tee.upto
          /\ \/ lead.proc = "running" /\ lead' = [lead EXCEPT !.got = @ + 1] /\ UNCHANGED <<tee, fault>>
             \/ /\ lead.proc \in {"killed", "gone"}
                /\ tee' = Dropped(tee) /\ lead' = [lead EXCEPT !.stdin = "closed"] /\ fault' = TRUE
       \/ /\ lead.got = tee.upto /\ tee.closed
          /\ lead' = [lead EXCEPT !.stdin = "closed"] /\ UNCHANGED <<tee, fault>>
    /\ UNCHANGED <<enc, pack>>

\* The process copies what it reads, and ends with its picture or before.
LeadWrites ==
    /\ lead.proc = "running" /\ lead.sent < lead.got /\ lead' = [lead EXCEPT !.sent = @ + 1]
    /\ UNCHANGED <<tee, enc, pack, fault>>
LeadExits ==
    /\ \/ lead.proc = "killed" /\ UNCHANGED fault
       \/ lead.proc = "running" /\ lead.stdin = "closed" /\ lead.sent = lead.got /\ UNCHANGED fault
    /\ lead' = [lead EXCEPT !.proc = "gone", !.ended = TRUE]
    /\ UNCHANGED <<tee, enc, pack>>
LeadCrashes ==
    /\ lead.proc = "running" /\ lead' = [lead EXCEPT !.proc = "gone", !.ended = TRUE] /\ fault' = TRUE
    /\ UNCHANGED <<tee, enc, pack>>

-----------------------------------------------------------------------------
(* The encode, whose output is read ahead.                                  *)

\* An encode begins on the next keyframe of what it is given.
FirstOut ==
    CHOOSE k \in Keys \cup {Pictures + 1} : k > enc.from /\ \A j \in Keys : j > enc.from => k <= j
NextOut == IF enc.out > 0 THEN enc.out + 1 ELSE FirstOut

\* The encode writes once its sound is there; its first output cuts the lead (onTakeover).
EncWrites ==
    /\ enc.alive /\ NextOut <= tee.fed /\ NextOut <= Pictures
    /\ enc' = [enc EXCEPT !.out = NextOut]
    /\ tee' = IF enc.n = 1 THEN [tee EXCEPT !.cut = TRUE] ELSE tee
    /\ UNCHANGED <<lead, pack, fault>>
EncExits ==
    /\ enc.alive /\ enc.n <= MaxRestarts /\ enc' = [enc EXCEPT !.alive = FALSE]
    /\ UNCHANGED <<tee, lead, pack, fault>>

\* followRestartLocked: the same command line into the same packager, past the tee.
Restart ==
    /\ ~enc.alive /\ enc.n <= MaxRestarts /\ ~pack.ended /\ ~pack.done
    /\ pack.at = "takeover" /\ pack.read = enc.out
    /\ tee' = [Dropped(tee) EXCEPT !.on = FALSE]
    /\ lead' = Ended(lead)
    /\ enc' = [n |-> enc.n + 1, alive |-> TRUE, from |-> tee.fed, out |-> 0]
    /\ pack' = [pack EXCEPT !.at = "next", !.read = 0, !.skipping = FALSE, !.handover = TRUE]
    /\ fault' = TRUE

\* stopRenditionLocked: the packager is told to end, once its input has.
Stop ==
    /\ ~pack.ended
    /\ tee' = Dropped(tee) /\ lead' = Ended(lead)
    /\ enc' = [enc EXCEPT !.alive = FALSE]
    /\ pack' = [pack EXCEPT !.ended = TRUE] /\ fault' = TRUE

-----------------------------------------------------------------------------
(* The packager.                                                            *)

Played(pic, brk) == Append(pack.played, [pic |-> pic, brk |-> brk])

\* The lead's pipe has no writer: neither the parent's copy nor the process.
LeadDone == ~tee.out /\ lead.proc \in {"none", "gone"}
PackReadsLead ==
    /\ pack.at = "lead" /\ ~pack.done
    /\ \/ /\ pack.read < lead.sent
          /\ pack' = [pack EXCEPT !.read = @ + 1, !.played = Played(pack.read + 1, FALSE)]
       \/ /\ pack.read = lead.sent /\ LeadDone
          /\ pack' = IF pack.ended THEN [pack EXCEPT !.done = TRUE]
                     ELSE [pack EXCEPT !.at = "takeover", !.read = 0, !.handover = TRUE,
                                       !.skipping = pack.played # <<>>]
    /\ UNCHANGED <<tee, lead, enc, fault>>

\* While it skips it drops what the lead played, and continues on a keyframe.
PackReadsEncode ==
    /\ pack.at # "lead" /\ ~pack.done
    /\ \/ /\ enc.out > 0 /\ pack.read < enc.out
          /\ LET pic == IF pack.read > 0 THEN pack.read + 1 ELSE FirstOut
                 taken == ~pack.skipping \/ (pic > Last /\ pic \in Keys)
                 brk == pack.handover /\ Last > 0 /\ (~pack.skipping \/ pic > Last + 1)
             IN  pack' = IF taken THEN [pack EXCEPT !.read = pic, !.skipping = FALSE, !.handover = FALSE,
                                                    !.played = Played(pic, brk)]
                         ELSE [pack EXCEPT !.read = pic]
       \/ /\ (enc.out = 0 \/ pack.read = enc.out) /\ ~enc.alive /\ pack.ended
          /\ pack' = [pack EXCEPT !.done = TRUE]
    /\ UNCHANGED <<tee, lead, enc, fault>>

\* An encode that describes its streams differently cannot continue the playlist.
Differs ==
    /\ pack.at # "lead" /\ ~pack.done /\ pack.read = 0 /\ enc.out > 0
    /\ pack' = [pack EXCEPT !.done = TRUE]
    /\ UNCHANGED <<tee, lead, enc, fault>>

Next ==
    \/ Write \/ Close \/ TimedOut
    \/ StartLead \/ Drain \/ LeadWrites \/ LeadExits \/ LeadCrashes
    \/ EncWrites \/ EncExits \/ Restart \/ Stop
    \/ PackReadsLead \/ PackReadsEncode \/ Differs

\* Goroutines run, a process that is killed or has read everything ends, and the
\* broadcast goes on; nothing is assumed of the encode.
Runs == Write \/ StartLead \/ Drain \/ LeadWrites \/ LeadExits \/ PackReadsLead \/ PackReadsEncode
Spec == Init /\ [][Next]_vars /\ WF_vars(Runs)

-----------------------------------------------------------------------------
\* The playlist plays each picture once and in order, and says so where one is missing
\* or an encode began anew (Pack).
PlaysInOrder ==
    \A i \in 2 .. Len(pack.played) :
        /\ pack.played[i].pic > pack.played[i - 1].pic
        /\ pack.played[i].pic = pack.played[i - 1].pic + 1 \/ pack.played[i].brk

\* A lead that was only ever cut leaves no break: the encode's keyframe is its next
\* picture (feed, followTakeover).
Seamless ==
    ~fault => \A i \in 1 .. Len(pack.played) : ~pack.played[i].brk

\* Once the encode writes and a group is still to come, the packager reads it; and a
\* stopped rendition's packager ends, whoever was to start the lead (endLeadLocked).
Awaited == enc.n = 1 /\ enc.out > 0 /\ \E k \in Keys : k > tee.fed
HandedOver == pack.at # "lead" \/ pack.done
HandsOver == Awaited ~> HandedOver
Ends == pack.ended ~> pack.done
=============================================================================
