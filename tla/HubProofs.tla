----------------------------- MODULE HubProofs ------------------------------
(***************************************************************************)
(* The hub's maps, for every house: its types, that its maps agree, and    *)
(* that it takes no tuner from a recording.  The sections under h.mu are   *)
(* built from operators on s = [h, mux, conn, dev], so the proof says of   *)
(* each operator what it does to any sound s, and the actions follow.      *)
(***************************************************************************)
EXTENDS Hub, TLAPS

USE HubAssumption DEF HubAssumption

-----------------------------------------------------------------------------
States == [h : Maps, mux : [MuxIds -> Mux], conn : SUBSET Tuners,
           dev : [Tuners -> Freqs \cup {None, App}]]

\* A feed is on the mux stored under its frequency, which lists it.
FeedsSound(s) ==
    \A ch \in Channels : s.h.feed[ch].mux # None =>
        /\ ch \in s.mux[s.h.feed[ch].mux].feeds
        /\ s.mux[s.h.feed[ch].mux].freq = Freq[ch]
        /\ s.h.at[Freq[ch]] = s.h.feed[ch].mux

\* A stored mux is on its frequency and carries a feed, and nobody else's.
AtSound(s) ==
    \A f \in Freqs : s.h.at[f] # None =>
        /\ s.mux[s.h.at[f]].freq = f /\ s.mux[s.h.at[f]].rd # "off"
        /\ s.mux[s.h.at[f]].feeds # {}
        /\ \A ch \in s.mux[s.h.at[f]].feeds : s.h.feed[ch].mux = s.h.at[f]

\* A feed that is not tuned records nothing and has no viewers.
Bare(s) == \A ch \in Channels : s.h.feed[ch].mux = None => s.h.feed[ch] = NoFeed

\* A mux object in use has a frequency and a tuner, and a tuner it moves to.
MuxesSound(s) ==
    \A i \in MuxIds :
        /\ s.mux[i].rd # "off" => s.mux[i].freq \in Freqs /\ s.mux[i].tuner \in Tuners
        /\ s.mux[i].rd \in {"moving", "oldNone", "newNone"} => s.mux[i].to \in Tuners

Sound(s) == FeedsSound(s) /\ AtSound(s) /\ Bare(s) /\ MuxesSound(s)

\* Every recording of s goes on in t.
Keeps(s, t) == \A ch \in Channels : s.h.feed[ch].rec => t.h.feed[ch].rec

Room(s) == \E i \in MuxIds : s.mux[i].rd = "off"

USE DEF None, NoTuner, App, Tuned

LEMMA Parts ==
    ASSUME NEW s \in States
    PROVE  /\ s = [h |-> s.h, mux |-> s.mux, conn |-> s.conn, dev |-> s.dev]
           /\ s.h \in Maps /\ s.mux \in [MuxIds -> Mux] /\ s.conn \subseteq Tuners
           /\ s.dev \in [Tuners -> Freqs \cup {None, App}]
           /\ \A ch \in Channels : s.h.feed[ch].mux \in MuxIds \cup {None}
           /\ \A f \in Freqs : s.h.at[f] \in MuxIds \cup {None}
           /\ \A i \in MuxIds : s.mux[i] \in Mux
BY DEF States, Maps

LEMMA NoneIsNoMux == None \notin MuxIds
BY DEF MuxIds

FeedRecord == [mux : MuxIds \cup {None}, viewers : 0..MaxViewers, enc : BOOLEAN, rec : BOOLEAN,
               linger : BOOLEAN, idle : BOOLEAN]

LEMMA FreshFeed ==
    ASSUME NEW i \in MuxIds
    PROVE  [NoFeed EXCEPT !.mux = i] \in FeedRecord /\ [NoFeed EXCEPT !.mux = i].mux = i
           /\ NoFeed \in FeedRecord
<1>1. 0 \in 0..MaxViewers OBVIOUS
<1>2. NoFeed \in FeedRecord BY <1>1 DEF FeedRecord, NoFeed
<1> QED BY <1>2 DEF FeedRecord

\* The mux that tuner t reads frequency f with, and the feed that joins it.
NewMux(f, t) == [NoMux EXCEPT !.freq = f, !.tuner = t, !.rd = "reading"]
Joined(m, ch) == [m EXCEPT !.feeds = m.feeds \cup {ch}]

LEMMA FreshMux ==
    ASSUME NEW f \in Freqs, NEW t \in Tuners, NEW ch \in Channels
    PROVE  /\ Joined(NewMux(f, t), ch) \in Mux /\ Joined(NewMux(f, t), ch).freq = f
           /\ Joined(NewMux(f, t), ch).tuner = t /\ Joined(NewMux(f, t), ch).rd = "reading"
           /\ Joined(NewMux(f, t), ch).feeds = {ch}
<1>1. NoMux \in Mux /\ NoMux.feeds = {} BY DEF NoMux, Mux, ReaderPcs
<1>2. /\ NewMux(f, t) \in Mux /\ NewMux(f, t).freq = f /\ NewMux(f, t).tuner = t
      /\ NewMux(f, t).rd = "reading" /\ NewMux(f, t).feeds = {}
  BY <1>1 DEF Mux, ReaderPcs, NewMux
<1> QED BY <1>2 DEF Mux, Joined

LEMMA CurrentIs ==
    ASSUME NEW s \in States, Sound(s)
    PROVE  /\ Current(s) \subseteq MuxIds
           /\ \A i \in Current(s) : /\ s.mux[i].freq \in Freqs /\ s.h.at[s.mux[i].freq] = i
                                    /\ s.mux[i].feeds # {} /\ s.mux[i].feeds \subseteq Channels
                                    /\ \A ch \in s.mux[i].feeds : s.h.feed[ch].mux = i
                                    /\ s.mux[i].tuner \in Tuners
<1>1. \A f \in Freqs : s.h.at[f] \in MuxIds \cup {None} BY Parts
<1>2. \A i \in MuxIds : s.mux[i].feeds \subseteq Channels BY Parts DEF Mux
<1>3. Current(s) \subseteq MuxIds BY <1>1 DEF Current
<1>4. ASSUME NEW i \in Current(s)
      PROVE  /\ s.mux[i].freq \in Freqs /\ s.h.at[s.mux[i].freq] = i
             /\ s.mux[i].feeds # {} /\ \A ch \in s.mux[i].feeds : s.h.feed[ch].mux = i
             /\ s.mux[i].tuner \in Tuners
  <2>1. PICK f \in Freqs : s.h.at[f] = i /\ i # None BY DEF Current
  <2> QED BY <2>1, <1>3 DEF Sound, AtSound, MuxesSound
<1> QED BY <1>2, <1>3, <1>4

\* The feeds of chs are gone in t, and the others as they were in s.
Stopped(s, chs, t) ==
    /\ t \in States /\ Sound(t) /\ (Room(s) => Room(t))
    /\ \A ch \in Channels \ chs : t.h.feed[ch] = s.h.feed[ch]
    /\ \A ch \in chs : t.h.feed[ch] = NoFeed
    /\ \A f \in Freqs : t.h.at[f] \in {s.h.at[f], None}

LEMMA StopFeedsDoes ==
    ASSUME NEW s \in States, Sound(s), NEW chs \in SUBSET Channels, NEW retune \in BOOLEAN
    PROVE  Stopped(s, chs, StopFeeds(s, chs, retune))
<1> DEFINE left(i) == s.mux[i].feeds \ chs
           ended == {i \in Current(s) : s.mux[i].feeds # {} /\ left(i) = {}}
           freed == {s.mux[i].tuner : i \in ended}
           later == IF retune THEN {} ELSE freed
           t == StopFeeds(s, chs, retune)
<1> HIDE DEF t, ended, later
<1>0. /\ s.h \in Maps /\ s.mux \in [MuxIds -> Mux] /\ s.conn \subseteq Tuners
      /\ s.dev \in [Tuners -> Freqs \cup {None, App}]
  BY Parts
<1>1. ended \subseteq Current(s) /\ Current(s) \subseteq MuxIds BY CurrentIs DEF ended
<1>2. freed \subseteq Tuners BY <1>1, CurrentIs
<1>3. later \subseteq Tuners BY <1>2 DEF later
<1>4. /\ t.h = [s.h EXCEPT !.feed = [ch \in Channels |-> IF ch \in chs THEN NoFeed ELSE s.h.feed[ch]],
                           !.at = [f \in Freqs |-> IF s.h.at[f] \in ended THEN None ELSE s.h.at[f]],
                           !.pending = s.h.pending \cup later, !.releasing = s.h.releasing \cup later]
      /\ t.mux = [i \in MuxIds |->
                    IF i \in ended /\ s.mux[i].rd = "reading" THEN NoMux
                    ELSE IF i \in Current(s) THEN [s.mux[i] EXCEPT !.feeds = left(i)]
                    ELSE s.mux[i]]
      /\ t.conn = s.conn \ freed /\ t.dev = s.dev
      /\ t = [h |-> t.h, mux |-> t.mux, conn |-> t.conn, dev |-> t.dev]
  <2> HIDE DEF left
  <2>1. t = [h |-> [s.h EXCEPT
                  !.feed = [ch \in Channels |-> IF ch \in chs THEN NoFeed ELSE @[ch]],
                  !.at = [f \in Freqs |-> IF @[f] \in ended THEN None ELSE @[f]],
                  !.pending = @ \cup later, !.releasing = @ \cup later],
         mux |-> [i \in MuxIds |->
                    IF i \in ended /\ s.mux[i].rd = "reading" THEN NoMux
                    ELSE IF i \in Current(s) THEN [s.mux[i] EXCEPT !.feeds = left(i)]
                    ELSE s.mux[i]],
         conn |-> s.conn \ freed,
         dev |-> s.dev]
    BY DEF t, StopFeeds, ended, later, left
  <2> QED BY <2>1
<1>5. /\ t.h.feed = [ch \in Channels |-> IF ch \in chs THEN NoFeed ELSE s.h.feed[ch]]
      /\ t.h.at = [f \in Freqs |-> IF s.h.at[f] \in ended THEN None ELSE s.h.at[f]]
      /\ t.h.pending = s.h.pending \cup later /\ t.h.releasing = s.h.releasing \cup later
      /\ t.h.tuning = s.h.tuning /\ t.h.opening = s.h.opening
      /\ t.h = [feed |-> t.h.feed, at |-> t.h.at, pending |-> t.h.pending,
                releasing |-> t.h.releasing, tuning |-> t.h.tuning, opening |-> t.h.opening]
  BY <1>0, <1>4 DEF Maps
<1>6. \A i \in MuxIds : left(i) \subseteq Channels BY <1>0 DEF Mux
<1>7. t \in States
  <2>1. t.h \in Maps
    <3>1. [ch \in Channels |-> IF ch \in chs THEN NoFeed ELSE s.h.feed[ch]]
            \in [Channels -> [mux : MuxIds \cup {None}, viewers : 0..MaxViewers, enc : BOOLEAN, rec : BOOLEAN,
                              linger : BOOLEAN, idle : BOOLEAN]]
      BY <1>0 DEF Maps, NoFeed
    <3>2. [f \in Freqs |-> IF s.h.at[f] \in ended THEN None ELSE s.h.at[f]] \in [Freqs -> MuxIds \cup {None}]
      BY <1>0 DEF Maps
    <3> QED BY <1>0, <1>3, <1>5, <3>1, <3>2 DEF Maps
  <2>2. t.mux \in [MuxIds -> Mux]
    <3>1. NoMux \in Mux BY DEF NoMux, Mux, ReaderPcs
    <3>2. \A i \in MuxIds : [s.mux[i] EXCEPT !.feeds = left(i)] \in Mux BY <1>0, <1>6 DEF Mux
    <3> QED BY <1>0, <1>4, <3>1, <3>2
  <2> QED BY <1>0, <1>4, <2>1, <2>2 DEF States
<1>8. \A i \in MuxIds : /\ t.mux[i].rd \in {s.mux[i].rd, "off"} /\ (i \notin ended => t.mux[i].rd = s.mux[i].rd)
                        /\ t.mux[i].rd # "off" => t.mux[i].freq = s.mux[i].freq /\ t.mux[i].tuner = s.mux[i].tuner
                                                    /\ t.mux[i].to = s.mux[i].to
                        /\ (i \in Current(s) \ ended) => t.mux[i].freq = s.mux[i].freq /\ t.mux[i].feeds = left(i)
  <2> SUFFICES ASSUME NEW i \in MuxIds
               PROVE  /\ t.mux[i].rd \in {s.mux[i].rd, "off"} /\ (i \notin ended => t.mux[i].rd = s.mux[i].rd)
                      /\ t.mux[i].rd # "off" => t.mux[i].freq = s.mux[i].freq /\ t.mux[i].tuner = s.mux[i].tuner
                                                    /\ t.mux[i].to = s.mux[i].to
                      /\ (i \in Current(s) \ ended) => t.mux[i].freq = s.mux[i].freq /\ t.mux[i].feeds = left(i)
    OBVIOUS
  <2>1. s.mux[i] \in Mux BY <1>0
  <2> HIDE DEF left
  <2>2. CASE i \in ended /\ s.mux[i].rd = "reading" BY <1>4, <2>2 DEF NoMux
  <2>3. CASE ~(i \in ended /\ s.mux[i].rd = "reading") /\ i \in Current(s) BY <1>4, <2>1, <2>3 DEF Mux
  <2>4. CASE ~(i \in ended /\ s.mux[i].rd = "reading") /\ i \notin Current(s) BY <1>4, <2>4
  <2> QED BY <2>2, <2>3, <2>4
<1>9. MuxesSound(t) BY <1>8 DEF Sound, MuxesSound
<1>10. Bare(t) BY <1>5 DEF Sound, Bare, NoFeed
<1>11. \A i \in Current(s) \ ended : left(i) # {}
  BY CurrentIs DEF ended
<1>12. ASSUME NEW ch \in Channels, t.h.feed[ch].mux # None
       PROVE  /\ ch \notin chs /\ s.h.feed[ch].mux \in Current(s) \ ended
              /\ t.h.feed[ch] = s.h.feed[ch] /\ s.h.at[Freq[ch]] = s.h.feed[ch].mux
              /\ s.mux[s.h.feed[ch].mux].freq = Freq[ch] /\ ch \in left(s.h.feed[ch].mux)
  <2>1. ch \notin chs /\ t.h.feed[ch] = s.h.feed[ch] BY <1>5, <1>12 DEF NoFeed
  <2>2. s.h.at[Freq[ch]] = s.h.feed[ch].mux /\ ch \in left(s.h.feed[ch].mux) /\ s.mux[s.h.feed[ch].mux].freq = Freq[ch]
    BY <1>12, <2>1 DEF Sound, FeedsSound
  <2>3. s.h.feed[ch].mux \in Current(s) BY <1>12, <2>1, <2>2 DEF Current, Freqs
  <2> QED BY <2>1, <2>2, <2>3 DEF ended
<1>13. FeedsSound(t)
  <2> SUFFICES ASSUME NEW ch \in Channels, t.h.feed[ch].mux # None
               PROVE  /\ ch \in t.mux[t.h.feed[ch].mux].feeds
                      /\ t.mux[t.h.feed[ch].mux].freq = Freq[ch]
                      /\ t.h.at[Freq[ch]] = t.h.feed[ch].mux
    BY DEF FeedsSound
  <2> DEFINE i == s.h.feed[ch].mux
  <2>1. /\ i \in Current(s) \ ended /\ t.h.feed[ch].mux = i /\ s.h.at[Freq[ch]] = i
        /\ s.mux[i].freq = Freq[ch] /\ ch \in left(i)
    BY <1>12
  <2>2. i \in MuxIds /\ Freq[ch] \in Freqs BY <2>1, <1>1 DEF Freqs
  <2> HIDE DEF left, i
  <2>3. t.mux[i].feeds = left(i) /\ t.mux[i].freq = s.mux[i].freq BY <2>1, <2>2, <1>8
  <2>4. t.h.at[Freq[ch]] = i BY <2>1, <2>2, <1>5
  <2> QED BY <2>1, <2>3, <2>4
<1>14. AtSound(t)
  <2> SUFFICES ASSUME NEW f \in Freqs, t.h.at[f] # None
               PROVE  /\ t.mux[t.h.at[f]].freq = f /\ t.mux[t.h.at[f]].rd # "off"
                      /\ t.mux[t.h.at[f]].feeds # {}
                      /\ \A ch \in t.mux[t.h.at[f]].feeds : t.h.feed[ch].mux = t.h.at[f]
    BY DEF AtSound
  <2>1. t.h.at[f] = s.h.at[f] /\ s.h.at[f] \in Current(s) \ ended /\ s.h.at[f] # None BY <1>5 DEF Current
  <2>2. /\ s.mux[s.h.at[f]].freq = f /\ s.mux[s.h.at[f]].rd # "off"
        /\ \A ch \in s.mux[s.h.at[f]].feeds : s.h.feed[ch].mux = s.h.at[f]
    BY <2>1 DEF Sound, AtSound
  <2>3. \A ch \in left(s.h.at[f]) : t.h.feed[ch] = s.h.feed[ch] BY <1>5, <1>6, <2>1, <1>1
  <2> QED BY <2>1, <2>2, <2>3, <1>8, <1>11, <1>1
<1>15. Room(s) => Room(t) BY <1>8 DEF Room
<1>16. Sound(t) BY <1>9, <1>10, <1>13, <1>14 DEF Sound
<1>17. Stopped(s, chs, t) BY <1>5, <1>7, <1>15, <1>16 DEF Stopped
<1> QED BY <1>17 DEF t

\* Channel ch is tuned in t, and the other feeds are as they were in s.
Added(s, ch, t) ==
    /\ t \in States /\ Sound(t) /\ Keeps(s, t) /\ Tuned(t, ch)
    /\ \A x \in Channels \ {ch} : t.h.feed[x] = s.h.feed[x]

LEMMA AddFeedDoes ==
    ASSUME NEW s \in States, Sound(s), NEW ch \in Channels, ~Tuned(s, ch), s.h.at[Freq[ch]] # None
    PROVE  Added(s, ch, AddFeed(s, s.h.at[Freq[ch]], ch))
<1> DEFINE i == s.h.at[Freq[ch]]
           fd == [NoFeed EXCEPT !.mux = i]
           t == AddFeed(s, i, ch)
<1>0. /\ s.h \in Maps /\ s.mux \in [MuxIds -> Mux] /\ s.conn \subseteq Tuners
      /\ s.dev \in [Tuners -> Freqs \cup {None, App}] /\ Freq[ch] \in Freqs
      /\ s = [h |-> s.h, mux |-> s.mux, conn |-> s.conn, dev |-> s.dev]
  BY Parts DEF Freqs
<1>1. i \in MuxIds /\ s.mux[i] \in Mux /\ s.mux[i].freq = Freq[ch] BY Parts, <1>0 DEF Sound, AtSound
<1>2. fd \in FeedRecord /\ fd.mux = i BY <1>1, FreshFeed
<1> HIDE DEF fd
<1>3. /\ t.h.feed = [s.h.feed EXCEPT ![ch] = fd] /\ t.h.at = s.h.at
      /\ t.h.pending = s.h.pending /\ t.h.releasing = s.h.releasing
      /\ t.h.tuning = s.h.tuning /\ t.h.opening = s.h.opening
      /\ t.h = [feed |-> t.h.feed, at |-> t.h.at, pending |-> t.h.pending,
                releasing |-> t.h.releasing, tuning |-> t.h.tuning, opening |-> t.h.opening]
      /\ t.mux = [s.mux EXCEPT ![i] = [s.mux[i] EXCEPT !.feeds = s.mux[i].feeds \cup {ch}]]
      /\ t.conn = s.conn /\ t.dev = s.dev
      /\ t = [h |-> t.h, mux |-> t.mux, conn |-> t.conn, dev |-> t.dev]
  <2>1. t = [s EXCEPT !.h = [s.h EXCEPT !.feed = [s.h.feed EXCEPT ![ch] = fd]],
                      !.mux = [s.mux EXCEPT ![i] = [s.mux[i] EXCEPT !.feeds = s.mux[i].feeds \cup {ch}]]]
    BY <1>0, <1>1 DEF AddFeed, fd
  <2> HIDE DEF t, i
  <2> QED BY <2>1, <1>0 DEF Maps
<1> HIDE DEF t, i
<1>4. /\ \A j \in MuxIds \ {i} : t.mux[j] = s.mux[j]
      /\ t.mux[i] \in Mux /\ t.mux[i].feeds = s.mux[i].feeds \cup {ch} /\ t.mux[i].freq = s.mux[i].freq
      /\ t.mux[i].rd = s.mux[i].rd /\ t.mux[i].tuner = s.mux[i].tuner /\ t.mux[i].to = s.mux[i].to
  BY <1>0, <1>1, <1>3 DEF Mux
<1>5. t.h.feed[ch] = fd /\ \A x \in Channels \ {ch} : t.h.feed[x] = s.h.feed[x]
  BY <1>0, <1>3 DEF Maps
<1>6. t \in States
  <2>1. t.h \in Maps BY <1>0, <1>2, <1>3 DEF Maps, FeedRecord
  <2>2. t.mux \in [MuxIds -> Mux]
    <3>1. t.mux = [j \in MuxIds |-> t.mux[j]] BY <1>0, <1>3
    <3>2. \A j \in MuxIds : t.mux[j] \in Mux BY <1>0, <1>4
    <3> QED BY ONLY <3>1, <3>2
  <2> QED BY <1>0, <1>3, <2>1, <2>2 DEF States
<1>7. MuxesSound(t) BY <1>4 DEF Sound, MuxesSound
<1>8. Bare(t) BY NoneIsNoMux, <1>1, <1>2, <1>5 DEF Sound, Bare
<1>9. FeedsSound(t)
  <2> SUFFICES ASSUME NEW x \in Channels, t.h.feed[x].mux # None
               PROVE  /\ x \in t.mux[t.h.feed[x].mux].feeds
                      /\ t.mux[t.h.feed[x].mux].freq = Freq[x]
                      /\ t.h.at[Freq[x]] = t.h.feed[x].mux
    BY DEF FeedsSound
  <2>3. t.h.at = s.h.at BY <1>3
  <2>1. CASE x = ch BY <2>1, <2>3, <1>1, <1>2, <1>4, <1>5 DEF i
  <2>2. CASE x # ch
    <3>1. t.h.feed[x] = s.h.feed[x] /\ s.h.feed[x].mux \in MuxIds BY <2>2, <1>5, Parts
    <3>2. /\ x \in s.mux[s.h.feed[x].mux].feeds /\ s.mux[s.h.feed[x].mux].freq = Freq[x]
          /\ s.h.at[Freq[x]] = s.h.feed[x].mux
      BY <3>1 DEF Sound, FeedsSound
    <3>3. CASE s.h.feed[x].mux = i BY <3>1, <3>2, <3>3, <2>3, <1>4
    <3>4. CASE s.h.feed[x].mux # i BY <3>1, <3>2, <3>4, <2>3, <1>4
    <3> QED BY <3>3, <3>4
  <2> QED BY <2>1, <2>2
<1>10. AtSound(t)
  <2> SUFFICES ASSUME NEW f \in Freqs, t.h.at[f] # None
               PROVE  /\ t.mux[t.h.at[f]].freq = f /\ t.mux[t.h.at[f]].rd # "off"
                      /\ t.mux[t.h.at[f]].feeds # {}
                      /\ \A x \in t.mux[t.h.at[f]].feeds : t.h.feed[x].mux = t.h.at[f]
    BY DEF AtSound
  <2>6. t.h.at[f] = s.h.at[f] BY <1>3
  <2>7. s.h.at[f] \in MuxIds BY <2>6, Parts
  <2>8. s.mux[s.h.at[f]].feeds \subseteq Channels BY <1>0, <2>7 DEF Mux
  <2>9. /\ s.mux[s.h.at[f]].freq = f
        /\ s.mux[s.h.at[f]].rd # "off" /\ s.mux[s.h.at[f]].feeds # {}
        /\ \A x \in s.mux[s.h.at[f]].feeds : s.h.feed[x].mux = s.h.at[f]
    BY <2>6 DEF Sound, AtSound
  <2>1. /\ t.h.at[f] = s.h.at[f] /\ s.h.at[f] \in MuxIds /\ s.mux[s.h.at[f]].freq = f
        /\ s.mux[s.h.at[f]].rd # "off" /\ s.mux[s.h.at[f]].feeds # {}
        /\ s.mux[s.h.at[f]].feeds \subseteq Channels
        /\ \A x \in s.mux[s.h.at[f]].feeds : s.h.feed[x].mux = s.h.at[f]
    BY ONLY <2>6, <2>7, <2>8, <2>9
  <2>2. ch \notin s.mux[s.h.at[f]].feeds BY <2>1
  <2>3. \A x \in s.mux[s.h.at[f]].feeds : t.h.feed[x].mux = t.h.at[f] BY <1>5, <2>1, <2>2
  <2>4. CASE s.h.at[f] = i BY <2>1, <2>3, <2>4, <1>2, <1>4, <1>5
  <2>5. CASE s.h.at[f] # i
    <3>1. t.mux[s.h.at[f]] = s.mux[s.h.at[f]] BY <2>1, <2>5, <1>4
    <3> QED BY ONLY <3>1, <2>1, <2>3
  <2> QED BY <2>4, <2>5
<1>11. Keeps(s, t)
  <2>1. s.h.feed[ch].rec = FALSE BY DEF Sound, Bare, NoFeed
  <2> QED BY <2>1, <1>5 DEF Keeps
<1>12. Sound(t) BY <1>7, <1>8, <1>9, <1>10 DEF Sound
<1>13. Tuned(t, ch) BY <1>1, <1>2, <1>5, NoneIsNoMux
<1>14. Added(s, ch, t) BY <1>5, <1>6, <1>11, <1>12, <1>13 DEF Added
<1> QED BY <1>14 DEF t, i

LEMMA BeginMuxDoes ==
    ASSUME NEW s \in States, Sound(s), NEW ch \in Channels, ~Tuned(s, ch), s.h.at[Freq[ch]] = None,
           NEW t \in Tuners, Room(s)
    PROVE  Added(s, ch, BeginMux(s, ch, Freq[ch], t))
<1> DEFINE i == CHOOSE j \in MuxIds : s.mux[j].rd = "off"
           f == Freq[ch]
           n == NewMux(f, t)
           m == Joined(n, ch)
           fd == [NoFeed EXCEPT !.mux = i]
           r == BeginMux(s, ch, f, t)
<1>0. /\ s.h \in Maps /\ s.mux \in [MuxIds -> Mux] /\ s.conn \subseteq Tuners
      /\ s.dev \in [Tuners -> Freqs \cup {None, App}] /\ f \in Freqs
      /\ s = [h |-> s.h, mux |-> s.mux, conn |-> s.conn, dev |-> s.dev]
  BY Parts DEF Freqs
<1>1. i \in MuxIds /\ s.mux[i].rd = "off" BY DEF Room
<1> HIDE DEF i
<1>2. fd \in FeedRecord /\ fd.mux = i BY <1>1, FreshFeed
<1> HIDE DEF fd
<1>3. m \in Mux /\ m.freq = f /\ m.tuner = t /\ m.rd = "reading" /\ m.feeds = {ch}
  <2>1. Freq[ch] \in Freqs BY <1>0
  <2> HIDE DEF m, n, f, r
  <2>2. /\ Joined(NewMux(Freq[ch], t), ch) \in Mux /\ Joined(NewMux(Freq[ch], t), ch).freq = Freq[ch]
        /\ Joined(NewMux(Freq[ch], t), ch).tuner = t /\ Joined(NewMux(Freq[ch], t), ch).rd = "reading"
        /\ Joined(NewMux(Freq[ch], t), ch).feeds = {ch}
    BY ONLY <2>1, FreshMux, t \in Tuners, ch \in Channels
  <2> QED BY <2>2 DEF m, n, f
<1> HIDE DEF m, n
<1>4. /\ r.h.feed = [s.h.feed EXCEPT ![ch] = fd] /\ r.h.at = [s.h.at EXCEPT ![f] = i]
      /\ r.h.pending = s.h.pending /\ r.h.releasing = s.h.releasing
      /\ r.h.tuning = s.h.tuning /\ r.h.opening = s.h.opening
      /\ r.h = [feed |-> r.h.feed, at |-> r.h.at, pending |-> r.h.pending,
                releasing |-> r.h.releasing, tuning |-> r.h.tuning, opening |-> r.h.opening]
      /\ r.mux = [s.mux EXCEPT ![i] = m]
      /\ r.conn = s.conn /\ r.dev = s.dev
      /\ r = [h |-> r.h, mux |-> r.mux, conn |-> r.conn, dev |-> r.dev]
  <2> DEFINE mx == [s.mux EXCEPT ![i] = n]
             hh == [s.h EXCEPT !.at = [s.h.at EXCEPT ![f] = i]]
             q == [s EXCEPT !.mux = mx, !.h = hh]
  <2>1. r = AddFeed(q, i, ch) BY <1>0 DEF BeginMux, i, n, NewMux
  <2>8. q = [s EXCEPT !.mux = mx, !.h = hh] OBVIOUS
  <2> HIDE DEF mx, hh, q
  <2>9. /\ q.h = hh /\ q.mux = mx
        /\ q.conn = s.conn /\ q.dev = s.dev /\ q = [h |-> q.h, mux |-> q.mux, conn |-> q.conn, dev |-> q.dev]
    BY <1>0, <2>8
  <2>2. /\ q.h = [s.h EXCEPT !.at = [s.h.at EXCEPT ![f] = i]]
        /\ q.mux = [s.mux EXCEPT ![i] = n]
        /\ q.conn = s.conn /\ q.dev = s.dev /\ q = [h |-> q.h, mux |-> q.mux, conn |-> q.conn, dev |-> q.dev]
    BY <2>9 DEF mx, hh
  <2>3. q.mux[i] = n BY <1>0, <1>1, <2>2
  <2> HIDE DEF r
  <2>4. r = [q EXCEPT !.h = [q.h EXCEPT !.feed = [q.h.feed EXCEPT ![ch] = fd]],
                      !.mux = [q.mux EXCEPT ![i] = [q.mux[i] EXCEPT !.feeds = q.mux[i].feeds \cup {ch}]]]
    BY <2>1 DEF AddFeed, fd
  <2>5. /\ q.h.feed = s.h.feed /\ q.h.at = [s.h.at EXCEPT ![f] = i]
        /\ q.h.pending = s.h.pending /\ q.h.releasing = s.h.releasing
        /\ q.h.tuning = s.h.tuning /\ q.h.opening = s.h.opening
        /\ q.h = [feed |-> q.h.feed, at |-> q.h.at, pending |-> q.h.pending,
                  releasing |-> q.h.releasing, tuning |-> q.h.tuning, opening |-> q.h.opening]
    BY <2>2, <1>0 DEF Maps
  <2>6. [q.mux[i] EXCEPT !.feeds = q.mux[i].feeds \cup {ch}] = m BY <2>3 DEF m, Joined
  <2>7. r.mux = [s.mux EXCEPT ![i] = m] BY <2>2, <2>4, <2>6, <1>0, <1>1
  <2> QED BY <2>2, <2>4, <2>5, <2>7
<1> HIDE DEF r
<1>5. (\A j \in MuxIds \ {i} : r.mux[j] = s.mux[j]) /\ r.mux[i] = m BY <1>0, <1>1, <1>4
<1>6. r.h.feed[ch] = fd /\ \A x \in Channels \ {ch} : r.h.feed[x] = s.h.feed[x]
  BY <1>0, <1>4 DEF Maps
<1>7. r.h.at[f] = i /\ \A g \in Freqs \ {f} : r.h.at[g] = s.h.at[g] BY <1>0, <1>4 DEF Maps
<1>8. r \in States
  <2>1. r.h \in Maps
    <3>1. r.h.feed \in [Channels -> FeedRecord] BY <1>0, <1>2, <1>4 DEF Maps, FeedRecord
    <3>2. r.h.at \in [Freqs -> MuxIds \cup {None}] BY <1>0, <1>1, <1>4 DEF Maps
    <3> QED BY <1>0, <1>4, <3>1, <3>2 DEF Maps, FeedRecord
  <2>2. r.mux \in [MuxIds -> Mux]
    <3> QED BY <1>0, <1>1, <1>3, <1>4
  <2> QED BY <1>0, <1>4, <2>1, <2>2 DEF States
<1>9. MuxesSound(r) BY <1>0, <1>3, <1>5 DEF Sound, MuxesSound
<1>10. Bare(r) BY NoneIsNoMux, <1>1, <1>2, <1>6 DEF Sound, Bare
<1>11. \A g \in Freqs : s.h.at[g] # i
  BY <1>1, NoneIsNoMux DEF Sound, AtSound
<1>12. FeedsSound(r)
  <2> SUFFICES ASSUME NEW x \in Channels, r.h.feed[x].mux # None
               PROVE  /\ x \in r.mux[r.h.feed[x].mux].feeds
                      /\ r.mux[r.h.feed[x].mux].freq = Freq[x]
                      /\ r.h.at[Freq[x]] = r.h.feed[x].mux
    BY DEF FeedsSound
  <2>1. CASE x = ch BY <2>1, <1>2, <1>3, <1>5, <1>6, <1>7
  <2>2. CASE x # ch
    <3>1. r.h.feed[x] = s.h.feed[x] /\ s.h.feed[x].mux \in MuxIds BY <2>2, <1>6, Parts
    <3>2. /\ x \in s.mux[s.h.feed[x].mux].feeds /\ s.mux[s.h.feed[x].mux].freq = Freq[x]
          /\ s.h.at[Freq[x]] = s.h.feed[x].mux /\ Freq[x] \in Freqs
      BY <3>1 DEF Sound, FeedsSound, Freqs
    <3>3. s.h.feed[x].mux # i /\ Freq[x] # f BY <3>1, <3>2, <1>11
    <3>4. r.h.at[Freq[x]] = s.h.at[Freq[x]] BY <3>2, <3>3, <1>7
    <3>5. r.mux[s.h.feed[x].mux] = s.mux[s.h.feed[x].mux] BY <3>1, <3>3, <1>5
    <3> QED BY ONLY <3>1, <3>2, <3>4, <3>5
  <2> QED BY <2>1, <2>2
<1>13. AtSound(r)
  <2> SUFFICES ASSUME NEW g \in Freqs, r.h.at[g] # None
               PROVE  /\ r.mux[r.h.at[g]].freq = g /\ r.mux[r.h.at[g]].rd # "off"
                      /\ r.mux[r.h.at[g]].feeds # {}
                      /\ \A x \in r.mux[r.h.at[g]].feeds : r.h.feed[x].mux = r.h.at[g]
    BY DEF AtSound
  <2>1. CASE g = f BY <2>1, <1>2, <1>3, <1>5, <1>6, <1>7
  <2>2. CASE g # f
    <3>1. /\ r.h.at[g] = s.h.at[g] /\ s.h.at[g] \in MuxIds /\ s.h.at[g] # i
          /\ s.mux[s.h.at[g]].freq = g /\ s.mux[s.h.at[g]].rd # "off" /\ s.mux[s.h.at[g]].feeds # {}
          /\ s.mux[s.h.at[g]].feeds \subseteq Channels
          /\ \A x \in s.mux[s.h.at[g]].feeds : s.h.feed[x].mux = s.h.at[g]
      BY <2>2, <1>0, <1>7, <1>11, Parts DEF Sound, AtSound, Mux
    <3>2. ch \notin s.mux[s.h.at[g]].feeds BY <3>1
    <3>3. \A x \in s.mux[s.h.at[g]].feeds : r.h.feed[x].mux = s.h.at[g] BY <3>1, <3>2, <1>6
    <3>4. r.mux[s.h.at[g]] = s.mux[s.h.at[g]] BY <3>1, <1>5
    <3> QED BY <3>1, <3>3, <3>4
  <2> QED BY <2>1, <2>2
<1>14. Keeps(s, r)
  <2>1. s.h.feed[ch].rec = FALSE BY DEF Sound, Bare, NoFeed
  <2> QED BY <2>1, <1>6 DEF Keeps
<1>15. Sound(r) BY <1>9, <1>10, <1>12, <1>13 DEF Sound
<1>16. Tuned(r, ch) BY <1>1, <1>2, <1>6, NoneIsNoMux
<1>17. Added(s, ch, r) BY <1>6, <1>8, <1>14, <1>15, <1>16 DEF Added
<1> QED BY <1>17 DEF r

-----------------------------------------------------------------------------
(* The operators that only take away: what is tuned in t was tuned in s.    *)

Clears(s, t) ==
    /\ t \in States /\ Sound(t) /\ Keeps(s, t) /\ (Room(s) => Room(t))
    /\ \A f \in Freqs : t.h.at[f] \in {s.h.at[f], None}
    /\ \A ch \in Channels : ~Tuned(s, ch) => ~Tuned(t, ch)

LEMMA ClearsTwice ==
    ASSUME NEW s \in States, NEW t, NEW r, Clears(s, t), Clears(t, r)
    PROVE  Clears(s, r)
BY DEF Clears, Keeps

LEMMA SameMaps ==
    ASSUME NEW s \in States, Sound(s), NEW t \in States,
           t.h.feed = s.h.feed, t.h.at = s.h.at, t.mux = s.mux
    PROVE  Clears(s, t)
<1>1. FeedsSound(t) BY DEF Sound, FeedsSound
<1>2. AtSound(t) BY DEF Sound, AtSound
<1>3. Bare(t) BY DEF Sound, Bare
<1>4. MuxesSound(t) BY DEF Sound, MuxesSound
<1>5. Keeps(s, t) /\ (Room(s) => Room(t)) BY DEF Keeps, Room
<1> QED BY <1>1, <1>2, <1>3, <1>4, <1>5 DEF Clears, Sound

LEMMA StopsClear ==
    ASSUME NEW s \in States, Sound(s), NEW chs \in SUBSET Channels, NEW retune \in BOOLEAN,
           \A ch \in chs : ~s.h.feed[ch].rec
    PROVE  Clears(s, StopFeeds(s, chs, retune))
<1> DEFINE t == StopFeeds(s, chs, retune)
<1>1. Stopped(s, chs, t) BY StopFeedsDoes
<1> HIDE DEF t
<1>2. \A ch \in Channels : ~Tuned(s, ch) => ~Tuned(t, ch) BY <1>1 DEF Stopped, NoFeed
<1>3. Keeps(s, t) BY <1>1 DEF Stopped, Keeps
<1>4. Clears(s, t) BY <1>1, <1>2, <1>3 DEF Stopped, Clears
<1> QED BY <1>4 DEF t

\* Touching a feed's flags and viewers leaves the maps sound.
Touch(s, ch, fd) == [s EXCEPT !.h.feed[ch] = fd]

Touched(s, ch, fd, t) ==
    /\ t \in States /\ Sound(t) /\ t.h.feed[ch] = fd
    /\ \A x \in Channels \ {ch} : t.h.feed[x] = s.h.feed[x]
    /\ t.mux = s.mux /\ t.h.at = s.h.at

LEMMA TouchDoes ==
    ASSUME NEW s \in States, Sound(s), NEW ch \in Channels, Tuned(s, ch),
           NEW fd \in FeedRecord, fd.mux = s.h.feed[ch].mux
    PROVE  Touched(s, ch, fd, Touch(s, ch, fd))
<1> DEFINE t == Touch(s, ch, fd)
<1>10. t = [s EXCEPT !.h.feed[ch] = fd] BY DEF Touch
<1> HIDE DEF t
<1>0. /\ s.h \in Maps /\ s.mux \in [MuxIds -> Mux] /\ s.conn \subseteq Tuners
      /\ s.dev \in [Tuners -> Freqs \cup {None, App}]
      /\ s = [h |-> s.h, mux |-> s.mux, conn |-> s.conn, dev |-> s.dev]
  BY Parts
<1>1. t.h = [s.h EXCEPT !.feed = [s.h.feed EXCEPT ![ch] = fd]] /\ t.mux = s.mux /\ t.conn = s.conn /\ t.dev = s.dev
      /\ t = [h |-> t.h, mux |-> t.mux, conn |-> t.conn, dev |-> t.dev]
  BY <1>0, <1>10
<1>2. /\ t.h.feed = [s.h.feed EXCEPT ![ch] = fd] /\ t.h.at = s.h.at
      /\ t.h.pending = s.h.pending /\ t.h.releasing = s.h.releasing
      /\ t.h.tuning = s.h.tuning /\ t.h.opening = s.h.opening
      /\ t.h = [feed |-> t.h.feed, at |-> t.h.at, pending |-> t.h.pending,
                releasing |-> t.h.releasing, tuning |-> t.h.tuning, opening |-> t.h.opening]
  BY <1>0, <1>1 DEF Maps
<1>3. t.h.feed[ch] = fd /\ \A x \in Channels \ {ch} : t.h.feed[x] = s.h.feed[x]
  BY <1>0, <1>2 DEF Maps
<1>4. t \in States
  <2>1. t.h \in Maps BY <1>0, <1>2 DEF Maps, FeedRecord
  <2> QED BY <1>0, <1>1, <2>1 DEF States
<1>5. \A x \in Channels : t.h.feed[x].mux = s.h.feed[x].mux BY <1>3
<1>13. t.mux = s.mux /\ t.h.at = s.h.at BY <1>1, <1>2
<1>6. FeedsSound(t) BY <1>13, <1>5 DEF Sound, FeedsSound
<1>7. AtSound(t)
  <2>1. \A i \in MuxIds : s.mux[i].feeds \subseteq Channels BY <1>0 DEF Mux
  <2>2. \A f \in Freqs : s.h.at[f] \in MuxIds \cup {None} BY Parts
  <2>3. \A f \in Freqs : s.h.at[f] # None => s.mux[s.h.at[f]].feeds \subseteq Channels BY <2>1, <2>2
  <2>4. t.mux = s.mux /\ t.h.at = s.h.at BY <1>1, <1>2
  <2>5. AtSound(s) BY DEF Sound
  <2> SUFFICES ASSUME NEW f \in Freqs, t.h.at[f] # None
               PROVE  /\ t.mux[t.h.at[f]].freq = f /\ t.mux[t.h.at[f]].rd # "off"
                      /\ t.mux[t.h.at[f]].feeds # {}
                      /\ \A x \in t.mux[t.h.at[f]].feeds : t.h.feed[x].mux = t.h.at[f]
    BY DEF AtSound
  <2> DEFINE i == s.h.at[f]
  <2>6. /\ s.mux[i].freq = f /\ s.mux[i].rd # "off" /\ s.mux[i].feeds # {}
        /\ \A x \in s.mux[i].feeds : s.h.feed[x].mux = i
    BY <2>4, <2>5 DEF AtSound
  <2>7. \A x \in s.mux[i].feeds : t.h.feed[x].mux = i BY <1>5, <2>3, <2>4, <2>6
  <2> QED BY <2>4, <2>6, <2>7
<1>8. Bare(t) BY <1>3, <1>5 DEF Sound, Bare
<1>9. MuxesSound(t) BY <1>1 DEF Sound, MuxesSound
<1>11. Sound(t) BY <1>6, <1>7, <1>8, <1>9 DEF Sound
<1>12. Touched(s, ch, fd, t) BY <1>1, <1>2, <1>3, <1>4, <1>11 DEF Touched
<1> QED BY <1>12 DEF t

LEMMA FeedOf ==
    ASSUME NEW s \in States, NEW ch \in Channels
    PROVE  s.h.feed[ch] \in FeedRecord
BY Parts DEF Maps, FeedRecord

LEMMA DropIfUnusedClears ==
    ASSUME NEW s \in States, Sound(s), NEW ch \in Channels
    PROVE  Clears(s, DropIfUnused(s, ch))
<1>1. CASE Unused(s, ch) BY <1>1, StopsClear DEF DropIfUnused, Unused
<1>2. CASE ~Unused(s, ch) BY <1>2, SameMaps DEF DropIfUnused
<1> QED BY <1>1, <1>2

LEMMA LingerDoes ==
    ASSUME NEW s \in States, Sound(s), NEW ch \in Channels, Tuned(s, ch)
    PROVE  Linger(s, ch) \in States /\ Sound(Linger(s, ch)) /\ Keeps(s, Linger(s, ch))
<1> DEFINE fd == [s.h.feed[ch] EXCEPT !.linger = TRUE]
           t == Touch(s, ch, fd)
<1>0. s.h.feed[ch] \in FeedRecord BY FeedOf
<1>1. fd \in FeedRecord /\ fd.mux = s.h.feed[ch].mux /\ fd.rec = s.h.feed[ch].rec BY <1>0 DEF FeedRecord
<1>2. t = [s EXCEPT !.h.feed[ch] = fd] BY DEF Touch
<1> HIDE DEF fd
<1>3. Touched(s, ch, fd, t) BY <1>1, TouchDoes
<1> HIDE DEF t
<1>4. Keeps(s, t) BY <1>1, <1>3 DEF Keeps, Touched
<1>5. Linger(s, ch) \in {s, t}
  <2>1. s.h \in Maps /\ s = [h |-> s.h, mux |-> s.mux, conn |-> s.conn, dev |-> s.dev] BY Parts
  <2>2. [s EXCEPT !.h.feed[ch].linger = TRUE] = t BY <1>2, <2>1 DEF fd, Maps
  <2> QED BY <2>2 DEF Linger
<1>6. Keeps(s, s) BY DEF Keeps
<1> QED BY <1>3, <1>4, <1>5, <1>6 DEF Touched

\* A request that gets its channel leaves the other feeds alone, and every
\* recording.
LEMMA UseDoes ==
    ASSUME TypeOK, NEW s \in States, Sound(s), NEW c \in Clients, req[c].ch \in Channels, Tuned(s, req[c].ch),
           NEW r \in Use(s, c)
    PROVE  r \in States /\ Sound(r) /\ Keeps(s, r)
<1> DEFINE ch == req[c].ch
<1>1. DropIfUnused(s, ch) \in States /\ Sound(DropIfUnused(s, ch)) /\ Keeps(s, DropIfUnused(s, ch))
  BY DropIfUnusedClears DEF Clears
<1>2. Keeps(s, s) BY DEF Keeps
<1>3. s.h \in Maps /\ s = [h |-> s.h, mux |-> s.mux, conn |-> s.conn, dev |-> s.dev]
      /\ s.h.feed[ch] \in FeedRecord
  BY Parts, FeedOf
<1>4. ASSUME NEW fd \in FeedRecord, fd.mux = s.h.feed[ch].mux, s.h.feed[ch].rec => fd.rec,
             r = [s EXCEPT !.h.feed[ch] = fd]
      PROVE  r \in States /\ Sound(r) /\ Keeps(s, r)
  <2>0. r = Touch(s, ch, fd) BY <1>4 DEF Touch
  <2>1. Touched(s, ch, fd, r) BY <1>4, <2>0, TouchDoes
  <2> QED BY <2>1, <1>4 DEF Keeps, Touched
<1>5. CASE r \in Watching(s, ch)
  <2>1. CASE r = DropIfUnused(s, ch) BY <1>1, <2>1
  <2>2. CASE s.h.feed[ch].viewers # MaxViewers
             /\ r = [s EXCEPT !.h.feed[ch] = [s.h.feed[ch] EXCEPT !.viewers = s.h.feed[ch].viewers + 1,
                                                                  !.enc = TRUE, !.idle = FALSE]]
    <3> DEFINE fd == [s.h.feed[ch] EXCEPT !.viewers = s.h.feed[ch].viewers + 1, !.enc = TRUE, !.idle = FALSE]
    <3>1. s.h.feed[ch].viewers + 1 \in 0..MaxViewers BY <1>3, <2>2 DEF FeedRecord
    <3>2. fd \in FeedRecord /\ fd.mux = s.h.feed[ch].mux /\ fd.rec = s.h.feed[ch].rec
      BY <1>3, <3>1 DEF FeedRecord
    <3>3. r = [s EXCEPT !.h.feed[ch] = fd] BY <2>2
    <3> HIDE DEF fd
    <3> QED BY <1>4, <3>2, <3>3
  <2> QED BY <1>5, <2>1, <2>2 DEF Watching
<1>6. CASE r \in Recording(s, ch)
  <2>1. CASE r \in {s, DropIfUnused(s, ch)} BY <1>1, <1>2, <2>1
  <2>2. CASE r = [s EXCEPT !.h.feed[ch].rec = TRUE]
    <3> DEFINE fd == [s.h.feed[ch] EXCEPT !.rec = TRUE]
    <3>1. fd \in FeedRecord /\ fd.mux = s.h.feed[ch].mux /\ fd.rec BY <1>3 DEF FeedRecord
    <3>2. r = [s EXCEPT !.h.feed[ch] = fd] BY <1>3, <2>2 DEF Maps
    <3> HIDE DEF fd
    <3> QED BY <1>4, <3>1, <3>2
  <2> QED BY <1>6, <2>1, <2>2 DEF Recording
<1> QED BY <1>5, <1>6 DEF Use

LEMMA TakeOverClears ==
    ASSUME NEW s \in States, Sound(s), NEW ids \in SUBSET Current(s),
           \A i \in ids : \A ch \in s.mux[i].feeds : ~s.h.feed[ch].rec
    PROVE  Clears(s, TakeOver(s, ids))
<1> DEFINE ts == {s.mux[i].tuner : i \in ids}
           chs == UNION {s.mux[i].feeds : i \in ids}
           n == StopFeeds(s, chs, TRUE)
           dv == [t \in Tuners |-> IF t \in ts /\ n.dev[t] # App THEN None ELSE n.dev[t]]
           r == [n EXCEPT !.dev = dv]
<1>1. chs \in SUBSET Channels /\ \A ch \in chs : ~s.h.feed[ch].rec BY CurrentIs
<1> HIDE DEF chs
<1>2. Clears(s, n) BY <1>1, StopsClear
<1>3. n \in States /\ Sound(n) BY <1>2 DEF Clears
<1>4. TakeOver(s, ids) = r BY DEF TakeOver, chs
<1> HIDE DEF n, ts
<1>5. dv \in [Tuners -> Freqs \cup {None, App}] BY <1>3, Parts
<1> HIDE DEF dv
<1>6. r \in States /\ r.h = n.h /\ r.mux = n.mux BY <1>3, <1>5, Parts DEF States
<1> HIDE DEF r
<1>7. Clears(n, r) BY <1>3, <1>6, SameMaps
<1> QED BY <1>2, <1>4, <1>7, ClearsTwice

LEMMA WarmIs ==
    ASSUME NEW s \in States, Sound(s)
    PROVE  Warm(s) \subseteq Current(s) /\ \A i \in Warm(s) : \A ch \in s.mux[i].feeds : ~s.h.feed[ch].rec
BY DEF Warm

LEMMA FreeIs ==
    ASSUME NEW s, NEW ts \in SUBSET Tuners, NEW busy
    PROVE  FirstFree(Free(s, ts), busy) \subseteq Tuners
BY DEF FirstFree, Free

\* What a locked tune leaves of s, and the tuner it gets.
LEMMA ChoicesClear ==
    ASSUME NEW s \in States, Sound(s), NEW x \in Choices(s)
    PROVE  Clears(s, x[1]) /\ x[2] \in Tuners \cup {NoTuner}
<1> DEFINE held == Held(s, Free(s, Own))
           first == FirstFree(Free(s, Own), Used(s) \cup held)
           over == FirstFree(Free(s, Other), {})
           warm == {i \in Warm(s) : s.mux[i].tuner \in Own}
           stuck == {i \in warm : s.mux[i].tuner \in held}
<1>1. Clears(s, s) BY SameMaps
<1>2. ASSUME NEW ids \in SUBSET warm PROVE Clears(s, TakeOver(s, ids))
  <2>1. ids \in SUBSET Current(s) /\ \A i \in ids : \A ch \in s.mux[i].feeds : ~s.h.feed[ch].rec BY WarmIs
  <2> QED BY <2>1, TakeOverClears
<1>3. first \subseteq Tuners /\ over \subseteq Tuners
  <2>1. Own \subseteq Tuners /\ Other \subseteq Tuners BY DEF Tuners
  <2> QED BY <2>1, FreeIs
<1>4. \A i \in warm : s.mux[i].tuner \in Tuners BY DEF Tuners
<1> DEFINE Choice == IF first # {} THEN {<<s, t>> : t \in first}
        ELSE IF over # {} THEN {<<s, t>> : t \in over}
        ELSE IF warm \subseteq stuck THEN {<<TakeOver(s, stuck), NoTuner>>}
        ELSE UNION {{<<TakeOver(s, {i} \cup w), s.mux[i].tuner>> : w \in SUBSET stuck} :
                      i \in warm \ stuck}
<1>5. x \in Choice BY DEF Choices
<1>6. stuck \subseteq warm OBVIOUS
<1> HIDE DEF held, first, over, warm, stuck
<1>7. CASE first # {}
  <2>1. PICK t \in first : x = <<s, t>> BY <1>5, <1>7
  <2> QED BY <2>1, <1>1, <1>3
<1>8. CASE first = {} /\ over # {}
  <2>1. PICK t \in over : x = <<s, t>> BY <1>5, <1>8
  <2> QED BY <2>1, <1>1, <1>3
<1>9. CASE first = {} /\ over = {} /\ warm \subseteq stuck
  <2>1. x = <<TakeOver(s, stuck), NoTuner>> BY <1>5, <1>9
  <2> QED BY <2>1, <1>2, <1>6
<1>10. CASE first = {} /\ over = {} /\ ~(warm \subseteq stuck)
  <2>3. x \in UNION {{<<TakeOver(s, {i} \cup w), s.mux[i].tuner>> : w \in SUBSET stuck} : i \in warm \ stuck}
    BY <1>5, <1>10
  <2>4. PICK i \in warm \ stuck : x \in {<<TakeOver(s, {i} \cup w), s.mux[i].tuner>> : w \in SUBSET stuck}
    BY <2>3
  <2>1. PICK w \in SUBSET stuck : x = <<TakeOver(s, {i} \cup w), s.mux[i].tuner>> BY <2>4
  <2>2. {i} \cup w \in SUBSET warm BY <1>6
  <2> QED BY <2>1, <2>2, <1>2, <1>4
<1> QED BY <1>7, <1>8, <1>9, <1>10

-----------------------------------------------------------------------------
(* The sections under h.mu.                                                 *)

Good(s, t) == t \in States /\ Sound(t) /\ Keeps(s, t)

LEMMA GoodTwice ==
    ASSUME NEW s \in States, NEW t, NEW r, Good(s, t), Good(t, r)
    PROVE  Good(s, r)
BY DEF Good, Keeps

LEMMA ClearsGood == ASSUME NEW s, NEW t, Clears(s, t) PROVE Good(s, t)
BY DEF Clears, Good

LEMMA NowTyped == TypeOK => Now \in States
BY DEF TypeOK, Now, States

LEMMA Becomes ==
    ASSUME NEW r \in States, Become(r)
    PROVE  Now' = r
<1>1. r = [h |-> r.h, mux |-> r.mux, conn |-> r.conn, dev |-> r.dev] BY Parts
<1>2. Now' = [h |-> r.h, mux |-> r.mux, conn |-> r.conn, dev |-> r.dev] BY DEF Now, Become
<1> QED BY <1>1, <1>2

\* Opening a stream, and releasing a tuner, change nothing of the maps.
LEMMA OpensClears ==
    ASSUME NEW s \in States, Sound(s), NEW t \in Tuners, NEW f \in Freqs
    PROVE  Clears(s, Opens(s, t, f))
<1>1. /\ s.h \in Maps /\ s.mux \in [MuxIds -> Mux] /\ s.conn \subseteq Tuners
      /\ s.dev \in [Tuners -> Freqs \cup {None, App}]
      /\ s = [h |-> s.h, mux |-> s.mux, conn |-> s.conn, dev |-> s.dev]
  BY Parts
<1> DEFINE r == Opens(s, t, f)
<1>2. r.h = s.h /\ r.mux = s.mux /\ r.conn = s.conn \cup {t} /\ r.dev = [s.dev EXCEPT ![t] = f]
      /\ r = [h |-> r.h, mux |-> r.mux, conn |-> r.conn, dev |-> r.dev]
  <2> DEFINE dv == [s.dev EXCEPT ![t] = f]
             cn == s.conn \cup {t}
  <2>1. r = [s EXCEPT !.dev = dv, !.conn = cn] BY <1>1 DEF Opens
  <2> HIDE DEF r, dv, cn
  <2>2. r.h = s.h /\ r.mux = s.mux /\ r.conn = cn /\ r.dev = dv
        /\ r = [h |-> r.h, mux |-> r.mux, conn |-> r.conn, dev |-> r.dev]
    BY <1>1, <2>1
  <2> QED BY <2>2 DEF dv, cn
<1> HIDE DEF r
<1>3. r.dev \in [Tuners -> Freqs \cup {None, App}] BY <1>1, <1>2
<1>4. r \in States BY <1>1, <1>2, <1>3 DEF States
<1>5. Clears(s, r) BY <1>2, <1>4, SameMaps
<1> QED BY <1>5 DEF r

LEMMA ReleaseClears ==
    ASSUME NEW s \in States, Sound(s), NEW t \in Tuners
    PROVE  Clears(s, Release(s, t))
<1>1. /\ s.h \in Maps /\ s.mux \in [MuxIds -> Mux] /\ s.conn \subseteq Tuners
      /\ s.dev \in [Tuners -> Freqs \cup {None, App}]
      /\ s = [h |-> s.h, mux |-> s.mux, conn |-> s.conn, dev |-> s.dev]
  BY Parts
<1> DEFINE r == Release(s, t)
           v == IF s.dev[t] = App THEN App ELSE None
<1>2. r.h = s.h /\ r.mux = s.mux /\ r.conn = s.conn \ {t} /\ r.dev = [s.dev EXCEPT ![t] = v]
      /\ r = [h |-> r.h, mux |-> r.mux, conn |-> r.conn, dev |-> r.dev]
  <2> DEFINE dv == [s.dev EXCEPT ![t] = v]
             cn == s.conn \ {t}
  <2>1. r = [s EXCEPT !.dev = dv, !.conn = cn] BY <1>1 DEF Release
  <2> HIDE DEF r, dv, cn
  <2>2. r.h = s.h /\ r.mux = s.mux /\ r.conn = cn /\ r.dev = dv
        /\ r = [h |-> r.h, mux |-> r.mux, conn |-> r.conn, dev |-> r.dev]
    BY <1>1, <2>1
  <2> QED BY <2>2 DEF dv, cn
<1> HIDE DEF r
<1>3. r.dev \in [Tuners -> Freqs \cup {None, App}] BY <1>1, <1>2
<1>4. r \in States BY <1>1, <1>2, <1>3 DEF States
<1>5. Clears(s, r) BY <1>2, <1>4, SameMaps
<1> QED BY <1>5 DEF r

\* A channel that is not tuned and has a frequency of its own has no mux there.
LEMMA Alone ==
    ASSUME KnownOrAlone, NEW s \in States, Sound(s), NEW ch \in Channels, ~Tuned(s, ch),
           ch \in Unknown
    PROVE  s.h.at[Freq[ch]] = None
<1> SUFFICES ASSUME s.h.at[Freq[ch]] # None PROVE FALSE OBVIOUS
<1> DEFINE i == s.h.at[Freq[ch]]
<1>1. Freq[ch] \in Freqs BY DEF Freqs
<1>2. i \in MuxIds /\ s.mux[i].feeds # {} /\ \A x \in s.mux[i].feeds : s.h.feed[x].mux = i
  BY <1>1, Parts DEF Sound, AtSound
<1>3. PICK x \in s.mux[i].feeds : TRUE BY <1>2
<1>4. x \in Channels BY <1>2, <1>3, Parts DEF Mux
<1>5. s.h.feed[x].mux = i /\ s.mux[i].freq = Freq[x] BY <1>2, <1>3, <1>4, NoneIsNoMux DEF Sound, FeedsSound
<1>6. s.mux[i].freq = Freq[ch] BY <1>1 DEF Sound, AtSound
<1>7. x = ch BY <1>4, <1>5, <1>6 DEF KnownOrAlone
<1> QED BY <1>2, <1>5, <1>7, NoneIsNoMux

LEMMA Learned ==
    ASSUME TypeOK, NEW f, Learn(f) \/ UNCHANGED known
    PROVE  known \subseteq known' /\ known' \subseteq Channels
BY DEF TypeOK, Learn

LEMMA TuneNowDoes ==
    ASSUME TypeOK, NEW s \in States, Sound(s), Room(s), NEW c \in Clients, req[c].ch \in Channels,
           ~Tuned(s, req[c].ch), s.h.at[Freq[req[c].ch]] = None, NEW t \in Tuners, TuneNow(s, t, c)
    PROVE  Good(s, Now') /\ known \subseteq known' /\ known' \subseteq Channels
<1> DEFINE ch == req[c].ch
           f == Freq[ch]
<1>1. f \in Freqs BY DEF Freqs
<1>2. CASE /\ CanOpen(s, t)
           /\ \E r \in Use(BeginMux(Opens(s, t, f), ch, f, t), c) : Become(r)
           /\ Learn(f)
  <2> DEFINE o == Opens(s, t, f)
             b == BeginMux(o, ch, f, t)
  <2>1. Clears(s, o) BY <1>1, OpensClears
  <2>2. o \in States /\ Sound(o) /\ Room(o) /\ ~Tuned(o, ch) /\ o.h.at[f] = None BY <1>1, <2>1 DEF Clears
  <2> HIDE DEF o
  <2>3. Added(o, ch, b) BY <2>2, BeginMuxDoes
  <2>4. b \in States /\ Sound(b) /\ Tuned(b, ch) BY <2>3 DEF Added
  <2>5. PICK r \in Use(b, c) : Become(r) BY <1>2 DEF o
  <2> HIDE DEF b
  <2>6. Good(b, r) BY <2>4, <2>5, UseDoes DEF Good
  <2>7. Good(s, o) /\ Good(o, b) BY <2>1, <2>3, ClearsGood DEF Added, Good
  <2>8. Good(s, r) BY <2>2, <2>6, <2>7, GoodTwice
  <2>9. Now' = r BY <2>5, <2>8, Becomes DEF Good
  <2> QED BY <2>8, <2>9, <1>2, Learned
<1>3. CASE Become(s) /\ UNCHANGED known
  <2>1. Now' = s BY <1>3, Becomes
  <2> QED BY <2>1, <1>3, Learned DEF Good, Keeps
<1> QED BY <1>2, <1>3 DEF TuneNow

\* What a request knows: its channel, that channel's frequency, its tuner.
AskedBy(r) ==
    /\ r.pc # "idle" => r.ch \in Channels
    /\ r.pc \in {"clear", "stream", "attach"} => r.tuner \in Tuners
    /\ r.pc # "idle" /\ r.freq # None => r.freq = Freq[r.ch]
    /\ r.pc # "idle" /\ r.freq = None => r.ch \in Unknown
    /\ r.pc = "attach" /\ r.ok => r.freq # None

Asked == \A c \in Clients : AskedBy(req[c])

LEMMA PreemptDoes ==
    ASSUME TypeOK, NEW s \in States, Sound(s), Room(s), NEW c \in Clients, req[c].ch \in Channels,
           ~Tuned(s, req[c].ch), s.h.at[Freq[req[c].ch]] = None, Preempt(s, c)
    PROVE  Good(s, Now') /\ known \subseteq known' /\ known' \subseteq Channels
<1> DEFINE victims == IF req[c].kind = "record" THEN Preemptible(s, req[c].ch, req[c].freq) ELSE {}
<1>1. victims \subseteq Current(s) /\ \A i \in victims : \A ch \in s.mux[i].feeds : ~s.h.feed[ch].rec
  BY DEF Preemptible
<1>2. IF victims = {} THEN Become(s) /\ UNCHANGED known
        ELSE \E i \in victims : \E x \in Choices(TakeOver(s, {i})) :
                IF x[2] # NoTuner THEN TuneNow(x[1], x[2], c)
                ELSE Become(x[1]) /\ UNCHANGED known
  BY DEF Preempt
<1> HIDE DEF victims
<1>3. CASE victims = {}
  <2>1. Now' = s BY <1>2, <1>3, Becomes
  <2> QED BY <2>1, <1>2, <1>3, Learned DEF Good, Keeps
<1>4. CASE victims # {}
  <2>1. PICK i \in victims : \E x \in Choices(TakeOver(s, {i})) :
                IF x[2] # NoTuner THEN TuneNow(x[1], x[2], c)
                ELSE Become(x[1]) /\ UNCHANGED known
    BY <1>2, <1>4
  <2>2. {i} \in SUBSET Current(s) /\ \A j \in {i} : \A ch \in s.mux[j].feeds : ~s.h.feed[ch].rec BY <1>1
  <2>3. Clears(s, TakeOver(s, {i})) BY <2>2, TakeOverClears
  <2> DEFINE o == TakeOver(s, {i})
  <2> HIDE DEF o
  <2>4. PICK x \in Choices(o) : IF x[2] # NoTuner THEN TuneNow(x[1], x[2], c)
                                ELSE Become(x[1]) /\ UNCHANGED known
    BY <2>1 DEF o
  <2>5. Clears(s, o) /\ o \in States /\ Sound(o) BY <2>3 DEF o, Clears
  <2>6. Clears(o, x[1]) /\ x[2] \in Tuners \cup {NoTuner} BY <2>5, ChoicesClear
  <2>7. Clears(s, x[1]) BY <2>5, <2>6, ClearsTwice
  <2> DEFINE q == x[1]
             t == x[2]
  <2>8. /\ q \in States /\ Sound(q) /\ Room(q) /\ ~Tuned(q, req[c].ch) /\ q.h.at[Freq[req[c].ch]] = None
        /\ Good(s, q)
    BY <2>7, ClearsGood DEF Clears, Freqs
  <2>9. t \in Tuners \cup {NoTuner} /\ IF t # NoTuner THEN TuneNow(q, t, c) ELSE Become(q) /\ UNCHANGED known
    BY <2>4, <2>6
  <2> HIDE DEF q, t
  <2>10. CASE t # NoTuner
    <3>1. t \in Tuners /\ TuneNow(q, t, c) BY <2>9, <2>10
    <3>2. Good(q, Now') /\ known \subseteq known' /\ known' \subseteq Channels BY <2>8, <3>1, TuneNowDoes
    <3> QED BY <2>8, <3>2, GoodTwice
  <2>11. CASE t = NoTuner
    <3>1. Now' = q BY <2>8, <2>9, <2>11, Becomes
    <3> QED BY <2>8, <2>9, <2>11, <3>1, Learned
  <2> QED BY <2>10, <2>11
<1> QED BY <1>3, <1>4

LEMMA EnsureFeedDoes ==
    ASSUME KnownOrAlone, TypeOK, Asked, NEW s \in States, Sound(s), Room(s), NEW c \in Clients,
           req[c].pc # "idle", EnsureFeed(s, c)
    PROVE  Good(s, Now') /\ known \subseteq known' /\ known' \subseteq Channels
<1> DEFINE ch == req[c].ch
           f == req[c].freq
<1>0. ch \in Channels /\ (f # None => f = Freq[ch]) /\ (f = None => ch \in Unknown) BY DEF Asked, AskedBy
<1>1. CASE Tuned(s, ch)
  <2>1. PICK r \in Use(s, c) : Become(r) BY <1>1 DEF EnsureFeed
  <2>2. Good(s, r) BY <1>0, <1>1, <2>1, UseDoes DEF Good
  <2>3. Now' = r BY <2>1, <2>2, Becomes DEF Good
  <2> QED BY <1>1, <2>2, <2>3, Learned DEF EnsureFeed
<1>2. CASE ~Tuned(s, ch) /\ f # None /\ s.h.at[f] # None
  <2>1. Added(s, ch, AddFeed(s, s.h.at[f], ch)) BY <1>0, <1>2, AddFeedDoes
  <2> DEFINE a == AddFeed(s, s.h.at[f], ch)
  <2>2. PICK r \in Use(a, c) : Become(r) BY <1>2 DEF EnsureFeed
  <2> HIDE DEF a
  <2>3. a \in States /\ Sound(a) /\ Tuned(a, ch) /\ Good(s, a) BY <2>1 DEF Added, Good, a
  <2>4. Good(a, r) BY <1>0, <2>2, <2>3, UseDoes DEF Good
  <2>5. Good(s, r) BY <2>3, <2>4, GoodTwice
  <2>6. Now' = r BY <2>2, <2>5, Becomes DEF Good
  <2> QED BY <1>2, <2>5, <2>6, Learned DEF EnsureFeed
<1>3. CASE ~Tuned(s, ch) /\ ~(f # None /\ s.h.at[f] # None)
  <2>1. s.h.at[Freq[ch]] = None BY <1>0, <1>3, Alone
  <2>2. PICK x \in Choices(s) : IF x[2] # NoTuner THEN TuneNow(x[1], x[2], c) ELSE Preempt(x[1], c)
    BY <1>3 DEF EnsureFeed
  <2>3. Clears(s, x[1]) /\ x[2] \in Tuners \cup {NoTuner} BY ChoicesClear
  <2> DEFINE q == x[1]
             t == x[2]
  <2>4. /\ q \in States /\ Sound(q) /\ Room(q) /\ ~Tuned(q, ch) /\ q.h.at[Freq[ch]] = None
        /\ Good(s, q)
    BY <1>0, <1>3, <2>1, <2>3, ClearsGood DEF Clears, Freqs
  <2>5. t \in Tuners \cup {NoTuner} /\ IF t # NoTuner THEN TuneNow(q, t, c) ELSE Preempt(q, c) BY <2>2, <2>3
  <2> HIDE DEF q, t
  <2>6. Good(q, Now') /\ known \subseteq known' /\ known' \subseteq Channels
    <3>1. CASE t # NoTuner BY <1>0, <2>4, <2>5, <3>1, TuneNowDoes
    <3>2. CASE t = NoTuner BY <1>0, <2>4, <2>5, <3>2, PreemptDoes
    <3> QED BY <3>1, <3>2
  <2> QED BY <2>4, <2>6, GoodTwice
<1> QED BY <1>1, <1>2, <1>3

-----------------------------------------------------------------------------
(* Marks, claims and releases leave the feeds and the muxes alone.          *)

Same(s, r) ==
    r \in States /\ Sound(r) /\ r.h.feed = s.h.feed /\ r.h.at = s.h.at /\ r.mux = s.mux

LEMMA SameClears ==
    ASSUME NEW s \in States, Sound(s), NEW r, Same(s, r)
    PROVE  Clears(s, r)
BY SameMaps DEF Same

LEMMA SameTwice ==
    ASSUME NEW s, NEW r, NEW q, Same(s, r), Same(r, q)
    PROVE  Same(s, q)
BY DEF Same

LEMMA EndOpenSame ==
    ASSUME NEW s \in States, Sound(s), NEW c \in Clients, req[c].opener
    PROVE  Same(s, EndOpen(s, c))
<1> DEFINE r == EndOpen(s, c)
           xopening == s.h.opening \ {req[c].ch}
           hh == [s.h EXCEPT !.opening = xopening]
<1>1. /\ s.h \in Maps /\ s.mux \in [MuxIds -> Mux] /\ s.conn \subseteq Tuners
      /\ s.dev \in [Tuners -> Freqs \cup {None, App}]
      /\ s = [h |-> s.h, mux |-> s.mux, conn |-> s.conn, dev |-> s.dev]
  BY Parts
<1>2. r = [s EXCEPT !.h = hh] BY <1>1 DEF EndOpen, Maps
<1>3. xopening \subseteq Channels BY <1>1 DEF Maps
<1>9. hh = [s.h EXCEPT !.opening = xopening] OBVIOUS
<1> HIDE DEF r, xopening, hh
<1>4. /\ hh.feed = s.h.feed /\ hh.at = s.h.at /\ hh.pending = s.h.pending /\ hh.releasing = s.h.releasing /\ hh.tuning = s.h.tuning /\ hh.opening = xopening
      /\ hh = [feed |-> hh.feed, at |-> hh.at, pending |-> hh.pending,
                releasing |-> hh.releasing, tuning |-> hh.tuning, opening |-> hh.opening]
  BY <1>1, <1>9 DEF Maps
<1>5. r.h = hh /\ r.mux = s.mux /\ r.conn = s.conn /\ r.dev = s.dev
      /\ r = [h |-> r.h, mux |-> r.mux, conn |-> r.conn, dev |-> r.dev]
  BY <1>1, <1>2
<1>6. hh \in Maps BY <1>1, <1>3, <1>4 DEF Maps
<1>7. r \in States BY <1>1, <1>3, <1>5, <1>6 DEF States
<1>8. Same(s, r) BY <1>4, <1>5, <1>7, SameMaps DEF Same, Clears
<1> QED BY <1>8 DEF r

LEMMA UnmarkSame ==
    ASSUME NEW s \in States, Sound(s), NEW c \in Clients
    PROVE  Same(s, Unmark(s, c))
<1> DEFINE r == Unmark(s, c)
           xtuning == s.h.tuning \ {req[c].mark}
           hh == [s.h EXCEPT !.tuning = xtuning]
<1>1. /\ s.h \in Maps /\ s.mux \in [MuxIds -> Mux] /\ s.conn \subseteq Tuners
      /\ s.dev \in [Tuners -> Freqs \cup {None, App}]
      /\ s = [h |-> s.h, mux |-> s.mux, conn |-> s.conn, dev |-> s.dev]
  BY Parts
<1>2. r = [s EXCEPT !.h = hh] BY <1>1 DEF Unmark, Maps
<1>3. xtuning \subseteq Freqs BY <1>1 DEF Maps
<1>9. hh = [s.h EXCEPT !.tuning = xtuning] OBVIOUS
<1> HIDE DEF r, xtuning, hh
<1>4. /\ hh.feed = s.h.feed /\ hh.at = s.h.at /\ hh.pending = s.h.pending /\ hh.releasing = s.h.releasing /\ hh.tuning = xtuning /\ hh.opening = s.h.opening
      /\ hh = [feed |-> hh.feed, at |-> hh.at, pending |-> hh.pending,
                releasing |-> hh.releasing, tuning |-> hh.tuning, opening |-> hh.opening]
  BY <1>1, <1>9 DEF Maps
<1>5. r.h = hh /\ r.mux = s.mux /\ r.conn = s.conn /\ r.dev = s.dev
      /\ r = [h |-> r.h, mux |-> r.mux, conn |-> r.conn, dev |-> r.dev]
  BY <1>1, <1>2
<1>6. hh \in Maps BY <1>1, <1>3, <1>4 DEF Maps
<1>7. r \in States BY <1>1, <1>3, <1>5, <1>6 DEF States
<1>8. Same(s, r) BY <1>4, <1>5, <1>7, SameMaps DEF Same, Clears
<1> QED BY <1>8 DEF r

LEMMA UnpendSame ==
    ASSUME NEW s \in States, Sound(s), NEW c \in Clients
    PROVE  Same(s, Unpend(s, c))
<1> DEFINE r == Unpend(s, c)
           xpending == s.h.pending \ {req[c].tuner}
           hh == [s.h EXCEPT !.pending = xpending]
<1>1. /\ s.h \in Maps /\ s.mux \in [MuxIds -> Mux] /\ s.conn \subseteq Tuners
      /\ s.dev \in [Tuners -> Freqs \cup {None, App}]
      /\ s = [h |-> s.h, mux |-> s.mux, conn |-> s.conn, dev |-> s.dev]
  BY Parts
<1>2. r = [s EXCEPT !.h = hh] BY <1>1 DEF Unpend, Maps
<1>3. xpending \subseteq Tuners BY <1>1 DEF Maps
<1>9. hh = [s.h EXCEPT !.pending = xpending] OBVIOUS
<1> HIDE DEF r, xpending, hh
<1>4. /\ hh.feed = s.h.feed /\ hh.at = s.h.at /\ hh.pending = xpending /\ hh.releasing = s.h.releasing /\ hh.tuning = s.h.tuning /\ hh.opening = s.h.opening
      /\ hh = [feed |-> hh.feed, at |-> hh.at, pending |-> hh.pending,
                releasing |-> hh.releasing, tuning |-> hh.tuning, opening |-> hh.opening]
  BY <1>1, <1>9 DEF Maps
<1>5. r.h = hh /\ r.mux = s.mux /\ r.conn = s.conn /\ r.dev = s.dev
      /\ r = [h |-> r.h, mux |-> r.mux, conn |-> r.conn, dev |-> r.dev]
  BY <1>1, <1>2
<1>6. hh \in Maps BY <1>1, <1>3, <1>4 DEF Maps
<1>7. r \in States BY <1>1, <1>3, <1>5, <1>6 DEF States
<1>8. Same(s, r) BY <1>4, <1>5, <1>7, SameMaps DEF Same, Clears
<1> QED BY <1>8 DEF r

LEMMA DropTunedSame ==
    ASSUME NEW s \in States, Sound(s), NEW c \in Clients, req[c].tuner \in Tuners
    PROVE  Same(s, DropTuned(s, c))
<1> DEFINE r == DropTuned(s, c)
           xreleasing == s.h.releasing \cup {req[c].tuner}
           xconn == s.conn \ {req[c].tuner}
           hh == [s.h EXCEPT !.releasing = xreleasing]
<1>1. /\ s.h \in Maps /\ s.mux \in [MuxIds -> Mux] /\ s.conn \subseteq Tuners
      /\ s.dev \in [Tuners -> Freqs \cup {None, App}]
      /\ s = [h |-> s.h, mux |-> s.mux, conn |-> s.conn, dev |-> s.dev]
  BY Parts
<1>2. r = [s EXCEPT !.h = hh, !.conn = xconn] BY <1>1 DEF DropTuned, Maps
<1>3. xreleasing \subseteq Tuners /\ xconn \subseteq Tuners BY <1>1 DEF Maps
<1>9. hh = [s.h EXCEPT !.releasing = xreleasing] OBVIOUS
<1> HIDE DEF r, xreleasing, xconn, hh
<1>4. /\ hh.feed = s.h.feed /\ hh.at = s.h.at /\ hh.pending = s.h.pending /\ hh.releasing = xreleasing /\ hh.tuning = s.h.tuning /\ hh.opening = s.h.opening
      /\ hh = [feed |-> hh.feed, at |-> hh.at, pending |-> hh.pending,
                releasing |-> hh.releasing, tuning |-> hh.tuning, opening |-> hh.opening]
  BY <1>1, <1>9 DEF Maps
<1>5. r.h = hh /\ r.mux = s.mux /\ r.conn = xconn /\ r.dev = s.dev
      /\ r = [h |-> r.h, mux |-> r.mux, conn |-> r.conn, dev |-> r.dev]
  BY <1>1, <1>2
<1>6. hh \in Maps BY <1>1, <1>3, <1>4 DEF Maps
<1>7. r \in States BY <1>1, <1>3, <1>5, <1>6 DEF States
<1>8. Same(s, r) BY <1>4, <1>5, <1>7, SameMaps DEF Same, Clears
<1> QED BY <1>8 DEF r

LEMMA ClaimSame ==
    ASSUME NEW s \in States, Sound(s), NEW t \in Tuners, NEW fs \in SUBSET Freqs
    PROVE  Same(s, [s EXCEPT !.h.pending = @ \cup {t}, !.h.tuning = @ \cup fs])
<1> DEFINE r == [s EXCEPT !.h.pending = @ \cup {t}, !.h.tuning = @ \cup fs]
           xpending == s.h.pending \cup {t}
           xtuning == s.h.tuning \cup fs
           hh == [s.h EXCEPT !.pending = xpending, !.tuning = xtuning]
<1>1. /\ s.h \in Maps /\ s.mux \in [MuxIds -> Mux] /\ s.conn \subseteq Tuners
      /\ s.dev \in [Tuners -> Freqs \cup {None, App}]
      /\ s = [h |-> s.h, mux |-> s.mux, conn |-> s.conn, dev |-> s.dev]
  BY Parts
<1>2. r = [s EXCEPT !.h = hh] BY <1>1 DEF Maps
<1>3. xpending \subseteq Tuners /\ xtuning \subseteq Freqs BY <1>1 DEF Maps
<1>9. hh = [s.h EXCEPT !.pending = xpending, !.tuning = xtuning] OBVIOUS
<1> HIDE DEF r, xpending, xtuning, hh
<1>4. /\ hh.feed = s.h.feed /\ hh.at = s.h.at /\ hh.pending = xpending /\ hh.releasing = s.h.releasing /\ hh.tuning = xtuning /\ hh.opening = s.h.opening
      /\ hh = [feed |-> hh.feed, at |-> hh.at, pending |-> hh.pending,
                releasing |-> hh.releasing, tuning |-> hh.tuning, opening |-> hh.opening]
  BY <1>1, <1>9 DEF Maps
<1>5. r.h = hh /\ r.mux = s.mux /\ r.conn = s.conn /\ r.dev = s.dev
      /\ r = [h |-> r.h, mux |-> r.mux, conn |-> r.conn, dev |-> r.dev]
  BY <1>1, <1>2
<1>6. hh \in Maps BY <1>1, <1>3, <1>4 DEF Maps
<1>7. r \in States BY <1>1, <1>3, <1>5, <1>6 DEF States
<1>8. Same(s, r) BY <1>4, <1>5, <1>7, SameMaps DEF Same, Clears
<1> QED BY <1>8 DEF r

LEMMA LetGoSame ==
    ASSUME NEW s \in States, Sound(s), NEW t \in Tuners
    PROVE  Same(s, [s EXCEPT !.h.releasing = @ \ {t}, !.h.pending = @ \ {t}])
<1> DEFINE r == [s EXCEPT !.h.releasing = @ \ {t}, !.h.pending = @ \ {t}]
           xreleasing == s.h.releasing \ {t}
           xpending == s.h.pending \ {t}
           hh == [s.h EXCEPT !.releasing = xreleasing, !.pending = xpending]
<1>1. /\ s.h \in Maps /\ s.mux \in [MuxIds -> Mux] /\ s.conn \subseteq Tuners
      /\ s.dev \in [Tuners -> Freqs \cup {None, App}]
      /\ s = [h |-> s.h, mux |-> s.mux, conn |-> s.conn, dev |-> s.dev]
  BY Parts
<1>2. r = [s EXCEPT !.h = hh] BY <1>1 DEF Maps
<1>3. xreleasing \subseteq Tuners /\ xpending \subseteq Tuners BY <1>1 DEF Maps
<1>9. hh = [s.h EXCEPT !.releasing = xreleasing, !.pending = xpending] OBVIOUS
<1> HIDE DEF r, xreleasing, xpending, hh
<1>4. /\ hh.feed = s.h.feed /\ hh.at = s.h.at /\ hh.pending = xpending /\ hh.releasing = xreleasing /\ hh.tuning = s.h.tuning /\ hh.opening = s.h.opening
      /\ hh = [feed |-> hh.feed, at |-> hh.at, pending |-> hh.pending,
                releasing |-> hh.releasing, tuning |-> hh.tuning, opening |-> hh.opening]
  BY <1>1, <1>9 DEF Maps
<1>5. r.h = hh /\ r.mux = s.mux /\ r.conn = s.conn /\ r.dev = s.dev
      /\ r = [h |-> r.h, mux |-> r.mux, conn |-> r.conn, dev |-> r.dev]
  BY <1>1, <1>2
<1>6. hh \in Maps BY <1>1, <1>3, <1>4 DEF Maps
<1>7. r \in States BY <1>1, <1>3, <1>5, <1>6 DEF States
<1>8. Same(s, r) BY <1>4, <1>5, <1>7, SameMaps DEF Same, Clears
<1> QED BY <1>8 DEF r

LEMMA EndOpenDoes ==
    ASSUME NEW s \in States, Sound(s), NEW c \in Clients
    PROVE  Same(s, EndOpen(s, c))
<1>1. CASE req[c].opener BY <1>1, EndOpenSame
<1>2. CASE ~req[c].opener BY <1>2 DEF EndOpen, Same
<1> QED BY <1>1, <1>2

-----------------------------------------------------------------------------
(* The actions of a request.                                                *)

\* What every step does to the maps.
MapsStep == Good(Now, Now') /\ known \subseteq known' /\ known' \subseteq Channels

\* A step that goes on from a state that only lost something.
LEMMA ClearedStep ==
    ASSUME TypeOK, NEW r, Clears(Now, r), Become(r), UNCHANGED known
    PROVE  MapsStep
<1>1. r \in States BY DEF Clears
<1>2. Now' = r BY <1>1, Becomes
<1>3. known' \subseteq Channels BY DEF TypeOK
<1> QED BY <1>2, <1>3, ClearsGood DEF MapsStep

LEMMA StillStep ==
    ASSUME TypeOK, Sound(Now), UNCHANGED <<h, mux, conn, dev, known>>
    PROVE  MapsStep
<1>1. Now' = Now BY DEF Now
<1>2. Now \in States BY NowTyped
<1>3. known' \subseteq Channels BY DEF TypeOK
<1> QED BY <1>1, <1>2, <1>3 DEF MapsStep, Good, Keeps

LEMMA LockedStep ==
    ASSUME KnownOrAlone, TypeOK, Asked, Sound(Now), NEW c \in Clients, Locked(c)
    PROVE  MapsStep
<1> DEFINE s == EndOpen(Now, c)
<1>1. Now \in States BY NowTyped
<1>2. Same(Now, s) BY <1>1, EndOpenDoes
<1>3. req[c].pc # "idle" /\ Room(Now) /\ EnsureFeed(s, c) BY DEF Locked, RoomForMux, Room, Now
<1> HIDE DEF s
<1>4. s \in States /\ Sound(s) /\ Room(s) BY <1>2, <1>3 DEF Same, Room
<1>5. Good(s, Now') /\ known \subseteq known' /\ known' \subseteq Channels BY <1>3, <1>4, EnsureFeedDoes
<1>6. Good(Now, s) BY <1>1, <1>2, SameClears, ClearsGood
<1> QED BY <1>1, <1>4, <1>5, <1>6, GoodTwice DEF MapsStep

LEMMA AttachStep ==
    ASSUME TypeOK, Asked, Sound(Now), NEW c \in Clients, Attach(c)
    PROVE  MapsStep
<1> DEFINE ch == req[c].ch
           e == EndOpen(Now, c)
           u == Unmark(e, c)
           s == AttachTuned(u, c)
<1>1. Now \in States BY NowTyped
<1>2. Same(Now, e) BY <1>1, EndOpenDoes
<1> HIDE DEF e
<1>3. Same(e, u) BY <1>2, UnmarkSame DEF Same
<1>4. /\ req[c].pc = "attach" /\ Room(Now) /\ UNCHANGED known
      /\ IF Tuned(s, ch) THEN \E r \in Use(s, c) : Become(r) ELSE Become(s)
  BY DEF Attach, RoomForMux, Room, Now, e
<1>5. /\ ch \in Channels /\ req[c].tuner \in Tuners
      /\ req[c].ok => req[c].freq = Freq[ch]
  BY <1>4 DEF Asked, AskedBy
<1> HIDE DEF u
<1>6. Same(Now, u) BY <1>2, <1>3, SameTwice
<1>7. u \in States /\ Sound(u) /\ Room(u) BY <1>4, <1>6 DEF Same, Room
<1>8. Same(u, DropTuned(u, c)) /\ Same(u, Unpend(u, c)) BY <1>5, <1>7, DropTunedSame, UnpendSame
<1>9. Good(u, s)
  <2> DEFINE d == DropTuned(u, c)
             n == Unpend(u, c)
  <2>0. Same(u, d) /\ Same(u, n) BY <1>8
  <2>1. s = IF Tuned(u, ch) THEN (IF req[c].ok THEN d ELSE n)
            ELSE IF ~req[c].ok THEN n
            ELSE IF u.h.at[req[c].freq] # None THEN AddFeed(d, u.h.at[req[c].freq], ch)
            ELSE BeginMux(n, ch, req[c].freq, req[c].tuner)
    BY DEF AttachTuned
  <2> HIDE DEF s, d, n
  <2>2. Good(u, d) /\ Good(u, n) BY <1>7, <2>0, SameClears, ClearsGood
  <2>3. CASE Tuned(u, ch) BY <2>1, <2>2, <2>3
  <2>4. CASE ~Tuned(u, ch) /\ ~req[c].ok BY <2>1, <2>2, <2>4
  <2>5. CASE ~Tuned(u, ch) /\ req[c].ok /\ u.h.at[Freq[ch]] # None
    <3>1. d \in States /\ Sound(d) /\ ~Tuned(d, ch) /\ d.h.at[Freq[ch]] = u.h.at[Freq[ch]]
      BY <2>0, <2>5 DEF Same
    <3>2. Added(d, ch, AddFeed(d, d.h.at[Freq[ch]], ch)) BY <1>5, <2>5, <3>1, AddFeedDoes
    <3>3. Good(d, s) BY <1>5, <2>1, <2>5, <3>1, <3>2 DEF Added, Good
    <3> QED BY <1>7, <2>2, <3>3, GoodTwice
  <2>6. CASE ~Tuned(u, ch) /\ req[c].ok /\ u.h.at[Freq[ch]] = None
    <3>1. n \in States /\ Sound(n) /\ ~Tuned(n, ch) /\ n.h.at[Freq[ch]] = None /\ Room(n)
      BY <1>7, <2>0, <2>6 DEF Same, Room
    <3>2. Added(n, ch, BeginMux(n, ch, Freq[ch], req[c].tuner)) BY <1>5, <3>1, BeginMuxDoes
    <3>3. Good(n, s) BY <1>5, <2>1, <2>6, <3>2 DEF Added, Good
    <3> QED BY <1>7, <2>2, <3>3, GoodTwice
  <2> QED BY <2>3, <2>4, <2>5, <2>6
<1> HIDE DEF s
<1>10. s \in States /\ Sound(s) BY <1>9 DEF Good
<1>11. Good(s, Now')
  <2>1. CASE Tuned(s, ch)
    <3>1. PICK r \in Use(s, c) : Become(r) BY <1>4, <2>1
    <3>2. Good(s, r) BY <1>5, <1>10, <2>1, <3>1, UseDoes DEF Good
    <3>3. Now' = r BY <3>1, <3>2, Becomes DEF Good
    <3> QED BY <3>2, <3>3
  <2>2. CASE ~Tuned(s, ch)
    <3>1. Now' = s BY <1>4, <1>10, <2>2, Becomes
    <3> QED BY <1>10, <3>1 DEF Good, Keeps
  <2> QED BY <2>1, <2>2
<1>12. Good(Now, u) BY <1>1, <1>6, SameClears, ClearsGood
<1>13. Good(Now, s) BY <1>1, <1>7, <1>9, <1>12, GoodTwice
<1>14. Good(Now, Now') BY <1>1, <1>10, <1>11, <1>13, GoodTwice
<1>15. known' \subseteq Channels /\ known \subseteq known' BY <1>4 DEF TypeOK
<1> QED BY <1>14, <1>15 DEF MapsStep

LEMMA ClaimStep ==
    ASSUME TypeOK, Sound(Now), NEW s, Clears(Now, s), NEW c \in Clients,
           req[c].freq \in Freqs \cup {None}, NEW t \in Tuners, NEW pc, Claim(s, c, t, pc), UNCHANGED known
    PROVE  MapsStep
<1> DEFINE r == [s EXCEPT !.h.pending = @ \cup {t}, !.h.tuning = @ \cup ({req[c].freq} \ {None})]
<1>1. Now \in States BY NowTyped
<1>2. s \in States /\ Sound(s) BY DEF Clears
<1>3. {req[c].freq} \ {None} \in SUBSET Freqs OBVIOUS
<1>4. Same(s, r) BY <1>2, <1>3, ClaimSame
<1>5. Become(r) BY DEF Claim
<1> HIDE DEF r
<1>6. Clears(s, r) BY <1>2, <1>4, SameClears
<1>7. Clears(Now, r) BY <1>1, <1>6, ClearsTwice
<1> QED BY <1>5, <1>7, ClearedStep

LEMMA PickStep ==
    ASSUME TypeOK, Asked, Sound(Now), NEW c \in Clients, PickTuner(c)
    PROVE  MapsStep
<1> DEFINE s == Now
           held == Held(s, req[c].free)
           first == FirstFree(req[c].free, Used(s) \cup held)
           warm == {i \in Warm(s) : s.mux[i].tuner \in Own \ held}
<1>1. /\ IF Sibling(c, "pick") # "pick"
           THEN Goto(c, Sibling(c, "pick")) /\ UNCHANGED <<h, mux, conn, dev>>
           ELSE IF first # {} THEN \E t \in first : Claim(s, c, t, "stream")
           ELSE IF Other = {} /\ warm # {}
           THEN \E i \in warm : Claim(StopFeeds(s, s.mux[i].feeds, TRUE), c, s.mux[i].tuner, "clear")
           ELSE Goto(c, "locked") /\ UNCHANGED <<h, mux, conn, dev>>
      /\ UNCHANGED known
  BY DEF PickTuner
<1>2. Now \in States BY NowTyped
<1>3. req[c].free \in SUBSET Tuners /\ req[c].freq \in Freqs \cup {None} BY DEF TypeOK, Request
<1>4. first \subseteq Tuners BY <1>3 DEF FirstFree
<1>5. warm \subseteq Warm(s) /\ warm \subseteq Current(s) BY DEF Warm
<1> HIDE DEF held, first, warm
<1>6. CASE UNCHANGED <<h, mux, conn, dev>> BY <1>1, <1>6, StillStep
<1>7. CASE \E t \in first : Claim(s, c, t, "stream")
  <2>1. PICK t \in first : Claim(s, c, t, "stream") BY <1>7
  <2>2. Clears(Now, Now) BY <1>2, SameMaps
  <2> QED BY <2>1, <2>2, <1>1, <1>3, <1>4, ClaimStep
<1>8. CASE \E i \in warm : Claim(StopFeeds(s, s.mux[i].feeds, TRUE), c, s.mux[i].tuner, "clear")
  <2>1. PICK i \in warm : Claim(StopFeeds(s, s.mux[i].feeds, TRUE), c, s.mux[i].tuner, "clear") BY <1>8
  <2>2. /\ Now.mux[i].feeds \in SUBSET Channels /\ Now.mux[i].tuner \in Tuners
        /\ \A ch \in Now.mux[i].feeds : ~Now.h.feed[ch].rec
    BY <1>2, <1>5, CurrentIs, WarmIs
  <2>3. Clears(Now, StopFeeds(Now, Now.mux[i].feeds, TRUE)) BY <1>2, <2>2, StopsClear
  <2> QED BY <2>1, <2>2, <2>3, <1>1, <1>3, ClaimStep
<1> QED BY <1>1, <1>6, <1>7, <1>8

LEMMA ClearStep ==
    ASSUME TypeOK, Asked, Sound(Now), NEW c \in Clients, ClearClaimed(c)
    PROVE  MapsStep
<1>1. req[c].tuner \in Tuners /\ Become(Release(Now, req[c].tuner)) /\ UNCHANGED known
  BY DEF ClearClaimed, Asked, AskedBy
<1>2. Clears(Now, Release(Now, req[c].tuner)) BY <1>1, NowTyped, ReleaseClears
<1> QED BY <1>1, <1>2, ClearedStep

LEMMA OpenStep ==
    ASSUME TypeOK, Asked, Sound(Now), NEW c \in Clients, OpenStream(c)
    PROVE  MapsStep
<1> DEFINE t == req[c].tuner
           f == Freq[req[c].ch]
<1>1. t \in Tuners /\ f \in Freqs BY DEF OpenStream, Asked, AskedBy, Freqs
<1>2. CASE Become(Opens(Now, t, f)) /\ Learn(f)
  <2>1. Clears(Now, Opens(Now, t, f)) BY <1>1, NowTyped, OpensClears
  <2> DEFINE r == Opens(Now, t, f)
  <2>2. Clears(Now, r) /\ r \in States /\ Become(r) BY <1>2, <2>1 DEF Clears
  <2> HIDE DEF r
  <2>3. Now' = r BY <2>2, Becomes
  <2>4. known \subseteq known' /\ known' \subseteq Channels BY <1>2, Learned
  <2> QED BY <2>2, <2>3, <2>4, ClearsGood DEF MapsStep
<1>3. CASE UNCHANGED <<h, mux, conn, dev, known>> BY <1>3, StillStep
<1> QED BY <1>2, <1>3 DEF OpenStream

LEMMA WaitStep ==
    ASSUME TypeOK, Sound(Now), NEW c \in Clients,
           LeaveWait(c) \/ OpenTuned(c) \/ FetchStatus(c)
    PROVE  MapsStep
<1>1. CASE OpenTuned(c) \/ FetchStatus(c) BY <1>1, StillStep DEF OpenTuned, FetchStatus
<1>2. CASE LeaveWait(c)
  <2> DEFINE r == EndOpen(Now, c)
  <2>1. Same(Now, r) BY NowTyped, EndOpenDoes
  <2>2. r.mux = mux /\ r.conn = conn /\ r.dev = dev /\ h' = r.h /\ UNCHANGED <<mux, conn, dev, known>>
    BY <1>2 DEF LeaveWait, EndOpen, Now
  <2> HIDE DEF r
  <2>3. Become(r) BY <2>2 DEF Become
  <2>4. Clears(Now, r) BY <2>1, NowTyped, SameClears
  <2> QED BY <2>2, <2>3, <2>4, ClearedStep
<1> QED BY <1>1, <1>2

LEMMA AskStep ==
    ASSUME TypeOK, Sound(Now), NEW c \in Clients, NEW k \in Kinds, NEW ch \in Channels, Ask(c, k, ch)
    PROVE  MapsStep
<1>1. /\ h' = h \/ h' = [h EXCEPT !.opening = h.opening \cup {ch}]
      /\ UNCHANGED <<mux, conn, dev, known>>
  BY DEF Ask
<1>2. h' \in Maps /\ h'.feed = h.feed /\ h'.at = h.at BY <1>1 DEF TypeOK, Maps
<1>3. Now' = [h |-> h', mux |-> mux, conn |-> conn, dev |-> dev] BY <1>1 DEF Now
<1>4. Now' \in States BY <1>2, <1>3 DEF TypeOK, States
<1>5. Now'.h.feed = Now.h.feed /\ Now'.h.at = Now.h.at /\ Now'.mux = Now.mux BY <1>2, <1>3 DEF Now
<1>6. Clears(Now, Now') BY <1>4, <1>5, NowTyped, SameMaps
<1>7. known' \subseteq Channels /\ known \subseteq known' BY <1>1 DEF TypeOK
<1> QED BY <1>6, <1>7, ClearsGood DEF MapsStep

-----------------------------------------------------------------------------
(* Leaving, timers and holds.                                               *)

\* A step that changes one feed's flags, and then drops it if nobody uses it.
LEMMA TouchedStep ==
    ASSUME TypeOK, Sound(Now), NEW ch \in Channels, Tuned(Now, ch), NEW fd \in FeedRecord,
           fd.mux = h.feed[ch].mux, h.feed[ch].rec => fd.rec,
           NEW r, Become(r), UNCHANGED known,
           \/ r = Touch(Now, ch, fd)
           \/ r = DropIfUnused(Touch(Now, ch, fd), ch)
           \/ r = DropIfUnused(Linger(Touch(Now, ch, fd), ch), ch)
    PROVE  MapsStep
<1> DEFINE t == Touch(Now, ch, fd)
           l == Linger(t, ch)
<1>0. Now \in States /\ Now.h.feed[ch].mux = h.feed[ch].mux /\ Now.h.feed[ch].rec = h.feed[ch].rec
  BY NowTyped DEF Now
<1>1. Touched(Now, ch, fd, t) BY <1>0, TouchDoes
<1>6. r \in {t, DropIfUnused(t, ch), DropIfUnused(l, ch)} OBVIOUS
<1> HIDE DEF t
<1>2. Good(Now, t) /\ Tuned(t, ch) BY <1>0, <1>1 DEF Touched, Good, Keeps
<1>3. Good(t, l) BY <1>2, LingerDoes DEF Good
<1> HIDE DEF l
<1>4. Good(t, DropIfUnused(t, ch)) /\ Good(l, DropIfUnused(l, ch))
  BY <1>2, <1>3, DropIfUnusedClears, ClearsGood DEF Good
<1>5. Good(Now, r)
  <2>1. t \in States BY <1>2 DEF Good
  <2>2. l \in States BY <1>3 DEF Good
  <2>3. Good(Now, DropIfUnused(t, ch)) BY <1>0, <1>2, <1>4, <2>1, GoodTwice
  <2>4. Good(Now, l) BY <1>0, <1>2, <1>3, <2>1, GoodTwice
  <2>5. Good(Now, DropIfUnused(l, ch)) BY <1>0, <1>4, <2>2, <2>4, GoodTwice
  <2> QED BY <1>2, <1>6, <2>3, <2>5
<1>7. Now' = r BY <1>5, Becomes DEF Good
<1>8. known' \subseteq Channels BY DEF TypeOK
<1> QED BY <1>5, <1>7, <1>8 DEF MapsStep

LEMMA LeaveStep ==
    ASSUME TypeOK, Sound(Now), NEW ch \in Channels, Leave(ch)
    PROVE  MapsStep
<1> DEFINE fd == [h.feed[ch] EXCEPT !.viewers = h.feed[ch].viewers - 1,
                                    !.idle = h.feed[ch].idle \/ h.feed[ch].viewers = 1]
<1>1. h.feed[ch] \in FeedRecord /\ h.feed \in [Channels -> FeedRecord] BY DEF TypeOK, Maps, FeedRecord
<1>2. h.feed[ch].viewers > 0 /\ UNCHANGED <<known, dev, conn, mux>> BY DEF Leave
<1>3. Tuned(Now, ch)
  <2>1. h.feed[ch].mux = None => h.feed[ch] = NoFeed BY DEF Sound, Bare, Now
  <2>2. h.feed[ch] # NoFeed BY <1>2 DEF NoFeed
  <2> QED BY <2>1, <2>2 DEF Now
<1>4. h' = [h EXCEPT !.feed[ch] = fd] BY DEF Leave
<1>5. h.feed[ch].viewers - 1 \in 0..MaxViewers BY <1>1, <1>2 DEF FeedRecord
<1>6. (h.feed[ch].idle \/ h.feed[ch].viewers = 1) \in BOOLEAN BY <1>1 DEF FeedRecord
<1>7. fd \in FeedRecord /\ fd.mux = h.feed[ch].mux /\ fd.rec = h.feed[ch].rec
  BY <1>1, <1>5, <1>6 DEF FeedRecord
<1> HIDE DEF fd
<1>8. Become(Touch(Now, ch, fd)) BY <1>2, <1>4 DEF Become, Touch, Now
<1> QED BY <1>2, <1>3, <1>7, <1>8, TouchedStep

LEMMA TimerStep ==
    ASSUME TypeOK, Sound(Now), NEW ch \in Channels, Timers(ch) \/ Abandon(ch)
    PROVE  MapsStep
<1>1. h.feed[ch] \in FeedRecord /\ h.feed \in [Channels -> FeedRecord] /\ h \in Maps
  BY DEF TypeOK, Maps, FeedRecord
<1>2. CASE IdleStop(ch)
  <2> DEFINE f == h.feed[ch]
             fd == [f EXCEPT !.idle = FALSE, !.enc = f.enc /\ f.viewers > 0]
             s == [Now EXCEPT !.h.feed[ch] = fd]
  <2>1. fd \in FeedRecord /\ fd.mux = h.feed[ch].mux /\ fd.rec = h.feed[ch].rec
    <3>1. (f.enc /\ f.viewers > 0) \in BOOLEAN OBVIOUS
    <3> QED BY <1>1, <3>1 DEF FeedRecord
  <2>2. /\ Tuned(Now, ch) /\ UNCHANGED known
        /\ Become(DropIfUnused(Linger(s, ch), ch))
    BY <1>2 DEF IdleStop, Now
  <2>3. s = Touch(Now, ch, fd) BY DEF Touch
  <2> HIDE DEF s, fd
  <2> QED BY <2>1, <2>2, <2>3, TouchedStep
<1>3. CASE LingerEnds(ch)
  <2> DEFINE fd == [h.feed[ch] EXCEPT !.linger = FALSE]
             s == [Now EXCEPT !.h.feed[ch].linger = FALSE]
  <2>2. fd \in FeedRecord /\ fd.mux = h.feed[ch].mux /\ fd.rec = h.feed[ch].rec BY <1>1 DEF FeedRecord
  <2>3. s = Touch(Now, ch, fd) BY <1>1 DEF Touch, Now, Maps, FeedRecord
  <2>4. Tuned(Now, ch) BY <1>3 DEF LingerEnds, Sound, Bare, Now, NoFeed
  <2>5. UNCHANGED known /\ Become(DropIfUnused(s, ch)) BY <1>3 DEF LingerEnds
  <2> HIDE DEF s, fd
  <2> QED BY <2>2, <2>3, <2>4, <2>5, TouchedStep
<1>4. CASE Abandon(ch)
  <2> DEFINE fd == [h.feed[ch] EXCEPT !.viewers = 0, !.enc = FALSE]
             s == [Now EXCEPT !.h.feed[ch] = fd]
  <2>1. 0 \in 0..MaxViewers OBVIOUS
  <2>2. fd \in FeedRecord /\ fd.mux = h.feed[ch].mux /\ fd.rec = h.feed[ch].rec BY <1>1, <2>1 DEF FeedRecord
  <2>3. s = Touch(Now, ch, fd) BY DEF Touch
  <2>4. Tuned(Now, ch) BY <1>4 DEF Abandon, Sound, Bare, Now, NoFeed
  <2>5. UNCHANGED known /\ Become(DropIfUnused(Linger(s, ch), ch)) BY <1>4 DEF Abandon
  <2> HIDE DEF s, fd
  <2> QED BY <2>2, <2>3, <2>4, <2>5, TouchedStep
<1> QED BY <1>2, <1>3, <1>4 DEF Timers

\* A recording that is stopped may take its own feed with it, and no other.
LEMMA StopRecordStep ==
    ASSUME TypeOK, Sound(Now), NEW ch \in Channels, StopRecord(ch)
    PROVE  /\ Now' \in States /\ Sound(Now') /\ UNCHANGED known
           /\ \A x \in Channels \ {ch} : h.feed[x].rec => h'.feed[x].rec
<1> DEFINE fd == [h.feed[ch] EXCEPT !.rec = FALSE]
           s == [Now EXCEPT !.h.feed[ch].rec = FALSE]
           r == DropIfUnused(s, ch)
<1>1. h.feed[ch] \in FeedRecord /\ h.feed \in [Channels -> FeedRecord] /\ h \in Maps
  BY DEF TypeOK, Maps, FeedRecord
<1>2. fd \in FeedRecord /\ fd.mux = h.feed[ch].mux BY <1>1 DEF FeedRecord
<1>3. s = Touch(Now, ch, fd) BY <1>1 DEF Touch, Now, Maps, FeedRecord
<1>4. Tuned(Now, ch) /\ Now \in States /\ Now.h = h BY NowTyped DEF StopRecord, Sound, Bare, Now, NoFeed
<1>5. UNCHANGED known /\ Become(r) BY DEF StopRecord
<1> HIDE DEF s, fd
<1>6. Touched(Now, ch, fd, s) BY <1>2, <1>3, <1>4, TouchDoes
<1>7. Clears(s, r) BY <1>6, DropIfUnusedClears DEF Touched
<1> HIDE DEF r
<1>8. Now' = r BY <1>5, <1>7, Becomes DEF Clears
<1>9. \A x \in Channels \ {ch} : h.feed[x].rec => r.h.feed[x].rec
  BY <1>4, <1>6, <1>7 DEF Touched, Clears, Keeps
<1>10. h' = r.h BY <1>5 DEF Become
<1> QED BY <1>5, <1>7, <1>8, <1>9, <1>10 DEF Clears

LEMMA TouchesDo ==
    ASSUME NEW s \in States, Sound(s), NEW fs \in [Channels -> FeedRecord],
           \A ch \in Channels : fs[ch].mux = s.h.feed[ch].mux /\ (fs[ch].mux = None => fs[ch] = NoFeed),
           NEW t, t = [s EXCEPT !.h.feed = fs]
    PROVE  t \in States /\ Sound(t) /\ t.h.feed = fs /\ t.mux = s.mux /\ t.h.at = s.h.at
<1>0. /\ s.h \in Maps /\ s.mux \in [MuxIds -> Mux] /\ s.conn \subseteq Tuners
      /\ s.dev \in [Tuners -> Freqs \cup {None, App}]
      /\ s = [h |-> s.h, mux |-> s.mux, conn |-> s.conn, dev |-> s.dev]
  BY Parts
<1>1. t.h = [s.h EXCEPT !.feed = fs] /\ t.mux = s.mux /\ t.conn = s.conn /\ t.dev = s.dev
      /\ t = [h |-> t.h, mux |-> t.mux, conn |-> t.conn, dev |-> t.dev]
  BY <1>0
<1>2. /\ t.h.feed = fs /\ t.h.at = s.h.at
      /\ t.h.pending = s.h.pending /\ t.h.releasing = s.h.releasing
      /\ t.h.tuning = s.h.tuning /\ t.h.opening = s.h.opening
      /\ t.h = [feed |-> t.h.feed, at |-> t.h.at, pending |-> t.h.pending,
                releasing |-> t.h.releasing, tuning |-> t.h.tuning, opening |-> t.h.opening]
  BY <1>0, <1>1 DEF Maps
<1>3. t \in States
  <2>1. t.h \in Maps BY <1>0, <1>2 DEF Maps, FeedRecord
  <2> QED BY <1>0, <1>1, <2>1 DEF States
<1>8. t.h.feed = fs /\ t.h.at = s.h.at /\ t.mux = s.mux BY <1>1, <1>2
<1>4. FeedsSound(t) BY <1>8 DEF Sound, FeedsSound
<1>5. AtSound(t)
  <2> SUFFICES ASSUME NEW f \in Freqs, t.h.at[f] # None
               PROVE  /\ t.mux[t.h.at[f]].freq = f /\ t.mux[t.h.at[f]].rd # "off"
                      /\ t.mux[t.h.at[f]].feeds # {}
                      /\ \A x \in t.mux[t.h.at[f]].feeds : t.h.feed[x].mux = t.h.at[f]
    BY DEF AtSound
  <2> DEFINE i == s.h.at[f]
  <2>1. /\ s.mux[i].freq = f /\ s.mux[i].rd # "off" /\ s.mux[i].feeds # {}
        /\ \A x \in s.mux[i].feeds : s.h.feed[x].mux = i
    BY <1>8 DEF Sound, AtSound
  <2>2. s.mux[i].feeds \subseteq Channels BY <1>0, <1>8, Parts DEF Mux
  <2>3. \A x \in s.mux[i].feeds : t.h.feed[x].mux = i BY <1>8, <2>1, <2>2
  <2>4. t.mux[i] = s.mux[i] /\ t.h.at[f] = i BY <1>8
  <2> QED BY ONLY <2>1, <2>3, <2>4
<1>6. Bare(t) BY <1>2 DEF Bare
<1>7. MuxesSound(t) BY <1>1 DEF Sound, MuxesSound
<1> QED BY <1>1, <1>2, <1>3, <1>4, <1>5, <1>6, <1>7 DEF Sound

LEMMA NoLinger == [NoFeed EXCEPT !.linger = FALSE] = NoFeed
<1> DEFINE f == [NoFeed EXCEPT !.linger = FALSE]
<1>1. NoFeed = [mux |-> NoFeed.mux, viewers |-> NoFeed.viewers, enc |-> NoFeed.enc, rec |-> NoFeed.rec,
                linger |-> NoFeed.linger, idle |-> NoFeed.idle] /\ NoFeed.linger = FALSE
  BY DEF NoFeed
<1>2. f = [mux |-> NoFeed.mux, viewers |-> NoFeed.viewers, enc |-> NoFeed.enc, rec |-> NoFeed.rec,
           linger |-> FALSE, idle |-> NoFeed.idle]
  BY <1>1
<1> QED BY <1>1, <1>2

LEMMA HoldStep ==
    ASSUME TypeOK, Sound(Now), NEW n \in Holds, SetHold(n)
    PROVE  MapsStep
<1> DEFINE fs == [ch \in Channels |-> [h.feed[ch] EXCEPT !.linger = FALSE]]
           s == [Now EXCEPT !.h.feed = fs]
           lone == {ch \in Channels : h.feed[ch].linger /\ Unused(s, ch)}
           r == StopFeeds(s, lone, FALSE)
<1>0. Now.h = h /\ Now \in States /\ known' = known BY NowTyped DEF Now, SetHold
<1>1. s = [Now EXCEPT !.h.feed = [ch \in Channels |-> [@[ch] EXCEPT !.linger = FALSE]]] BY <1>0
<1>2. IF n > 0 THEN Become(r) ELSE UNCHANGED <<h, mux, conn, dev>>
  BY <1>1 DEF SetHold
<1>3. h.feed \in [Channels -> FeedRecord] BY DEF TypeOK, Maps, FeedRecord
<1>4. ASSUME NEW ch \in Channels
      PROVE  /\ fs[ch] \in FeedRecord /\ fs[ch].mux = h.feed[ch].mux /\ fs[ch].rec = h.feed[ch].rec
             /\ fs[ch].mux = None => fs[ch] = NoFeed
  <2>1. h.feed[ch] \in FeedRecord BY <1>3
  <2>2. fs[ch] = [h.feed[ch] EXCEPT !.linger = FALSE] OBVIOUS
  <2>3. h.feed[ch].mux = None => h.feed[ch] = NoFeed BY <1>0 DEF Sound, Bare
  <2> HIDE DEF fs
  <2>4. fs[ch] \in FeedRecord /\ fs[ch].mux = h.feed[ch].mux /\ fs[ch].rec = h.feed[ch].rec
    BY <2>1, <2>2 DEF FeedRecord
  <2>5. h.feed[ch] = NoFeed => fs[ch] = NoFeed BY <2>2, NoLinger
  <2> QED BY <2>3, <2>4, <2>5
<1>5. fs \in [Channels -> FeedRecord] BY <1>4
<1>7. s = [Now EXCEPT !.h.feed = fs] OBVIOUS
<1>8. lone \in SUBSET Channels /\ \A ch \in lone : ~s.h.feed[ch].rec BY DEF Unused
<1> HIDE DEF fs, s, lone
<1>9. s \in States /\ Sound(s) /\ s.h.feed = fs
  <2>1. \A ch \in Channels : fs[ch].mux = Now.h.feed[ch].mux /\ (fs[ch].mux = None => fs[ch] = NoFeed)
    BY <1>0, <1>4
  <2>2. Now \in States /\ Sound(Now) BY <1>0
  <2>3. fs \in [Channels -> FeedRecord] /\ s = [Now EXCEPT !.h.feed = fs] BY <1>5, <1>7
  <2> QED BY ONLY <2>1, <2>2, <2>3, TouchesDo
<1>10. Good(Now, s) BY <1>0, <1>4, <1>9 DEF Good, Keeps
<1>11. CASE n > 0
  <2>1. Clears(s, r) BY <1>8, <1>9, StopsClear
  <2>2. Become(r) BY <1>2, <1>11
  <2> HIDE DEF r
  <2>3. Good(Now, r) BY <1>0, <1>9, <1>10, <2>1, ClearsGood, GoodTwice
  <2>4. Now' = r BY <2>2, <2>3, Becomes DEF Good
  <2>5. known' \subseteq Channels /\ known \subseteq known' BY <1>0 DEF TypeOK
  <2> QED BY <2>3, <2>4, <2>5 DEF MapsStep
<1>12. CASE ~(n > 0) BY <1>0, <1>2, <1>12, StillStep
<1> QED BY <1>11, <1>12

-----------------------------------------------------------------------------
(* The device.                                                              *)

LEMMA ReleaseStep ==
    ASSUME TypeOK, Sound(Now), NEW t \in Tuners, ReleaseDone(t)
    PROVE  MapsStep
<1> DEFINE s == Release(Now, t)
           r == [s EXCEPT !.h.releasing = @ \ {t}, !.h.pending = @ \ {t}]
<1>1. Now \in States BY NowTyped
<1>2. Clears(Now, s) BY <1>1, ReleaseClears
<1>3. Become(r) /\ UNCHANGED known BY DEF ReleaseDone
<1> HIDE DEF s
<1>4. s \in States /\ Sound(s) BY <1>2 DEF Clears
<1>5. Same(s, r) BY <1>4, LetGoSame
<1> HIDE DEF r
<1>6. Clears(s, r) BY <1>4, <1>5, SameClears
<1>7. Clears(Now, r) BY <1>1, <1>2, <1>6, ClearsTwice
<1> QED BY <1>3, <1>7, ClearedStep

LEMMA DeviceStep ==
    ASSUME TypeOK, Sound(Now), NEW t \in Tuners, DeviceFrees(t) \/ OtherApp(t)
    PROVE  MapsStep
<1>1. /\ dev' \in [Tuners -> Freqs \cup {None, App}] /\ UNCHANGED <<h, mux, conn, known>>
  BY DEF DeviceFrees, OtherApp, TypeOK
<1>2. Now' = [h |-> h, mux |-> mux, conn |-> conn, dev |-> dev'] BY <1>1 DEF Now
<1>3. Now' \in States BY <1>1, <1>2 DEF TypeOK, States
<1>4. Now'.h.feed = Now.h.feed /\ Now'.h.at = Now.h.at /\ Now'.mux = Now.mux BY <1>2 DEF Now
<1>5. Clears(Now, Now') BY <1>3, <1>4, NowTyped, SameMaps
<1>6. known' \subseteq Channels /\ known \subseteq known' BY <1>1 DEF TypeOK
<1> QED BY <1>5, <1>6, ClearsGood DEF MapsStep

-----------------------------------------------------------------------------
(* A mux's reader: it changes its own mux object, which keeps its frequency *)
(* and feeds while it is stored.                                            *)

Follows(s, i, m) ==
    /\ m \in Mux
    /\ m.rd # "off" => m.freq \in Freqs /\ m.tuner \in Tuners
    /\ m.rd \in {"moving", "oldNone", "newNone"} => m.to \in Tuners
    /\ i \in Current(s) => m.freq = s.mux[i].freq /\ m.feeds = s.mux[i].feeds /\ m.rd # "off"

LEMMA ReaderDoes ==
    ASSUME NEW s \in States, Sound(s), NEW i \in MuxIds, NEW m, Follows(s, i, m),
           NEW r \in States, r.h.feed = s.h.feed, r.h.at = s.h.at, r.mux = [s.mux EXCEPT ![i] = m]
    PROVE  Good(s, r)
<1>1. s.mux \in [MuxIds -> Mux] BY Parts
<1>2. r.mux[i] = m /\ \A j \in MuxIds \ {i} : r.mux[j] = s.mux[j] BY <1>1
<1>3. MuxesSound(r) BY <1>2 DEF Sound, MuxesSound, Follows
<1>4. Bare(r) BY DEF Sound, Bare
<1>5. Keeps(s, r) BY DEF Keeps
<1>6. \A j \in Current(s) : /\ r.mux[j].freq = s.mux[j].freq /\ r.mux[j].feeds = s.mux[j].feeds
                            /\ r.mux[j].rd # "off"
  <2>1. Current(s) \subseteq MuxIds BY CurrentIs
  <2>2. \A j \in Current(s) : s.mux[j].rd # "off" BY Parts DEF Current, Sound, AtSound
  <2> QED BY <1>2, <2>1, <2>2 DEF Follows
<1>7. FeedsSound(r)
  <2> SUFFICES ASSUME NEW ch \in Channels, r.h.feed[ch].mux # None
               PROVE  /\ ch \in r.mux[r.h.feed[ch].mux].feeds
                      /\ r.mux[r.h.feed[ch].mux].freq = Freq[ch]
                      /\ r.h.at[Freq[ch]] = r.h.feed[ch].mux
    BY DEF FeedsSound
  <2> DEFINE j == s.h.feed[ch].mux
  <2>1. ch \in s.mux[j].feeds /\ s.mux[j].freq = Freq[ch] /\ s.h.at[Freq[ch]] = j BY DEF Sound, FeedsSound
  <2>2. j \in Current(s) BY <2>1 DEF Current, Freqs
  <2> QED BY <1>6, <2>1, <2>2
<1>8. AtSound(r)
  <2> SUFFICES ASSUME NEW f \in Freqs, r.h.at[f] # None
               PROVE  /\ r.mux[r.h.at[f]].freq = f /\ r.mux[r.h.at[f]].rd # "off"
                      /\ r.mux[r.h.at[f]].feeds # {}
                      /\ \A x \in r.mux[r.h.at[f]].feeds : r.h.feed[x].mux = r.h.at[f]
    BY DEF AtSound
  <2> DEFINE j == s.h.at[f]
  <2>1. j \in Current(s) BY DEF Current
  <2>2. /\ s.mux[j].freq = f /\ s.mux[j].feeds # {}
        /\ \A x \in s.mux[j].feeds : s.h.feed[x].mux = j
    BY DEF Sound, AtSound
  <2> QED BY <1>6, <2>1, <2>2
<1> QED BY <1>3, <1>4, <1>5, <1>7, <1>8 DEF Good, Sound

\* A reader's step outside h.mu.
LEMMA ReaderStep ==
    ASSUME TypeOK, Sound(Now), NEW i \in MuxIds, NEW m, Follows(Now, i, m),
           UNCHANGED <<h, known>>, mux' = [mux EXCEPT ![i] = m],
           conn' \subseteq Tuners, dev' \in [Tuners -> Freqs \cup {None, App}]
    PROVE  MapsStep
<1>1. Now' = [h |-> h, mux |-> mux', conn |-> conn', dev |-> dev'] BY DEF Now
<1>2. mux' \in [MuxIds -> Mux] BY DEF TypeOK, Follows
<1>3. Now' \in States BY <1>1, <1>2 DEF TypeOK, States
<1>4. Now'.h.feed = Now.h.feed /\ Now'.h.at = Now.h.at /\ Now'.mux = [Now.mux EXCEPT ![i] = m]
  BY <1>1 DEF Now
<1>5. Good(Now, Now') BY <1>3, <1>4, NowTyped, ReaderDoes
<1>6. known' \subseteq Channels /\ known \subseteq known' BY DEF TypeOK
<1> QED BY <1>5, <1>6 DEF MapsStep

\* What is known of mux object i, and of what it may become.
LEMMA ReaderIs ==
    ASSUME TypeOK, Sound(Now), NEW i \in MuxIds
    PROVE  /\ mux[i] \in Mux /\ mux \in [MuxIds -> Mux] /\ conn \subseteq Tuners
           /\ dev \in [Tuners -> Freqs \cup {None, App}]
           /\ mux[i].rd # "off" => mux[i].freq \in Freqs /\ mux[i].tuner \in Tuners
           /\ mux[i].rd \in {"moving", "oldNone", "newNone"} => mux[i].to \in Tuners
           /\ i \in Current(Now) => h.at[mux[i].freq] = i
<1>1. Now.mux = mux /\ Now.h = h /\ Now \in States BY NowTyped DEF Now
<1>2. MuxesSound(Now) BY DEF Sound
<1>3. i \in Current(Now) => h.at[mux[i].freq] = i BY <1>1, CurrentIs
<1> QED BY <1>1, <1>2, <1>3 DEF TypeOK, MuxesSound

LEMMA EndsStep ==
    ASSUME TypeOK, Sound(Now), NEW i \in MuxIds, StreamEnds(i) \/ Stall(i)
    PROVE  MapsStep
<1>0. /\ mux[i] \in Mux /\ mux \in [MuxIds -> Mux] /\ conn \subseteq Tuners
      /\ dev \in [Tuners -> Freqs \cup {None, App}] /\ Now.mux = mux
      /\ mux[i].rd = "reading" => mux[i].freq \in Freqs /\ mux[i].tuner \in Tuners
  BY ReaderIs DEF Now
<1>1. CASE StreamEnds(i)
  <2> DEFINE rd == IF mux[i].moved THEN "release" ELSE "failed"
             m == [mux[i] EXCEPT !.rd = rd, !.moved = TRUE]
  <2>1. mux' = [mux EXCEPT ![i] = m] BY <1>0, <1>1 DEF StreamEnds, Mux
  <2>2. rd \in {"release", "failed"} OBVIOUS
  <2> HIDE DEF rd
  <2>3. Follows(Now, i, m) BY <1>0, <1>1, <2>2 DEF StreamEnds, Follows, Mux, ReaderPcs
  <2>4. UNCHANGED <<h, known, dev>> /\ conn' \subseteq Tuners BY <1>0, <1>1 DEF StreamEnds
  <2> HIDE DEF m
  <2> QED BY <1>0, <2>1, <2>3, <2>4, ReaderStep
<1>2. CASE Stall(i)
  <2> DEFINE m == [mux[i] EXCEPT !.rd = "stalled"]
  <2>1. mux' = [mux EXCEPT ![i] = m] BY <1>0, <1>2 DEF Stall
  <2>3. Follows(Now, i, m) BY <1>0, <1>2 DEF Stall, Follows, Mux, ReaderPcs
  <2>4. UNCHANGED <<h, known, dev>> /\ conn' \subseteq Tuners BY <1>0, <1>2 DEF Stall
  <2> HIDE DEF m
  <2> QED BY <1>0, <2>1, <2>3, <2>4, ReaderStep
<1> QED BY <1>1, <1>2

LEMMA ReopenStep ==
    ASSUME TypeOK, Sound(Now), NEW i \in MuxIds, Reopen(i)
    PROVE  MapsStep
<1>0. /\ mux[i] \in Mux /\ mux \in [MuxIds -> Mux] /\ conn \subseteq Tuners
      /\ dev \in [Tuners -> Freqs \cup {None, App}] /\ Now.mux = mux
      /\ mux[i].freq \in Freqs /\ mux[i].tuner \in Tuners /\ mux[i].rd = "stalled"
  BY ReaderIs DEF Now, Reopen
<1>1. CASE Become([Opens(Now, mux[i].tuner, mux[i].freq) EXCEPT !.mux[i].rd = "reopened"])
  <2> DEFINE m == [mux[i] EXCEPT !.rd = "reopened"]
  <2>1. /\ mux' = [mux EXCEPT ![i] = m] /\ UNCHANGED h /\ conn' = conn \cup {mux[i].tuner}
        /\ dev' = [dev EXCEPT ![mux[i].tuner] = mux[i].freq]
    BY <1>0, <1>1 DEF Become, Opens, Now
  <2>2. conn' \subseteq Tuners /\ dev' \in [Tuners -> Freqs \cup {None, App}] BY <1>0, <2>1
  <2>3. Follows(Now, i, m) BY <1>0 DEF Follows, Mux, ReaderPcs
  <2>4. UNCHANGED <<h, known>> BY <2>1 DEF Reopen
  <2> HIDE DEF m
  <2> QED BY <2>1, <2>2, <2>3, <2>4, ReaderStep
<1>2. CASE /\ mux' = [mux EXCEPT ![i].rd = IF mux[i].moved THEN "release" ELSE "failed", ![i].moved = TRUE]
           /\ UNCHANGED <<h, conn, dev>>
  <2> DEFINE rd == IF mux[i].moved THEN "release" ELSE "failed"
             m == [mux[i] EXCEPT !.rd = rd, !.moved = TRUE]
  <2>1. mux' = [mux EXCEPT ![i] = m] BY <1>0, <1>2 DEF Mux
  <2>2. rd \in {"release", "failed"} OBVIOUS
  <2> HIDE DEF rd
  <2>3. Follows(Now, i, m) BY <1>0, <2>2 DEF Follows, Mux, ReaderPcs
  <2>4. UNCHANGED <<h, known, dev>> /\ conn' \subseteq Tuners BY <1>0, <1>2 DEF Reopen
  <2> HIDE DEF m
  <2> QED BY <1>0, <2>1, <2>3, <2>4, ReaderStep
<1> QED BY <1>1, <1>2 DEF Reopen

LEMMA ReopenedStep ==
    ASSUME TypeOK, Sound(Now), NEW i \in MuxIds, Reopened(i)
    PROVE  MapsStep
<1>0. /\ mux[i] \in Mux /\ mux \in [MuxIds -> Mux] /\ conn \subseteq Tuners
      /\ dev \in [Tuners -> Freqs \cup {None, App}] /\ Now.mux = mux
      /\ mux[i].freq \in Freqs /\ mux[i].tuner \in Tuners /\ mux[i].rd = "reopened"
  BY ReaderIs DEF Now, Reopened
<1> DEFINE current == IF h.at[mux[i].freq] = i THEN TRUE ELSE FALSE
           rd == IF current THEN "reading" ELSE "failed"
           mv == IF current THEN FALSE ELSE TRUE
           m == [mux[i] EXCEPT !.rd = rd, !.moved = mv]
<1>1. mux' = [mux EXCEPT ![i] = m]
  <2>1. mux' = [mux EXCEPT ![i].rd = rd, ![i].moved = mv] BY DEF Reopened
  <2> HIDE DEF rd, mv, current
  <2> QED BY <1>0, <2>1 DEF Mux
<1>2. rd \in {"reading", "failed"} /\ mv \in BOOLEAN OBVIOUS
<1> HIDE DEF rd, mv, current
<1>3. Follows(Now, i, m) BY <1>0, <1>2 DEF Follows, Mux, ReaderPcs
<1>4. UNCHANGED <<h, known, dev>> /\ conn' \subseteq Tuners BY <1>0 DEF Reopened
<1> HIDE DEF m
<1> QED BY <1>0, <1>1, <1>3, <1>4, ReaderStep

LEMMA MoveStep ==
    ASSUME TypeOK, Sound(Now), NEW i \in MuxIds, Move(i)
    PROVE  MapsStep
<1>0. /\ mux[i] \in Mux /\ mux \in [MuxIds -> Mux] /\ conn \subseteq Tuners
      /\ dev \in [Tuners -> Freqs \cup {None, App}] /\ Now.mux = mux
      /\ mux[i].freq \in Freqs /\ mux[i].tuner \in Tuners /\ mux[i].rd = "failed"
      /\ UNCHANGED <<h, known>>
  BY ReaderIs DEF Now, Move
<1>1. CASE mux' = [mux EXCEPT ![i].rd = "giveUp"] /\ UNCHANGED <<dev, conn>>
  <2> DEFINE m == [mux[i] EXCEPT !.rd = "giveUp"]
  <2>1. mux' = [mux EXCEPT ![i] = m] /\ UNCHANGED dev /\ conn' \subseteq Tuners BY <1>0, <1>1
  <2>2. Follows(Now, i, m) BY <1>0 DEF Follows, Mux, ReaderPcs
  <2> HIDE DEF m
  <2> QED BY <1>0, <2>1, <2>2, ReaderStep
<1>2. CASE \E t \in FirstFree(Free(Now, Elsewhere(mux[i].tuner)), {}) :
                 /\ CanOpen(Now, t)
                 /\ mux' = [mux EXCEPT ![i].rd = "moving", ![i].to = t]
                 /\ dev' = [dev EXCEPT ![t] = mux[i].freq] /\ conn' = conn \cup {t}
  <2>1. Elsewhere(mux[i].tuner) \in SUBSET Tuners BY DEF Elsewhere, Tuners
  <2>2. PICK t \in FirstFree(Free(Now, Elsewhere(mux[i].tuner)), {}) :
                 /\ mux' = [mux EXCEPT ![i].rd = "moving", ![i].to = t]
                 /\ dev' = [dev EXCEPT ![t] = mux[i].freq] /\ conn' = conn \cup {t}
    BY <1>2
  <2>3. t \in Tuners BY <2>1, <2>2, FreeIs
  <2> DEFINE m == [mux[i] EXCEPT !.rd = "moving", !.to = t]
  <2>4. mux' = [mux EXCEPT ![i] = m] BY <1>0, <2>2 DEF Mux
  <2>5. conn' \subseteq Tuners /\ dev' \in [Tuners -> Freqs \cup {None, App}] BY <1>0, <2>2, <2>3
  <2>6. Follows(Now, i, m) BY <1>0, <2>3 DEF Follows, Mux, ReaderPcs
  <2> HIDE DEF m
  <2> QED BY <1>0, <2>4, <2>5, <2>6, ReaderStep
<1> QED BY <1>1, <1>2 DEF Move

LEMMA CommitStep ==
    ASSUME TypeOK, Sound(Now), NEW i \in MuxIds, CommitMove(i)
    PROVE  MapsStep
<1>0. /\ mux[i] \in Mux /\ mux \in [MuxIds -> Mux] /\ conn \subseteq Tuners
      /\ dev \in [Tuners -> Freqs \cup {None, App}] /\ Now.mux = mux
      /\ mux[i].freq \in Freqs /\ mux[i].tuner \in Tuners /\ mux[i].to \in Tuners /\ mux[i].rd = "moving"
      /\ UNCHANGED <<h, known, dev>>
  BY ReaderIs DEF Now, CommitMove
<1>1. conn' \subseteq Tuners BY <1>0 DEF CommitMove
<1>2. CASE h.at[mux[i].freq] = i
  <2> DEFINE m == [mux[i] EXCEPT !.rd = "oldNone", !.tuner = mux[i].to, !.to = mux[i].tuner]
  <2>1. mux' = [mux EXCEPT ![i] = m] BY <1>0, <1>2 DEF CommitMove, Mux
  <2>2. Follows(Now, i, m) BY <1>0 DEF Follows, Mux, ReaderPcs
  <2> HIDE DEF m
  <2> QED BY <1>0, <1>1, <2>1, <2>2, ReaderStep
<1>3. CASE h.at[mux[i].freq] # i
  <2> DEFINE m == [mux[i] EXCEPT !.rd = "newNone"]
  <2>1. mux' = [mux EXCEPT ![i] = m] BY <1>0, <1>3 DEF CommitMove
  <2>2. Follows(Now, i, m) BY <1>0 DEF Follows, Mux, ReaderPcs
  <2> HIDE DEF m
  <2> QED BY <1>0, <1>1, <2>1, <2>2, ReaderStep
<1> QED BY <1>2, <1>3

LEMMA HandOffStep ==
    ASSUME TypeOK, Sound(Now), NEW i \in MuxIds, HandOffNone(i)
    PROVE  MapsStep /\ lateNone' \in BOOLEAN
<1>0. /\ mux[i] \in Mux /\ mux \in [MuxIds -> Mux] /\ conn \subseteq Tuners
      /\ dev \in [Tuners -> Freqs \cup {None, App}] /\ Now.mux = mux /\ Now.h = h
      /\ Now.conn = conn /\ Now.dev = dev
      /\ mux[i].rd \in {"oldNone", "newNone", "giveUp"}
      /\ mux[i].freq \in Freqs /\ mux[i].tuner \in Tuners /\ UNCHANGED known
      /\ mux[i].rd \in {"oldNone", "newNone"} => mux[i].to \in Tuners
      /\ i \in Current(Now) => h.at[mux[i].freq] = i
  BY ReaderIs DEF Now, HandOffNone
<1> DEFINE t == IF mux[i].rd = "giveUp" THEN mux[i].tuner ELSE mux[i].to
           next == [oldNone |-> "reading", newNone |-> "giveUp", giveUp |-> "release"][mux[i].rd]
           s == Release(Now, t)
           m == IF mux[i].rd = "oldNone" /\ h.at[mux[i].freq] # i THEN NoMux
                ELSE [mux[i] EXCEPT !.rd = next, !.to = NoTuner]
           r == [s EXCEPT !.mux[i] = m]
<1>1. t \in Tuners BY <1>0
<1>2. Become(r) /\ lateNone' = (lateNone \/ Hurts(Now, t)) BY DEF HandOffNone
<1>3. next \in {"reading", "giveUp", "release"} BY <1>0
<1> HIDE DEF t, next
<1>4. Follows(Now, i, m)
  <2>1. CASE mux[i].rd = "oldNone" /\ h.at[mux[i].freq] # i
    <3>1. m = NoMux /\ i \notin Current(Now) BY <1>0, <2>1
    <3> QED BY <3>1 DEF Follows, NoMux, Mux, ReaderPcs
  <2>2. CASE ~(mux[i].rd = "oldNone" /\ h.at[mux[i].freq] # i)
    <3> DEFINE n == [mux[i] EXCEPT !.rd = next, !.to = NoTuner]
    <3>1. m = n BY <2>2
    <3> HIDE DEF m
    <3>2. Follows(Now, i, n) BY <1>0, <1>3 DEF Follows, Mux, ReaderPcs
    <3> QED BY <3>1, <3>2
  <2> QED BY <2>1, <2>2
<1> HIDE DEF m
<1>5. s.h = h /\ s.mux = mux /\ s.conn = conn \ {t} /\ s.dev \in [Tuners -> Freqs \cup {None, App}]
      /\ s = [h |-> s.h, mux |-> s.mux, conn |-> s.conn, dev |-> s.dev]
  <2>1. s \in States BY <1>1, NowTyped, ReleaseClears DEF Clears
  <2>2. s.h = h /\ s.mux = mux /\ s.conn = conn \ {t} BY <1>0 DEF Release, Now
  <2> HIDE DEF s
  <2> QED BY <2>1, <2>2, Parts
<1> HIDE DEF s
<1>6. r.h = h /\ r.mux = [mux EXCEPT ![i] = m] /\ r.conn = conn \ {t} /\ r.dev = s.dev BY <1>5
<1> HIDE DEF r
<1>7. /\ mux' = [mux EXCEPT ![i] = m] /\ UNCHANGED <<h, known>>
      /\ conn' \subseteq Tuners /\ dev' \in [Tuners -> Freqs \cup {None, App}]
  BY <1>0, <1>2, <1>5, <1>6 DEF Become
<1>8. MapsStep BY <1>4, <1>7, ReaderStep
<1>9. lateNone' \in BOOLEAN BY <1>2 DEF TypeOK
<1> QED BY <1>8, <1>9

\* A tuner that is lost takes the feeds of its own mux with it, and no other.
LEMMA ReleaseMuxStep ==
    ASSUME TypeOK, Sound(Now), NEW i \in MuxIds, ReleaseMux(i)
    PROVE  /\ Now' \in States /\ Sound(Now') /\ UNCHANGED known
           /\ \A x \in Channels \ mux[i].feeds : h.feed[x].rec => h'.feed[x].rec
<1> DEFINE chs == mux[i].feeds
           s == IF h.at[mux[i].freq] = i THEN StopFeeds(Now, chs, FALSE) ELSE Now
           r == [s EXCEPT !.mux[i] = NoMux]
<1>0. /\ mux[i] \in Mux /\ Now.mux = mux /\ Now.h = h /\ Now \in States /\ chs \in SUBSET Channels
      /\ i \in Current(Now) => h.at[mux[i].freq] = i
  BY ReaderIs, NowTyped DEF Now, Mux
<1>1. Become(r) /\ UNCHANGED known BY DEF ReleaseMux
<1>2. /\ s \in States /\ Sound(s) /\ i \notin Current(s)
      /\ \A x \in Channels \ chs : s.h.feed[x] = h.feed[x]
  <2>1. CASE h.at[mux[i].freq] = i
    <3>1. s = StopFeeds(Now, chs, FALSE) BY <2>1
    <3>2. Stopped(Now, chs, s) BY <1>0, <3>1, StopFeedsDoes
    <3> HIDE DEF s
    <3>3. s \in States /\ Sound(s) BY <3>2 DEF Stopped
    <3>4. ASSUME i \in Current(s) PROVE FALSE
      <4>1. s.mux[i].feeds # {} /\ s.mux[i].feeds \subseteq Channels
            /\ \A x \in s.mux[i].feeds : s.h.feed[x].mux = i
        BY <3>3, <3>4, CurrentIs
      <4>2. PICK x \in s.mux[i].feeds : TRUE BY <4>1
      <4>3. x \in Channels /\ s.h.feed[x].mux = i BY <4>1, <4>2
      <4>4. x \notin chs BY <3>2, <4>3, NoneIsNoMux DEF Stopped, NoFeed
      <4>5. Now.h.feed[x].mux = i BY <3>2, <4>3, <4>4 DEF Stopped
      <4>6. x \in Now.mux[i].feeds BY <4>3, <4>5, NoneIsNoMux DEF Sound, FeedsSound
      <4> QED BY <1>0, <4>4, <4>6
    <3> QED BY <1>0, <3>2, <3>3, <3>4 DEF Stopped
  <2>2. CASE h.at[mux[i].freq] # i BY <1>0, <2>2
  <2> QED BY <2>1, <2>2
<1> HIDE DEF s
<1>3. Follows(s, i, NoMux) BY <1>2 DEF Follows, NoMux, Mux, ReaderPcs
<1>4. /\ r.h = s.h /\ r.mux = [s.mux EXCEPT ![i] = NoMux] /\ r.conn = s.conn /\ r.dev = s.dev
      /\ r = [h |-> r.h, mux |-> r.mux, conn |-> r.conn, dev |-> r.dev]
  BY <1>2, Parts
<1> HIDE DEF r
<1>5. r.mux \in [MuxIds -> Mux] BY <1>2, <1>3, <1>4, Parts DEF Follows
<1>6. r \in States BY <1>2, <1>4, <1>5, Parts DEF States
<1>7. Good(s, r) BY <1>2, <1>3, <1>4, <1>6, ReaderDoes
<1>8. Now' = r /\ h' = r.h BY <1>1, <1>6, Becomes DEF Become
<1>9. \A x \in Channels \ chs : h.feed[x].rec => r.h.feed[x].rec BY <1>2, <1>7 DEF Good, Keeps
<1> QED BY <1>1, <1>6, <1>7, <1>8, <1>9 DEF Good

-----------------------------------------------------------------------------
(* The requests.                                                            *)

LEMMA OneRequest ==
    ASSUME TypeOK, Asked, NEW c \in Clients, NEW q \in Request, AskedBy(q), req' = [req EXCEPT ![c] = q]
    PROVE  req' \in [Clients -> Request] /\ Asked'
<1>1. req \in [Clients -> Request] BY DEF TypeOK
<1>2. \A d \in Clients : req'[d] = IF d = c THEN q ELSE req[d] BY <1>1
<1>3. req' \in [Clients -> Request] BY <1>1
<1>4. \A d \in Clients : AskedBy(req'[d]) BY <1>2 DEF Asked
<1> QED BY <1>3, <1>4 DEF Asked, AskedBy

\* Where a request may go without a tuner.
LEMMA GotoDoes ==
    ASSUME TypeOK, Asked, NEW c \in Clients, req[c].pc # "idle",
           NEW pc \in {"locked", "waitFreq", "status", "pick"}, Goto(c, pc)
    PROVE  req' \in [Clients -> Request] /\ Asked'
<1> DEFINE w == IF pc = "locked" THEN 0 ELSE req[c].waits
           q == [req[c] EXCEPT !.pc = pc, !.free = {}, !.waits = w]
<1>1. req \in [Clients -> Request] /\ req[c] \in Request /\ AskedBy(req[c]) BY DEF TypeOK, Asked
<1>2. w \in 0..2 BY <1>1 DEF Request
<1>3. req' = [req EXCEPT ![c] = q] BY <1>1 DEF Goto, Request
<1> HIDE DEF w
<1>4. q \in Request BY <1>1, <1>2 DEF Request
<1>5. AskedBy(q) BY <1>1 DEF AskedBy, Request
<1> HIDE DEF q
<1> QED BY <1>3, <1>4, <1>5, OneRequest

LEMMA FinishDoes ==
    ASSUME TypeOK, Asked, NEW c \in Clients, Finish(c)
    PROVE  req' \in [Clients -> Request] /\ Asked'
<1>1. req \in [Clients -> Request] /\ \A d \in Clients : AskedBy(req[d]) BY DEF TypeOK, Asked
<1>2. Idle \in Request /\ AskedBy(Idle)
  <2>1. 0 \in 0..2 OBVIOUS
  <2> QED BY <2>1 DEF Idle, Request, AskedBy
<1>3. ASSUME NEW d \in Clients, req[d].pc = "waitOpen"
      PROVE  [req[d] EXCEPT !.pc = "locked"] \in Request /\ AskedBy([req[d] EXCEPT !.pc = "locked"])
  <2>1. req[d] \in Request /\ AskedBy(req[d]) BY <1>1
  <2> QED BY <1>3, <2>1 DEF Request, AskedBy
<1>4. ASSUME NEW d \in Clients, req[d].pc = "waitFreq"
      PROVE  WokenSibling(req[d]) \in Request /\ AskedBy(WokenSibling(req[d]))
  <2>1. req[d] \in Request /\ AskedBy(req[d]) BY <1>1
  <2>2. CASE req[d].waits = 2
    <3> DEFINE q == [req[d] EXCEPT !.pc = "locked", !.waits = 0]
    <3>1. 0 \in 0..2 OBVIOUS
    <3>2. q \in Request BY <2>1, <3>1 DEF Request
    <3>3. AskedBy(q) BY <2>1, <1>4 DEF Request, AskedBy
    <3> QED BY <2>2, <3>2, <3>3 DEF WokenSibling
  <2>3. CASE req[d].waits # 2
    <3> DEFINE w == req[d].waits + 1
               q == [req[d] EXCEPT !.pc = "tune", !.waits = w]
    <3>1. w \in 0..2 BY <2>1, <2>3 DEF Request
    <3>4. WokenSibling(req[d]) = q BY <2>3 DEF WokenSibling
    <3> HIDE DEF w
    <3>2. q \in Request BY <2>1, <3>1 DEF Request
    <3>3. AskedBy(q) BY <2>1, <1>4 DEF Request, AskedBy
    <3> HIDE DEF q
    <3> QED BY <3>2, <3>3, <3>4
  <2> QED BY <2>2, <2>3
<1>5. \A d \in Clients : req'[d] \in Request /\ AskedBy(req'[d])
  <2> SUFFICES ASSUME NEW d \in Clients PROVE req'[d] \in Request /\ AskedBy(req'[d]) OBVIOUS
  <2>1. req'[d] = IF d = c THEN Idle
              ELSE IF req[c].opener /\ req[d].pc = "waitOpen" /\ req[d].ch = req[c].ch
              THEN [req[d] EXCEPT !.pc = "locked"]
              ELSE IF req[c].mark # None /\ req[d].pc = "waitFreq" /\ req[d].freq = req[c].mark
              THEN WokenSibling(req[d])
              ELSE req[d]
    BY DEF Finish
  <2> QED BY <1>1, <1>2, <1>3, <1>4, <2>1
<1>6. req' = [d \in Clients |-> req'[d]] BY DEF Finish
<1>7. req' \in [Clients -> Request] BY <1>5, <1>6
<1> QED BY <1>5, <1>7 DEF Asked, AskedBy

LEMMA SiblingIs ==
    ASSUME NEW c \in Clients, NEW o
    PROVE  Sibling(c, o) \in {"locked", "waitFreq", o}
BY DEF Sibling

LEMMA AskAsks ==
    ASSUME TypeOK, Asked, Channels \ Unknown \subseteq known,
           NEW c \in Clients, NEW k \in Kinds, NEW ch \in Channels, Ask(c, k, ch)
    PROVE  req' \in [Clients -> Request] /\ Asked'
<1> DEFINE wait == ch \in h.opening
           opener == IF ~wait /\ ~Tuned(Now, ch) THEN TRUE ELSE FALSE
           f == IF ch \in known THEN Freq[ch] ELSE None
           pc == IF wait THEN "waitOpen" ELSE IF opener THEN "tune" ELSE "locked"
           q == [Idle EXCEPT !.kind = k, !.ch = ch, !.opener = opener, !.freq = f, !.pc = pc]
<1>1. req' = [req EXCEPT ![c] = q] BY DEF Ask
<1>2. /\ pc \in {"waitOpen", "tune", "locked"} /\ f \in Freqs \cup {None} /\ opener \in BOOLEAN
      /\ (f # None => f = Freq[ch]) /\ (f = None => ch \in Unknown)
  BY DEF Freqs
<1> HIDE DEF pc, f, opener, wait
<1>3. Idle \in Request /\ Idle.ok = FALSE
  <2>1. 0 \in 0..2 OBVIOUS
  <2> QED BY <2>1 DEF Idle, Request
<1>4. k \in {"watch", "record"} OBVIOUS
<1>5. q \in Request BY <1>2, <1>3, <1>4 DEF Request
<1>6. AskedBy(q)
  <2>1. q.pc = pc /\ q.ch = ch /\ q.freq = f BY <1>3 DEF Request
  <2> QED BY <1>2, <2>1 DEF AskedBy
<1> HIDE DEF q
<1> QED BY <1>1, <1>5, <1>6, OneRequest

LEMMA ClaimAsks ==
    ASSUME TypeOK, Asked, NEW c \in Clients, req[c].pc # "idle", NEW s, NEW t \in Tuners,
           NEW pc \in {"stream", "clear"}, Claim(s, c, t, pc)
    PROVE  req' \in [Clients -> Request] /\ Asked'
<1> DEFINE q == [req[c] EXCEPT !.pc = pc, !.tuner = t, !.mark = req[c].freq, !.free = {}, !.waits = 0]
<1>1. req \in [Clients -> Request] /\ req[c] \in Request /\ AskedBy(req[c]) BY DEF TypeOK, Asked
<1>2. req' = [req EXCEPT ![c].pc = pc, ![c].tuner = t, ![c].mark = req[c].freq,
                                ![c].free = {}, ![c].waits = 0]
  BY DEF Claim
<1>3. req' = [req EXCEPT ![c] = q] BY <1>1, <1>2 DEF Request
<1>4. 0 \in 0..2 OBVIOUS
<1>5. q \in Request BY <1>1, <1>4 DEF Request
<1>6. AskedBy(q) BY <1>1 DEF AskedBy, Request
<1> HIDE DEF q
<1> QED BY <1>3, <1>5, <1>6, OneRequest

LEMMA PickAsks ==
    ASSUME TypeOK, Asked, Sound(Now), NEW c \in Clients, PickTuner(c)
    PROVE  req' \in [Clients -> Request] /\ Asked'
<1> DEFINE s == Now
           held == Held(s, req[c].free)
           first == FirstFree(req[c].free, Used(s) \cup held)
           warm == {i \in Warm(s) : s.mux[i].tuner \in Own \ held}
<1>1. /\ IF Sibling(c, "pick") # "pick"
           THEN Goto(c, Sibling(c, "pick")) /\ UNCHANGED <<h, mux, conn, dev>>
           ELSE IF first # {} THEN \E t \in first : Claim(s, c, t, "stream")
           ELSE IF Other = {} /\ warm # {}
           THEN \E i \in warm : Claim(StopFeeds(s, s.mux[i].feeds, TRUE), c, s.mux[i].tuner, "clear")
           ELSE Goto(c, "locked") /\ UNCHANGED <<h, mux, conn, dev>>
      /\ req[c].pc # "idle"
  BY DEF PickTuner
<1>2. first \subseteq Tuners BY DEF FirstFree, TypeOK, Request
<1>3. \A i \in warm : s.mux[i].tuner \in Tuners BY DEF Tuners
<1> HIDE DEF first, warm
<1>4. CASE Goto(c, Sibling(c, "pick")) /\ Sibling(c, "pick") # "pick"
  BY <1>1, <1>4, SiblingIs, GotoDoes
<1>5. CASE Goto(c, "locked") BY <1>1, <1>5, GotoDoes
<1>6. CASE \E t \in first : Claim(s, c, t, "stream")
  <2>1. PICK t \in first : Claim(s, c, t, "stream") BY <1>6
  <2> QED BY <2>1, <1>1, <1>2, ClaimAsks
<1>7. CASE \E i \in warm : Claim(StopFeeds(s, s.mux[i].feeds, TRUE), c, s.mux[i].tuner, "clear")
  <2>1. PICK i \in warm : Claim(StopFeeds(s, s.mux[i].feeds, TRUE), c, s.mux[i].tuner, "clear") BY <1>7
  <2> QED BY <2>1, <1>1, <1>3, ClaimAsks
<1> QED BY <1>1, <1>4, <1>5, <1>6, <1>7

LEMMA OpenAsks ==
    ASSUME TypeOK, Asked, NEW c \in Clients, OpenStream(c)
    PROVE  req' \in [Clients -> Request] /\ Asked'
<1> DEFINE f == Freq[req[c].ch]
           y == [req[c] EXCEPT !.pc = "attach", !.ok = TRUE, !.freq = f]
           n == [req[c] EXCEPT !.pc = "attach", !.ok = FALSE]
<1>1. /\ req \in [Clients -> Request] /\ req[c] \in Request /\ AskedBy(req[c]) /\ req[c].pc = "stream"
  BY DEF TypeOK, Asked, OpenStream
<1>2. f \in Freqs /\ f # None /\ req[c].ch \in Channels
  <2>1. req[c].ch \in Channels BY <1>1 DEF AskedBy
  <2> QED BY <2>1 DEF Freqs
<1>3. \/ req' = [req EXCEPT ![c].pc = "attach", ![c].ok = TRUE, ![c].freq = f]
      \/ req' = [req EXCEPT ![c].pc = "attach", ![c].ok = FALSE]
  BY DEF OpenStream
<1> HIDE DEF f
<1>4. y \in Request /\ n \in Request BY <1>1, <1>2 DEF Request
<1>5. AskedBy(n) BY <1>1 DEF AskedBy, Request
<1>6. AskedBy(y)
  <2>1. y.freq = f /\ y.ch = req[c].ch /\ y.tuner = req[c].tuner /\ y.pc = "attach" BY <1>1 DEF Request
  <2> QED BY <1>1, <1>2, <2>1 DEF AskedBy, f
<1>7. req' = [req EXCEPT ![c] = y] \/ req' = [req EXCEPT ![c] = n] BY <1>1, <1>3 DEF Request
<1> HIDE DEF y, n
<1> QED BY <1>4, <1>5, <1>6, <1>7, OneRequest

LEMMA RequestAsks ==
    ASSUME TypeOK, Asked, Sound(Now), NEW c \in Clients, Step(c) \/ LeaveWait(c)
    PROVE  req' \in [Clients -> Request] /\ Asked'
<1>0. /\ req \in [Clients -> Request] /\ req[c] \in Request /\ AskedBy(req[c])
      /\ Now.dev = dev /\ Own \subseteq Tuners
  BY DEF TypeOK, Asked, Now, Tuners
<1>1. CASE OpenTuned(c) BY <1>1, SiblingIs, GotoDoes DEF OpenTuned
<1>2. CASE LeaveWait(c) \/ Attach(c) \/ Locked(c) BY <1>2, FinishDoes DEF LeaveWait, Attach, Locked
<1>3. CASE FetchStatus(c)
  <2> DEFINE fr == Free(Now, Own)
             q == [req[c] EXCEPT !.pc = "pick", !.free = fr]
  <2>1. CASE Goto(c, "locked") BY <1>3, <2>1, GotoDoes DEF FetchStatus
  <2>2. CASE req' = [req EXCEPT ![c].pc = "pick", ![c].free = Free(Now, Own)]
    <3>1. fr \subseteq Tuners BY <1>0 DEF Free
    <3> HIDE DEF fr
    <3>2. req' = [req EXCEPT ![c] = q] BY <1>0, <2>2 DEF fr, Request
    <3>3. q \in Request BY <1>0, <3>1 DEF Request
    <3>4. AskedBy(q) BY <1>0, <1>3 DEF AskedBy, Request, FetchStatus
    <3> HIDE DEF q
    <3> QED BY <3>2, <3>3, <3>4, OneRequest
  <2> QED BY <1>3, <2>1, <2>2 DEF FetchStatus
<1>4. CASE PickTuner(c) BY <1>4, PickAsks
<1>5. CASE ClearClaimed(c)
  <2> DEFINE q == [req[c] EXCEPT !.pc = "stream"]
  <2>1. req' = [req EXCEPT ![c] = q] BY <1>5 DEF ClearClaimed
  <2>2. q \in Request BY <1>0 DEF Request
  <2>3. AskedBy(q) BY <1>0, <1>5 DEF AskedBy, Request, ClearClaimed
  <2> HIDE DEF q
  <2> QED BY <2>1, <2>2, <2>3, OneRequest
<1>6. CASE OpenStream(c) BY <1>6, OpenAsks
<1> QED BY <1>1, <1>2, <1>3, <1>4, <1>5, <1>6 DEF Step

-----------------------------------------------------------------------------
(* The invariant of every house in which a channel whose frequency is not   *)
(* stored has that frequency to itself.                                     *)

HubInv == TypeOK /\ Sound(Now) /\ Asked /\ Channels \ Unknown \subseteq known

LEMMA InitHolds == Init => HubInv
<1> SUFFICES ASSUME Init PROVE HubInv OBVIOUS
<1>1. NoFeed \in FeedRecord /\ NoFeed.mux = None /\ NoFeed.rec = FALSE
  <2>1. 0 \in 0..MaxViewers OBVIOUS
  <2> QED BY <2>1 DEF NoFeed, FeedRecord
<1>2. NoMux \in Mux /\ NoMux.rd = "off" BY DEF NoMux, Mux, ReaderPcs
<1>3. Idle \in Request /\ AskedBy(Idle)
  <2>1. 0 \in 0..2 OBVIOUS
  <2> QED BY <2>1 DEF Idle, Request, AskedBy
<1>4. h \in Maps BY <1>1 DEF Init, Maps, FeedRecord
<1>5. TypeOK BY <1>2, <1>3, <1>4 DEF Init, TypeOK
<1>6. /\ \A ch \in Channels : Now.h.feed[ch] = NoFeed
      /\ \A f \in Freqs : Now.h.at[f] = None
      /\ \A i \in MuxIds : Now.mux[i] = NoMux
  BY DEF Init, Now
<1>7. Sound(Now)
  <2>1. FeedsSound(Now) /\ Bare(Now) BY <1>1, <1>6 DEF FeedsSound, Bare
  <2>2. AtSound(Now) BY <1>6 DEF AtSound
  <2>3. MuxesSound(Now) BY <1>2, <1>6 DEF MuxesSound
  <2> QED BY <2>1, <2>2, <2>3 DEF Sound
<1>8. Asked /\ Channels \ Unknown \subseteq known BY <1>3 DEF Init, Asked
<1> QED BY <1>5, <1>7, <1>8 DEF HubInv

\* Every step leaves the maps sound, and a recording ends only by its own stop
\* or with its tuner.
LEMMA NextDoes ==
    ASSUME KnownOrAlone, HubInv, Next
    PROVE  /\ Now' \in States /\ Sound(Now')
           /\ known \subseteq known' /\ known' \subseteq Channels /\ KeepsRecordings
<1>0. TypeOK /\ Sound(Now) /\ Asked /\ known \subseteq Channels /\ Now.h = h
  BY DEF HubInv, TypeOK, Now
<1>1. ASSUME MapsStep
      PROVE  /\ Now' \in States /\ Sound(Now')
             /\ known \subseteq known' /\ known' \subseteq Channels /\ KeepsRecordings
  <2>1. Now'.h = h' BY DEF Now
  <2> QED BY <1>0, <1>1, <2>1 DEF MapsStep, Good, Keeps, KeepsRecordings
<1>2. CASE \E c \in Clients : Step(c) \/ LeaveWait(c) \/ \E k \in Kinds, ch \in Channels : Ask(c, k, ch)
  <2>1. PICK c \in Clients : Step(c) \/ LeaveWait(c) \/ \E k \in Kinds, ch \in Channels : Ask(c, k, ch)
    BY <1>2
  <2>2. MapsStep
    BY <1>0, <2>1, WaitStep, PickStep, ClearStep, OpenStep, AttachStep, LockedStep, AskStep DEF Step
  <2> QED BY <1>1, <2>2
<1>3. CASE \E ch \in Channels : Leave(ch) \/ Timers(ch) \/ Abandon(ch)
  <2>1. MapsStep BY <1>0, <1>3, LeaveStep, TimerStep
  <2> QED BY <1>1, <2>1
<1>4. CASE \E ch \in Channels : StopRecord(ch)
  <2>1. PICK ch \in Channels : StopRecord(ch) BY <1>4
  <2>2. /\ Now' \in States /\ Sound(Now') /\ UNCHANGED known
        /\ \A x \in Channels \ {ch} : h.feed[x].rec => h'.feed[x].rec
    BY <1>0, <2>1, StopRecordStep
  <2> QED BY <1>0, <2>1, <2>2 DEF KeepsRecordings
<1>5. CASE \E n \in Holds : SetHold(n)
  <2>1. MapsStep BY <1>0, <1>5, HoldStep
  <2> QED BY <1>1, <2>1
<1>6. CASE \E t \in Tuners : ReleaseDone(t) \/ DeviceFrees(t) \/ OtherApp(t)
  <2>1. MapsStep BY <1>0, <1>6, ReleaseStep, DeviceStep
  <2> QED BY <1>1, <2>1
<1>7. CASE \E i \in MuxIds : StreamEnds(i) \/ Stall(i) \/ Reopen(i) \/ Reopened(i) \/ Move(i)
                             \/ CommitMove(i) \/ HandOffNone(i)
  <2>1. MapsStep BY <1>0, <1>7, EndsStep, ReopenStep, ReopenedStep, MoveStep, CommitStep, HandOffStep
  <2> QED BY <1>1, <2>1
<1>8. CASE \E i \in MuxIds : ReleaseMux(i)
  <2>1. PICK i \in MuxIds : ReleaseMux(i) BY <1>8
  <2>2. /\ Now' \in States /\ Sound(Now') /\ UNCHANGED known
        /\ \A x \in Channels \ mux[i].feeds : h.feed[x].rec => h'.feed[x].rec
    BY <1>0, <2>1, ReleaseMuxStep
  <2> QED BY <1>0, <2>1, <2>2 DEF KeepsRecordings
<1> QED BY <1>2, <1>3, <1>4, <1>5, <1>6, <1>7, <1>8 DEF Next, Reader

LEMMA NextAsks ==
    ASSUME HubInv, Next
    PROVE  /\ req' \in [Clients -> Request] /\ Asked'
           /\ hold' \in Holds \cup {0} /\ lateNone' \in BOOLEAN
<1>0. /\ TypeOK /\ Sound(Now) /\ Asked /\ Channels \ Unknown \subseteq known
      /\ req \in [Clients -> Request] /\ hold \in Holds \cup {0} /\ lateNone \in BOOLEAN
  BY DEF HubInv, TypeOK
<1>1. UNCHANGED req => req' \in [Clients -> Request] /\ Asked' BY <1>0 DEF Asked, AskedBy
<1>2. CASE \E c \in Clients : Step(c) \/ LeaveWait(c) \/ \E k \in Kinds, ch \in Channels : Ask(c, k, ch)
  <2>1. PICK c \in Clients : Step(c) \/ LeaveWait(c) \/ \E k \in Kinds, ch \in Channels : Ask(c, k, ch)
    BY <1>2
  <2>2. req' \in [Clients -> Request] /\ Asked' BY <1>0, <2>1, RequestAsks, AskAsks
  <2>3. UNCHANGED hold
    BY <2>1 DEF Step, OpenTuned, FetchStatus, PickTuner, ClearClaimed, OpenStream, Attach, Locked, LeaveWait, Ask
  <2>4. lateNone' \in BOOLEAN
    BY <1>0, <2>1
       DEF Step, OpenTuned, FetchStatus, PickTuner, ClearClaimed, OpenStream, Attach, Locked, LeaveWait, Ask
  <2> QED BY <1>0, <2>2, <2>3, <2>4
<1>3. CASE \E ch \in Channels : Leave(ch) \/ Timers(ch) \/ Abandon(ch) \/ StopRecord(ch)
  <2>1. UNCHANGED <<req, hold, lateNone>> BY <1>3 DEF Leave, Timers, IdleStop, LingerEnds, Abandon, StopRecord
  <2> QED BY <1>0, <1>1, <2>1
<1>4. CASE \E n \in Holds : SetHold(n)
  <2>1. UNCHANGED <<req, lateNone>> /\ hold' \in Holds BY <1>4 DEF SetHold
  <2> QED BY <1>0, <1>1, <2>1
<1>5. CASE \E t \in Tuners : ReleaseDone(t) \/ DeviceFrees(t) \/ OtherApp(t)
  <2>1. UNCHANGED <<req, hold>> BY <1>5 DEF ReleaseDone, DeviceFrees, OtherApp
  <2>2. lateNone' \in BOOLEAN BY <1>0, <1>5 DEF ReleaseDone, DeviceFrees, OtherApp
  <2> QED BY <1>0, <1>1, <2>1, <2>2
<1>6. CASE \E i \in MuxIds : Reader(i) \/ StreamEnds(i) \/ Stall(i)
  <2>1. UNCHANGED <<req, hold>>
    BY <1>6 DEF Reader, StreamEnds, Stall, Reopen, Reopened, Move, CommitMove, HandOffNone, ReleaseMux
  <2>2. lateNone' \in BOOLEAN
    BY <1>0, <1>6 DEF Reader, StreamEnds, Stall, Reopen, Reopened, Move, CommitMove, HandOffNone, ReleaseMux
  <2> QED BY <1>0, <1>1, <2>1, <2>2
<1> QED BY <1>2, <1>3, <1>4, <1>5, <1>6 DEF Next

LEMMA StepHolds ==
    ASSUME KnownOrAlone, HubInv, [Next]_vars
    PROVE  HubInv'
<1>1. CASE Next
  <2>1. /\ Now' \in States /\ Sound(Now') /\ known \subseteq known' /\ known' \subseteq Channels
    BY <1>1, NextDoes
  <2>2. /\ req' \in [Clients -> Request] /\ Asked' /\ hold' \in Holds \cup {0} /\ lateNone' \in BOOLEAN
    BY <1>1, NextAsks
  <2>3. Now'.h = h' /\ Now'.mux = mux' /\ Now'.conn = conn' /\ Now'.dev = dev' BY DEF Now
  <2>4. /\ h' \in Maps /\ mux' \in [MuxIds -> Mux] /\ conn' \subseteq Tuners
        /\ dev' \in [Tuners -> Freqs \cup {None, App}]
    BY <2>1, <2>3, Parts
  <2>5. TypeOK' BY <2>1, <2>2, <2>4 DEF TypeOK
  <2>6. Sound(Now)' BY <2>1 DEF Sound, FeedsSound, AtSound, Bare, MuxesSound
  <2>7. Channels \ Unknown \subseteq known' BY <2>1 DEF HubInv
  <2> QED BY <2>2, <2>5, <2>6, <2>7 DEF HubInv
<1>2. CASE UNCHANGED vars
  BY <1>2 DEF vars, HubInv, TypeOK, Asked, AskedBy, Sound, FeedsSound, AtSound, Bare, MuxesSound, Now
<1> QED BY <1>1, <1>2

-----------------------------------------------------------------------------
(* The results.                                                             *)

\* The maps h.mu protects, the requests and the readers keep their types, and the
\* stronger invariant holds, for any tuners, channels, requests and faults
\* (WatchAt, RecordMeta, tuneFeed, stopFeedLocked, readLoop).
THEOREM Invariant == ASSUME KnownOrAlone PROVE Spec => []HubInv
<1>1. Init => HubInv BY InitHolds
<1>2. HubInv /\ [Next]_vars => HubInv' BY StepHolds
<1> QED BY <1>1, <1>2, PTL DEF Spec

\* A feed is on a mux that lists it and is stored under its frequency, so a
\* frequency is tuned once (beginMuxLocked, addFeedLocked, stopFeedLocked).
THEOREM MapsHold == ASSUME KnownOrAlone PROVE Spec => [](TypeOK /\ MapsAgree)
<1>1. HubInv => TypeOK /\ MapsAgree
  <2> SUFFICES ASSUME HubInv PROVE MapsAgree BY DEF HubInv
  <2>1. Sound(Now) /\ Now \in States /\ Now.h = h /\ Now.mux = mux BY NowTyped DEF HubInv, Now
  <2>2. \A i \in Current(Now) : mux[i].feeds # {} BY <2>1, CurrentIs
  <2>3. \A ch \in Channels : h.feed[ch].mux # None =>
          /\ ch \in mux[h.feed[ch].mux].feeds /\ mux[h.feed[ch].mux].freq = Freq[ch]
          /\ h.at[Freq[ch]] = h.feed[ch].mux
    BY <2>1 DEF Sound, FeedsSound
  <2> QED BY <2>1, <2>2, <2>3 DEF MapsAgree
<1> QED BY <1>1, Invariant, PTL

\* No request, hold, timer or screen that leaves ends a recording
\* (viewerFeedsToPreemptLocked, dropIfUnusedLocked, SetHold, releaseMux).
THEOREM RecordingsHold == ASSUME KnownOrAlone PROVE Spec => RecordingsAreKept
<1>1. HubInv /\ [Next]_vars => [KeepsRecordings]_vars BY NextDoes
<1>2. HubInv /\ HubInv' /\ [Next]_vars => [KeepsRecordings]_vars BY <1>1
<1> QED BY <1>2, Invariant, PTL DEF Spec, RecordingsAreKept

=============================================================================
