-------------------------------- MODULE Decide --------------------------------
(***************************************************************************)
(* Which picture and sound a watch gets.  DecideFor weighs the broadcast   *)
(* (src), the device (caps), the viewer's choices (prefs) and what the     *)
(* host can encode; the server takes sound away that it cannot decode and  *)
(* may turn the decision into a ladder; the result is named by a key that  *)
(* the player sends back.  A state is one watch; the steps are the answer  *)
(* and the player asking again by the key it was given.                    *)
(***************************************************************************)
EXTENDS Integers, Sequences, FiniteSets

CONSTANTS Sources, Devices, Choices, Hosts      \* records to combine

VARIABLES watch,    \* src, caps, prefs, host, noAC4, adaptive
          answer    \* the rendition, or none yet
decideVars == <<watch, answer>>

Unasked == [video |-> "none", audio |-> "none", mode |-> "none", codec |-> "h264", track |-> "main",
            even |-> FALSE, full |-> FALSE, abr |-> FALSE]
Rank(video) == CASE video = "360" -> 360 [] video = "480" -> 480 [] video = "540" -> 540
                 [] video = "720" -> 720 [] video = "1080" -> 1080 [] OTHER -> 0

-----------------------------------------------------------------------------
NormalizeMode(mode) == IF mode \in {"smooth", "film"} THEN mode ELSE "broadcast"
(* Rendition.normalized: what cannot go together is put right. *)
Normalized(r) ==
    LET a == IF r.video = "copy" THEN [r EXCEPT !.mode = "none", !.codec = "h264", !.full = FALSE]
             ELSE [r EXCEPT !.mode = NormalizeMode(@)]
        b == IF a.audio = "none" THEN [a EXCEPT !.track = "main", !.even = FALSE] ELSE a
        c == IF b.video = "copy" \/ b.audio = "none" THEN [b EXCEPT !.abr = FALSE] ELSE b
        d == IF ~c.abr THEN c
             ELSE [c EXCEPT !.audio = "aac2", !.codec = "h264", !.track = "main", !.even = FALSE, !.full = FALSE]
    IN  IF d.video = "480" /\ ~d.abr THEN [d EXCEPT !.video = "1080"] ELSE d

(* Key: the parts in the order they are written, those at their default    *)
(* left out; ParseRenditionKey takes only what Key would write.            *)
Flag(on, part) == IF on THEN <<part>> ELSE <<>>
KeyOf(r) ==
    LET n == Normalized(r) IN
    <<n.video, n.audio>> \o Flag(n.mode # "none", n.mode) \o Flag(n.track # "main", n.track)
      \o Flag(n.even, "even") \o Flag(n.full, "60") \o Flag(n.codec = "hevc", "hevc") \o Flag(n.abr, "abr")
Part(key, p) == \E i \in DOMAIN key : i > 2 /\ key[i] = p
Parsed(key) ==
    Normalized([video |-> key[1], audio |-> key[2],
                mode |-> IF Part(key, "smooth") THEN "smooth" ELSE IF Part(key, "film") THEN "film"
                         ELSE IF Part(key, "broadcast") THEN "broadcast" ELSE "none",
                codec |-> IF Part(key, "hevc") THEN "hevc" ELSE "h264",
                track |-> IF Part(key, "lang") THEN "lang" ELSE IF Part(key, "vi") THEN "vi" ELSE "main",
                even |-> Part(key, "even"), full |-> Part(key, "60"), abr |-> Part(key, "abr")])

-----------------------------------------------------------------------------
(* DecideFor. *)

TooTall(src, caps) == caps.maxHeight > 0 /\ src.height > caps.maxHeight
CanCopyAnySize(src, caps) == src.video \in caps.video /\ (src.progressive \/ src.video = "hevc")   \* mutant
CanCopy(src, caps) == /\ src.video \in caps.video /\ (src.progressive \/ src.video = "hevc")
                      /\ ~TooTall(src, caps)
CopyTile(src, caps) == CanCopy(src, caps) /\ src.video = "hevc" /\ src.height \in 1..1080

Quality(caps, p) == IF p.quality # "auto" THEN p.quality
                    ELSE IF caps.network \in {"cellular", "remote"} THEN "medium" ELSE "original"

(* The quality's size, ... *)
Wanted(src, caps, q, host) ==
    CASE q = "medium" -> "720"
      [] q = "saver" -> "540"
      [] q = "tile" -> IF CopyTile(src, caps) THEN "copy" ELSE IF host.focus = "360" THEN "360" ELSE "540"
      [] q = "focus" -> IF CopyTile(src, caps) THEN "copy" ELSE IF host.focus # "none" THEN host.focus
                        ELSE IF host.hardware THEN "720" ELSE "540"
      [] q = "360" -> "360"
      [] OTHER -> IF CanCopy(src, caps) THEN "copy" ELSE "1080"
(* ... what the host can encode (capToHost), ... *)
CapToHost(video, host) ==
    LET limit == IF host.height <= 360 THEN "360" ELSE IF host.height <= 540 THEN "540" ELSE "720"
    IN  IF host.height <= 0 \/ host.height >= 1080 \/ video = "copy" \/ Rank(video) <= Rank(limit)
        THEN video ELSE limit
(* ... and the device's own screen. *)
CapToScreen(video, caps) ==
    IF caps.maxHeight = 0 \/ video = "copy" THEN video
    ELSE IF caps.maxHeight < 480 THEN "360"
    ELSE IF caps.maxHeight < 720 THEN "540"
    ELSE IF caps.maxHeight < 1080 /\ video = "1080" THEN "720" ELSE video

SurroundAC4(src, caps) == src.audio = "ac4" /\ src.channels >= 6 /\ "ac3" \in caps.audio
Sound(src, caps, p, q) ==
    LET want == IF p.audio = "auto" /\ q \in {"tile", "360"} THEN "none" ELSE p.audio
        own == src.audio \in caps.audio
        got == CASE want = "none" -> "none"
                 [] want = "stereo" -> "aac2"
                 [] want = "surround" -> IF own THEN "copy" ELSE IF SurroundAC4(src, caps) THEN "ac3" ELSE "aac6"
                 [] OTHER -> IF own /\ q # "saver" THEN "copy"
                             ELSE IF SurroundAC4(src, caps) /\ q # "saver" THEN "ac3" ELSE "aac2"
    IN  IF p.even /\ got = "copy" THEN (IF q = "saver" THEN "aac2" ELSE "aac6") ELSE got

DecideFor(src, caps, p, host) ==
    LET q == Quality(caps, p)
        video == CapToScreen(CapToHost(Wanted(src, caps, q, host), host), caps)
        audio == Sound(src, caps, p, q)
    IN  Normalized([video |-> video, audio |-> audio, mode |-> p.picture, track |-> p.track, abr |-> FALSE,
                    even |-> p.even /\ audio # "none",
                    full |-> q = "focus" /\ video \notin {"720", "copy"} /\ (host.focus = "none" \/ host.full),
                    codec |-> IF video # "copy" /\ "hevc" \in caps.video /\ caps.platform # "web" THEN "hevc" ELSE "h264"])

(* Unvoiced: an ffmpeg without AC-4 plays the picture alone. *)
Unvoiced(src, r) ==
    IF src.audio = "ac4" /\ r.audio \notin {"copy", "none"} THEN Normalized([r EXCEPT !.audio = "none"]) ELSE r

(* ladderClient, LadderVideos and ApplyLadder: the tallest rung the host has. *)
LadderClient(caps, p, r) ==
    /\ caps.platform \in {"web", "tvos"}
    /\ p.quality \notin {"tile", "360", "focus"}
    /\ r.audio # "none" /\ p.audio # "none" /\ r.track = "main" /\ p.track = "main" /\ ~r.even /\ ~p.even
Rungs(host) == IF host.height <= 0 \/ host.height >= 1080 THEN <<"1080", "720", "480">>
               ELSE IF host.height >= 720 THEN <<"720", "480">> ELSE <<"480">>
ApplyLadder(on, caps, p, host, r) ==
    IF ~on \/ ~LadderClient(caps, p, r) THEN r
    ELSE Normalized([Unasked EXCEPT !.video = Rungs(host)[1], !.audio = "aac2", !.mode = r.mode, !.abr = TRUE])

(* Server.decide, for a watch that names no rendition ... *)
Voiced(w, r) == IF w.noAC4 THEN Unvoiced(w.src, r) ELSE r
Decision(w) == ApplyLadder(w.adaptive, w.caps, w.prefs, w.host,
                           Voiced(w, DecideFor(w.src, w.caps, w.prefs, w.host)))
(* ... and for one that sends back a key; a ladder's only while it is on. *)
Again(w, key) == LET r == Parsed(key) IN IF w.adaptive \/ ~r.abr THEN Voiced(w, r) ELSE Decision(w)

-----------------------------------------------------------------------------
Answer ==
    /\ answer = Unasked
    /\ answer' = Decision(watch)
    /\ UNCHANGED watch
(* The player asks again with the key it plays, the setting maybe changed. *)
AskAgain ==
    /\ answer # Unasked
    /\ \E on \in BOOLEAN :
         /\ watch' = [watch EXCEPT !.adaptive = on]
         /\ answer' = Again(watch', KeyOf(answer))

DecideInit ==
    /\ \E s \in Sources, c \in Devices, p \in Choices, h \in Hosts, n \in BOOLEAN, a \in BOOLEAN :
         watch = [src |-> s, caps |-> c, prefs |-> p, host |-> h, noAC4 |-> n, adaptive |-> a]
    /\ answer = Unasked
DecideNext == Answer \/ AskAgain

-----------------------------------------------------------------------------
(* Whatever the broadcast, the choices and the host, the device can decode *)
(* what it is given, after it asked again by key too: a picture sent as it *)
(* is has a codec and a size the device takes, one that is converted is    *)
(* H.264, or HEVC where that is listed, and sound is AAC unless the device *)
(* listed it (DecideFor).                                                  *)
DeviceCanPlay ==
    LET c == watch.caps  s == watch.src IN
    answer # Unasked =>
      /\ answer.video = "copy" => s.video \in c.video /\ ~TooTall(s, c)
      /\ answer.codec = "hevc" => "hevc" \in c.video
      /\ answer.audio = "copy" => s.audio \in c.audio
      /\ answer.audio = "ac3" => "ac3" \in c.audio
      /\ watch.noAC4 /\ s.audio = "ac4" => answer.audio \in {"copy", "none"}
      /\ answer = Parsed(KeyOf(answer))
=============================================================================
