-------------------------------- MODULE Watch --------------------------------
(* One viewer per watch: what a page and the server do so that a viewer the  *)
(* server counted is let go once, and nobody else's with it.                 *)
(* web/src/features/player/useLiveStream.ts (the watch effect), httpapi      *)
(* play.go (watch, release) and tickets.go.                                  *)
(*                                                                           *)
(* Each run of the effect is an attempt <<p, n>>: one request, with a ticket *)
(* of its own.  A page that has read the answer stops its watch by rendition *)
(* and by the server process it names; one that leaves before that stops it  *)
(* by ticket.  Every page asks for one channel and one rendition, so the     *)
(* viewers of one rendition are a number nobody's name is on.  The channel   *)
(* may be busy and play from another source's copy, under the copy's id.     *)
EXTENDS Naturals, FiniteSets

CONSTANTS
    Pages, MaxRestarts, MaxLost,
    MaxAttempts,    \* how often each page asks
    Channels        \* "asked", and "copy" if it may be busy

Attempts == UNION {{p} \X (1 .. MaxAttempts[p]) : p \in Pages}

VARIABLES
    boot,       \* the server process
    viewers,    \* r.viewers of the rendition, on each channel
    tickets,    \* ticketBook.list
    request,    \* each attempt's watch in the handler
    channel,    \* session.ChannelID of each attempt
    client,     \* each attempt in the page: what it has read, and the process it names
    stop,       \* how each attempt was released: `released`, and what was sent for it
    underway,   \* the stops that have not come yet
    current,    \* the attempt each page is at
    page,       \* "on", "hidden" (kept for Back, or closed) or "off"
    lost        \* answers and stops that did not arrive

vars == <<boot, viewers, tickets, request, channel, client, stop, underway, current, page, lost>>
server == <<boot, viewers, tickets, request, channel>>
browser == <<client, stop, underway, current, page, lost>>

Init ==
    /\ boot = 1 /\ viewers = [c \in Channels |-> 0] /\ tickets = [w \in Attempts |-> "none"]
    /\ request = [w \in Attempts |-> "none"] /\ channel = [w \in Attempts |-> "asked"]
    /\ client = [w \in Attempts |-> [at |-> "none", boot |-> 0]]
    /\ stop = [w \in Attempts |-> "none"] /\ underway = {}
    /\ current = [p \in Pages |-> 0] /\ page = [p \in Pages |-> "off"] /\ lost = 0

-----------------------------------------------------------------------------
\* The server: the handler.
InHandler == {"sent", "counted", "starting"}

\* An attempt dropped in flight is also aborted: its request's context is cancelled,
\* some time later.
Aborted(w) == stop[w] = "ticket"

\* Hub.Release: one viewer less, if that channel plays.
Release(v, c) == [v EXCEPT ![c] = IF @ > 0 THEN @ - 1 ELSE 0]

\* Mutant: a second release of what the page's stop let go.
TakeAlways(w) == TRUE
\* ticketBook.take: the handler is the one to release.
Take(w) == tickets[w] \in {"none", "counted"}

\* Hub.WatchAt counts the viewer, on the channel or on a copy of it.
Count(w, c) ==
    /\ request[w] = "sent"
    /\ viewers' = [viewers EXCEPT ![c] = @ + 1]
    /\ channel' = [channel EXCEPT ![w] = c]
    /\ request' = [request EXCEPT ![w] = "counted"]
    /\ UNCHANGED <<boot, tickets, browser>>

\* WatchAt fails, or the page left while it tuned: nothing was counted.
Refuse(w) ==
    /\ request[w] = "sent"
    /\ request' = [request EXCEPT ![w] = "refused"]
    /\ UNCHANGED <<boot, viewers, tickets, channel, browser>>

\* ticketBook.count; a page that stopped this watch before has its viewer released.
Record(w) ==
    /\ request[w] = "counted"
    /\ \/ /\ tickets[w] \in {"none", "counted"}
          /\ tickets' = [tickets EXCEPT ![w] = "counted"]
          /\ request' = [request EXCEPT ![w] = "starting"]
          /\ UNCHANGED viewers
       \/ /\ tickets[w] \notin {"none", "counted"}
          /\ tickets' = [tickets EXCEPT ![w] = "done"]
          /\ request' = [request EXCEPT ![w] = "refused"]
          /\ viewers' = Release(viewers, channel[w])
    /\ UNCHANGED <<boot, channel, browser>>

\* No picture came in time, or the page left while it started: the handler lets the
\* viewer go, unless the page's stop did.
GiveUp(w) ==
    /\ request[w] = "starting"
    /\ IF Take(w)
         THEN viewers' = Release(viewers, channel[w]) /\ tickets' = [tickets EXCEPT ![w] = "done"]
         ELSE UNCHANGED <<viewers, tickets>>
    /\ request' = [request EXCEPT ![w] = "refused"]
    /\ UNCHANGED <<boot, channel, browser>>

\* writeJSON, and the look at the context after it (GiveUp, if it is cancelled): a
\* small answer leaves when the handler returns, so no page read it before that look.
Answer(w) ==
    /\ request[w] = "starting"
    /\ request' = [request EXCEPT ![w] = "answered"]
    /\ client' = [client EXCEPT ![w].boot = boot]
    /\ UNCHANGED <<boot, viewers, tickets, channel, stop, underway, current, page, lost>>

\* ticketBook.stop and release: a ticket names the viewer if the watch counted one
\* on the channel the page asked for; it waits for one still to be counted.
Comes(w, kind) == w \in underway /\ stop[w] = kind /\ underway' = underway \ {w}
StopByTicket(w) ==
    /\ Comes(w, "ticket")
    /\ \/ /\ tickets[w] = "none"
          /\ tickets' = [tickets EXCEPT ![w] = "cancelled"]
          /\ UNCHANGED viewers
       \/ /\ tickets[w] = "counted" /\ channel[w] = "asked"
          /\ tickets' = [tickets EXCEPT ![w] = "done"]
          /\ viewers' = Release(viewers, "asked")
       \/ /\ tickets[w] # "none" /\ ~(tickets[w] = "counted" /\ channel[w] = "asked")
          /\ UNCHANGED <<viewers, tickets>>
    /\ UNCHANGED <<boot, request, channel, client, stop, current, page, lost>>

\* Mutant: any process takes the stop for its own.
AnyProcess(w) == TRUE
\* release: by the rendition on the asked channel, if this process counted the viewer.
SameProcess(w) == client[w].boot = boot
StopByRendition(w) ==
    /\ Comes(w, "rendition")
    /\ viewers' = IF SameProcess(w) THEN Release(viewers, "asked") ELSE viewers
    /\ UNCHANGED <<boot, tickets, request, channel, client, stop, current, page, lost>>

\* A new process has no viewers and no tickets; the requests in the old one fail.
Restart ==
    /\ boot <= MaxRestarts
    /\ boot' = boot + 1
    /\ viewers' = [c \in Channels |-> 0]
    /\ tickets' = [w \in Attempts |-> "none"]
    /\ request' = [w \in Attempts |-> IF request[w] \in InHandler THEN "refused" ELSE request[w]]
    /\ UNCHANGED <<channel, browser>>

-----------------------------------------------------------------------------
\* The page.
At(p) == <<p, current[p]>>

\* release and dropInFlight of an attempt, and its abort: what goes out for it, once.
Stops(w) ==
    IF stop[w] # "none" THEN stop[w]
    ELSE CASE client[w].at = "joined" -> "rendition" [] client[w].at = "asking" -> "ticket" [] OTHER -> "none"
Releases(W) ==
    /\ stop' = [w \in Attempts |-> IF w \in W THEN Stops(w) ELSE stop[w]]
    /\ underway' = underway \cup {w \in W \cap Attempts : stop[w] = "none" /\ Stops(w) # "none"}

\* The effect runs again: its cleanup ends the attempt before, and it asks anew.  A
\* retry, a change of what is played, a restarted server, a picture that stays still
\* and a page shown again all come here.
Begin(p) ==
    /\ current[p] < MaxAttempts[p]
    /\ Releases({At(p)})
    /\ current' = [current EXCEPT ![p] = @ + 1]
    /\ page' = [page EXCEPT ![p] = "on"]
    /\ request' = [request EXCEPT ![<<p, current[p] + 1>>] = "sent"]
    /\ client' = [client EXCEPT ![<<p, current[p] + 1>>].at = "asking"]
    /\ UNCHANGED <<boot, viewers, tickets, channel, lost>>
Again(p) == page[p] # "hidden" /\ Begin(p)

\* The player is taken off the page: the cleanup alone.
Leave(p) ==
    /\ page[p] = "on"
    /\ page' = [page EXCEPT ![p] = "off"]
    /\ Releases({At(p)})
    /\ UNCHANGED <<server, client, current, lost>>

\* pagehide.  A beacon the browser does not take leaves the watch to a page shown again.
Hide(p) ==
    /\ page[p] = "on"
    /\ page' = [page EXCEPT ![p] = "hidden"]
    /\ \/ Releases({At(p)}) /\ UNCHANGED lost
       \/ client[At(p)].at = "joined" /\ lost < MaxLost /\ lost' = lost + 1 /\ UNCHANGED <<stop, underway>>
    /\ UNCHANGED <<server, client, current>>

\* pageshow of a page kept for Back starts over; a start that kept its watch goes on.
Show(p) ==
    /\ page[p] = "hidden"
    /\ \/ Begin(p)
       \/ /\ client[At(p)].at = "joined" /\ stop[At(p)] = "none"
          /\ page' = [page EXCEPT ![p] = "on"]
          /\ UNCHANGED <<server, client, stop, underway, current, lost>>

\* The answer is read.  An attempt that ended was released by its cleanup, so the
\* release when its answer comes sends nothing more.  A hidden page runs nothing.
Read(w) ==
    /\ request[w] = "answered" /\ client[w].at = "asking" /\ page[w[1]] # "hidden"
    /\ request' = [request EXCEPT ![w] = "refused"]
    /\ client' = [client EXCEPT ![w].at = "joined"]
    /\ UNCHANGED <<boot, viewers, tickets, channel, stop, underway, current, page, lost>>

\* The request fails: refused, aborted, or its connection went (the answer is lost).
Fail(w) ==
    /\ client[w].at = "asking" /\ page[w[1]] # "hidden"
    /\ \/ (request[w] = "refused" \/ Aborted(w)) /\ UNCHANGED <<request, lost>>
       \/ /\ request[w] = "answered" /\ ~Aborted(w) /\ lost < MaxLost
          /\ lost' = lost + 1
          /\ request' = [request EXCEPT ![w] = "refused"]
    /\ client' = [client EXCEPT ![w].at = "failed"]
    /\ UNCHANGED <<boot, viewers, tickets, channel, stop, underway, current, page>>

\* A stop that does not arrive.
LoseStop(w) ==
    /\ w \in underway /\ lost < MaxLost
    /\ underway' = underway \ {w}
    /\ lost' = lost + 1
    /\ UNCHANGED <<server, client, stop, current, page>>

-----------------------------------------------------------------------------
Watching == {w \in Attempts : client[w].at = "joined" /\ stop[w] = "none" /\ client[w].boot = boot}
Served == {w \in Attempts : request[w] = "counted" \/ (request[w] = "starting" /\ tickets[w] = "counted")}
Unread == {w \in Attempts : request[w] = "answered" /\ client[w].at = "asking"}
On(W, c) == Cardinality({w \in W : channel[w] = c})

\* Hub.ReleaseAbandoned: a rendition nobody has fetched for 45 s.  A page that plays
\* fetches, and a request, an answer and a stop are not under way for so long.
Sweep(c) ==
    /\ viewers[c] > 0 /\ On(Watching \cup Served \cup Unread, c) = 0 /\ underway = {}
    /\ viewers' = [viewers EXCEPT ![c] = 0]
    /\ UNCHANGED <<boot, tickets, request, channel, browser>>

Next ==
    \/ Restart
    \/ \E c \in Channels : Sweep(c) \/ \E w \in Attempts : Count(w, c)
    \/ \E p \in Pages : Again(p) \/ Leave(p) \/ Hide(p) \/ Show(p)
    \/ \E w \in Attempts : \/ Refuse(w) \/ Record(w) \/ GiveUp(w) \/ Answer(w)
                           \/ StopByTicket(w) \/ StopByRendition(w) \/ Read(w) \/ Fail(w) \/ LoseStop(w)

Spec == Init /\ [][Next]_vars

-----------------------------------------------------------------------------
\* A page that plays has a viewer, and so has a watch the server is starting: no stop,
\* late, doubled by the handler's own release or meant for the process before, takes
\* someone else's (play.go watch and release, tickets.go).  Only a page that played a
\* copy and then stops by rendition can: its stop names the asked channel.
NamesAnother == \E w \in Attempts \ underway : channel[w] = "copy" /\ stop[w] = "rendition"
NobodyElses == NamesAnother \/ \A c \in Channels : viewers[c] >= On(Watching \cup Served, c)

\* Once nothing is under way and if nothing was lost, the asked channel has no viewer
\* but the pages that play it: none is left to the 45 s sweep (tickets.go:11).  A
\* channel that plays as a copy is not in this: a stop names the asked one.
Settled ==
    /\ \A w \in Attempts : request[w] \notin InHandler \cup {"answered"}
    /\ underway = {} /\ lost = 0
NoneLeft == Settled => viewers["asked"] <= On(Watching, "asked")
=============================================================================
