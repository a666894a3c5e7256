------------------------------- MODULE Access -------------------------------
(***************************************************************************)
(* Pairing and sign-in.  A device shows a code, an admin approves it, and  *)
(* the device collects its token with polls (approvePair, pollPair); or an *)
(* admin makes a code or an invite and the device types it (claimPair).    *)
(* Wrong codes are counted against two caps (takeCodeTry).  Sign-in is     *)
(* switched in the settings, read from a cache, and an admin may revoke    *)
(* devices (revokeClient).  Requests run at once; the server may restart.  *)
(*   A device's token is the device's number: it is never shown again.     *)
(***************************************************************************)
EXTENDS Naturals, FiniteSets, Sequences, SequencesExt

CONSTANTS Slots,        \* requests in progress
          Callers,      \* where requests come from: ip, peer, host, fwd, cf
          Codes,        \* digits a code can have
          PendingMax, DenyAfter, TTL, InviteTTL, Window, IPLimit, FailCap,
          MaxNow, MaxPairings, MaxDevices, MaxGuesses, MaxSwitches, MaxRestarts

ASSUME AccessAssumption ==
    /\ IsFiniteSet(Slots) /\ 0 \notin Slots      \* a slot is no free lock
    /\ {TTL, InviteTTL, MaxPairings} \subseteq Nat

VARIABLES pairings,     \* table pairings
          clients,      \* table client_devices: scope and revoked
          signIn,       \* settings.deviceAuth as stored
          cachedSignIn, \* as the store's cached settings have it, or "none"
          pairTokens,   \* tokens waiting for a poll, by pairing
          pairHits,     \* counted calls: per address and per bucket
          pairMu, revokeMu,
          inHand,       \* requests in progress
          collected,    \* how often each pairing's token was sent
          lostTokens,   \* approved pairings whose token a restart took
          wrong,        \* guesses answered as wrong
          clock, guesses, switches, restarts
accessVars == <<pairings, clients, signIn, cachedSignIn, pairTokens, pairHits, pairMu, revokeMu,
                inHand, collected, lostTokens, wrong, clock, guesses, switches, restarts>>
tableVars == <<pairings, clients, signIn>>
ghostVars == <<collected, lostTokens, wrong>>
budgets == <<clock, guesses, switches, restarts>>

Free == 0
Ready == [op |-> "none"]
-----------------------------------------------------------------------------
(* Where a request comes from.                                             *)
(* tailnetRequest: from the tailnet, or from this machine on its behalf. *)
Tailnet(c) == (c.peer = "tailnet" /\ c.fwd \in {"none", "tailnet"}) \/ (c.peer = "loopback" /\ c.fwd = "tailnet")
(* isRemote *)
IsRemote(c) ==
    \/ c.cf \/ c.peer = "outside" \/ c.fwd = "outside"
    \/ c.host \in {"remote", "public"} \/ (c.host = "magic" /\ ~Tailnet(c))
(* hostAllowed: a foreign name is answered only through the built-in tunnel. *)
HostAllowed(c) == c.host # "foreign" \/ (c.cf /\ c.peer = "loopback")
(* failBucket: guesses from outside have a cap of their own. *)
FailBucket(c) == IF IsRemote(c) THEN <<"all", "remote">> ELSE <<"all", "home">>
Buckets == {<<"all", "remote">>, <<"all", "home">>}
Keys == Buckets \cup ({"fail", "ip"} \X {c.ip : c \in Callers})

(* DeviceAuthOn: the cache, filled when empty. *)
SignInRead == IF cachedSignIn = "none" THEN signIn ELSE cachedSignIn
DeviceAuthOn == SignInRead = "on"
ScopeRank(s) == CASE s = "watch" -> 1 [] s = "record" -> 2 [] s = "admin" -> 3 [] OTHER -> 0
(* ClientByToken: a revoked device is nobody. *)
Known(d) == d # Free /\ ~clients[d].revoked
(* withDeviceAuth and withHostCheck. *)
Admitted(c, d, need) ==
    /\ HostAllowed(c)
    /\ \/ ~(DeviceAuthOn \/ IsRemote(c)) \/ need = "public"
       \/ Known(d) /\ ScopeRank(clients[d].scope) >= ScopeRank(need)
Admit(c, d, need) == Admitted(c, d, need) /\ cachedSignIn' = SignInRead
Tokens == {Free} \cup DOMAIN clients
Admins == {d \in DOMAIN clients : clients[d].scope = "admin" /\ ~clients[d].revoked}
-----------------------------------------------------------------------------
(* Counting calls.                                                         *)
CountRecent(key) == Len(SelectSeq(pairHits[key], LAMBDA t : t + Window > clock))
(* hitAllowed, when it has room: old hits go, this one is added. *)
Hit(hits, key) == [hits EXCEPT ![key] = Append(SelectSeq(@, LAMBDA t : t + Window > clock), clock)]
CapsLeft(c) == CountRecent(<<"fail", c.ip>>) < IPLimit /\ CountRecent(FailBucket(c)) < FailCap
(* pairAllowed, when it lets the call in. *)
PairOpen(c) == CapsLeft(c) /\ CountRecent(<<"ip", c.ip>>) < IPLimit
CountedLater(c) == Hit(pairHits, <<"ip", c.ip>>)   \* mutant: a guess is counted once it proved wrong
(* pairAllowed counts the call, takeCodeTry the guess, before it is checked. *)
TakeCodeTry(c) == Hit(Hit(Hit(pairHits, <<"ip", c.ip>>), <<"fail", c.ip>>), FailBucket(c))
DropOne(list, t) == LET at == {i \in DOMAIN list : list[i] = t} IN
    IF at = {} THEN list ELSE RemoveAt(list, CHOOSE i \in at : \A j \in at : j <= i)
(* giveBackCodeTry *)
GiveBack(c, t) == [pairHits EXCEPT ![<<"fail", c.ip>>] = DropOne(@, t), ![FailBucket(c)] = DropOne(@, t)]
-----------------------------------------------------------------------------
(* expirePairings *)
Expired == [p \in DOMAIN pairings |-> IF pairings[p].state = "pending" /\ pairings[p].until <= clock
                                      THEN [pairings[p] EXCEPT !.state = "expired"] ELSE pairings[p]]
Waiting(mode) == {p \in DOMAIN pairings : Expired[p].state = "pending" /\ (Expired[p].mode = "invite") = (mode = "invite")}

Init ==
    /\ pairings = <<>> /\ clients = <<>> /\ signIn = "off" /\ cachedSignIn = "none"
    /\ pairTokens = {} /\ pairHits = [k \in Keys |-> <<>>] /\ pairMu = Free /\ revokeMu = Free
    /\ inHand = [i \in Slots |-> Ready] /\ collected = [p \in 1..MaxPairings |-> 0]
    /\ lostTokens = {} /\ wrong = <<>>
    /\ clock = 0 /\ guesses = 0 /\ switches = 0 /\ restarts = 0

(* StartPairing and CreateInvite: a code nobody else waits with.  Only a   *)
(* six-digit code counts against the address.                              *)
StartPairing(c, d, mode, scope) ==
    /\ Len(pairings) < MaxPairings /\ pairMu = Free
    /\ Admit(c, d, IF mode = "show" THEN "public" ELSE "admin")
    /\ mode # "invite" => PairOpen(c)
    /\ Cardinality(Waiting(mode)) < PendingMax
    /\ \E code \in Codes :
          /\ \A p \in DOMAIN pairings : Expired[p].state = "pending" => pairings[p].code # code
          /\ pairings' = Append(Expired, [mode |-> mode, code |-> code, scope |-> scope, state |-> "pending", attempts |-> 0,
                                          until |-> clock + IF mode = "invite" THEN InviteTTL ELSE TTL])
    /\ pairHits' = IF mode = "invite" THEN pairHits ELSE Hit(pairHits, <<"ip", c.ip>>)
    /\ UNCHANGED <<clients, signIn, pairTokens, pairMu, revokeMu, inHand, ghostVars, budgets>>

DeleteInvite(c, d, p) ==
    /\ Admit(c, d, "admin") /\ pairings[p].mode = "invite" /\ pairings[p].state = "pending"
    /\ pairings' = [pairings EXCEPT ![p].state = "expired"]
    /\ UNCHANGED <<clients, signIn, pairTokens, pairHits, pairMu, revokeMu, inHand, ghostVars, budgets>>

(* approvePair or claimPair up to the check of the code. *)
SubmitCode(i, c, d, mode, code) ==
    /\ inHand[i] = Ready /\ pairMu = Free /\ guesses < MaxGuesses /\ guesses' = guesses + 1
    /\ Admit(c, d, IF mode = "show" THEN "admin" ELSE "public")
    /\ PairOpen(c)
    /\ pairHits' = TakeCodeTry(c)
    /\ inHand' = [inHand EXCEPT ![i] = [op |-> "code", at |-> "read", mode |-> mode, from |-> c, code |-> code, try |-> clock, row |-> 0]]
    /\ UNCHANGED <<tableVars, pairTokens, pairMu, revokeMu, ghostVars, clock, switches, restarts>>

(* The answer "that code does not match", "expired" or "stopped". *)
WrongCode(i) ==
    /\ wrong' = Append(wrong, [from |-> inHand[i].from, at |-> inHand[i].try])
    /\ inHand' = [inHand EXCEPT ![i] = Ready]
    /\ pairMu' = IF pairMu = i THEN Free ELSE pairMu

(* finishCode reads the rows of the mode; approvePair holds pairMu from    *)
(* here on.  A pending row wins over others with the same digits.          *)
ReadCode(i) ==
    /\ inHand[i].op = "code" /\ inHand[i].at = "read"
    /\ inHand[i].mode = "show" => pairMu = Free
    /\ pairings' = Expired
    /\ LET rows == {p \in DOMAIN pairings : pairings[p].mode = inHand[i].mode /\ pairings[p].code = inHand[i].code}
           live == {p \in rows : Expired[p].state = "pending"}
       IN  IF live = {} THEN WrongCode(i)
           ELSE /\ inHand' = [inHand EXCEPT ![i].at = "finish", ![i].row = CHOOSE p \in live : TRUE]
                /\ pairMu' = IF inHand[i].mode = "show" THEN i ELSE pairMu
                /\ wrong' = wrong
    /\ UNCHANGED <<clients, signIn, cachedSignIn, pairTokens, pairHits, revokeMu, collected, lostTokens, budgets>>

(* finishCode's transaction: one submission takes the row and the device   *)
(* is made; a failed write takes nothing and gives the try back.           *)
FinishCode(i) ==
    /\ inHand[i].op = "code" /\ inHand[i].at = "finish"
    /\ \/ /\ pairings[inHand[i].row].state # "pending" /\ WrongCode(i)
          /\ UNCHANGED <<pairings, clients, collected>>
       \/ /\ inHand' = [inHand EXCEPT ![i].at = "settle"]
          /\ pairMu' = (IF pairMu = i THEN Free ELSE pairMu)
          /\ UNCHANGED <<pairings, clients, collected, wrong>>
       \/ /\ pairings[inHand[i].row].state = "pending" /\ Len(clients) < MaxDevices
          /\ pairings' = [pairings EXCEPT ![inHand[i].row].state = "approved"]
          /\ clients' = Append(clients, [scope |-> pairings[inHand[i].row].scope, revoked |-> FALSE])
          /\ inHand' = [inHand EXCEPT ![i].at = IF inHand[i].mode = "show" THEN "hold" ELSE "settle"]
          /\ collected' = [collected EXCEPT ![inHand[i].row] = @ + IF inHand[i].mode = "show" THEN 0 ELSE 1]
          /\ UNCHANGED <<pairMu, wrong>>
    /\ UNCHANGED <<signIn, cachedSignIn, pairTokens, pairHits, revokeMu, lostTokens, budgets>>

(* approvePair leaves the token for the polls. *)
HoldToken(i) ==
    /\ inHand[i].op = "code" /\ inHand[i].at = "hold"
    /\ pairTokens' = pairTokens \cup {inHand[i].row}
    /\ pairMu' = (IF pairMu = i THEN Free ELSE pairMu)
    /\ inHand' = [inHand EXCEPT ![i].at = "settle"]
    /\ UNCHANGED <<tableVars, cachedSignIn, pairHits, revokeMu, ghostVars, budgets>>

(* settleCodeTry gives the try back. *)
SettleCodeTry(i) ==
    /\ inHand[i].op = "code" /\ inHand[i].at = "settle" /\ pairMu = Free
    /\ pairHits' = GiveBack(inHand[i].from, inHand[i].try)
    /\ inHand' = [inHand EXCEPT ![i] = Ready]
    /\ UNCHANGED <<tableVars, cachedSignIn, pairTokens, pairMu, revokeMu, ghostVars, budgets>>
-----------------------------------------------------------------------------
(* PollPairing with the right secret, and pollPair's answers that end it;  *)
(* only a GET of an approved pairing goes on to the token.                 *)
PollPairing(i, p) ==
    /\ inHand[i] = Ready /\ pairings[p].mode = "show"
    /\ pairings' = Expired
    /\ inHand' = IF Expired[p].state = "approved" THEN [inHand EXCEPT ![i] = [op |-> "poll", at |-> "take", row |-> p]] ELSE inHand
    /\ UNCHANGED <<clients, signIn, cachedSignIn, pairTokens, pairHits, pairMu, revokeMu, ghostVars, budgets>>

(* notePairFailure: a poll with another secret. *)
PollWrong(p) ==
    /\ pairings[p].mode = "show" /\ Expired[p].state = "pending"
    /\ pairings' = [Expired EXCEPT ![p].attempts = @ + 1, ![p].state = IF pairings[p].attempts + 1 >= DenyAfter THEN "denied" ELSE @]
    /\ UNCHANGED <<clients, signIn, cachedSignIn, pairTokens, pairHits, pairMu, revokeMu, inHand, ghostVars, budgets>>

LeftForOthers(p) == pairTokens     \* mutant: the token is read and left in the map
(* takePairToken *)
TakePairToken(p) == pairTokens \ {p}

TakeToken(i) ==
    /\ inHand[i].op = "poll" /\ inHand[i].at = "take" /\ pairMu = Free
    /\ pairTokens' = TakePairToken(inHand[i].row)
    /\ inHand' = IF inHand[i].row \in pairTokens THEN [inHand EXCEPT ![i].at = "write"] ELSE [inHand EXCEPT ![i] = Ready]
    /\ UNCHANGED <<tableVars, cachedSignIn, pairHits, pairMu, revokeMu, ghostVars, budgets>>

(* The answer with the token is written, or its write fails. *)
WriteToken(i) ==
    /\ inHand[i].op = "poll" /\ inHand[i].at = "write"
    /\ \/ /\ collected' = [collected EXCEPT ![inHand[i].row] = @ + 1]
          /\ inHand' = [inHand EXCEPT ![i] = Ready]
       \/ /\ inHand' = [inHand EXCEPT ![i].at = "restore"] /\ UNCHANGED collected
    /\ UNCHANGED <<tableVars, cachedSignIn, pairTokens, pairHits, pairMu, revokeMu, lostTokens, wrong, budgets>>

RestorePairToken(i) ==
    /\ inHand[i].op = "poll" /\ inHand[i].at = "restore" /\ pairMu = Free
    /\ pairTokens' = pairTokens \cup {inHand[i].row}
    /\ inHand' = [inHand EXCEPT ![i] = Ready]
    /\ UNCHANGED <<tableVars, cachedSignIn, pairHits, pairMu, revokeMu, ghostVars, budgets>>
-----------------------------------------------------------------------------
RevokesAtOnce(i) == TRUE           \* mutant: revokes do not wait for each other
(* revokeMu *)
RevokeTurn(i) == revokeMu = Free
(* lastAdmin *)
LastAdmin(d) == DeviceAuthOn /\ Admins = {d}

(* revokeClient takes revokeMu and checks; the write is a step of its own. *)
RevokeClient(i, c, d, target) ==
    /\ inHand[i] = Ready /\ RevokeTurn(i)
    /\ Admit(c, d, "admin")
    /\ ~LastAdmin(target)
    /\ revokeMu' = i
    /\ inHand' = [inHand EXCEPT ![i] = [op |-> "revoke", at |-> "write", row |-> target, sawOn |-> DeviceAuthOn]]
    /\ UNCHANGED <<tableVars, pairTokens, pairHits, pairMu, ghostVars, budgets>>

Revoke(i) ==
    /\ inHand[i].op = "revoke"
    /\ clients' = [clients EXCEPT ![inHand[i].row].revoked = TRUE]
    /\ revokeMu' = Free
    /\ inHand' = [inHand EXCEPT ![i] = Ready]
    /\ UNCHANGED <<pairings, signIn, cachedSignIn, pairTokens, pairHits, pairMu, ghostVars, budgets>>

(* putSettings reads who asks and whether sign-in was on. *)
PutSettings(i, c, d, on) ==
    /\ inHand[i] = Ready /\ switches < MaxSwitches /\ switches' = switches + 1
    /\ Admit(c, d, "admin")
    /\ inHand' = [inHand EXCEPT ![i] = [op |-> "put", at |-> "write", on |-> on,
                                        mint |-> on = "on" /\ ~DeviceAuthOn /\ ~(Known(d) /\ clients[d].scope = "admin")]]
    /\ UNCHANGED <<tableVars, pairTokens, pairHits, pairMu, revokeMu, ghostVars, clock, guesses, restarts>>

(* EnableDeviceAuth (setting and first admin in one transaction) or PutSettings. *)
WriteSettings(i) ==
    /\ inHand[i].op = "put" /\ inHand[i].at = "write"
    /\ inHand[i].mint => Len(clients) < MaxDevices
    /\ signIn' = inHand[i].on
    /\ clients' = IF inHand[i].mint THEN Append(clients, [scope |-> "admin", revoked |-> FALSE]) ELSE clients
    /\ inHand' = [inHand EXCEPT ![i].at = "forget"]
    /\ UNCHANGED <<pairings, cachedSignIn, pairTokens, pairHits, pairMu, revokeMu, ghostVars, budgets>>

ForgetSettings(i) ==
    /\ inHand[i].op = "put" /\ inHand[i].at = "forget"
    /\ cachedSignIn' = "none"
    /\ inHand' = [inHand EXCEPT ![i] = Ready]
    /\ UNCHANGED <<tableVars, pairTokens, pairHits, pairMu, revokeMu, ghostVars, budgets>>

Tick ==
    /\ clock < MaxNow /\ clock' = clock + 1
    /\ UNCHANGED <<tableVars, cachedSignIn, pairTokens, pairHits, pairMu, revokeMu, inHand, ghostVars, guesses, switches, restarts>>

(* The tables stay; what the process held is gone. *)
Restart ==
    /\ restarts < MaxRestarts /\ restarts' = restarts + 1
    /\ cachedSignIn' = "none" /\ pairTokens' = {} /\ pairHits' = [k \in Keys |-> <<>>]
    /\ pairMu' = Free /\ revokeMu' = Free /\ inHand' = [i \in Slots |-> Ready]
    /\ lostTokens' = {p \in DOMAIN pairings : pairings[p].state = "approved" /\ collected[p] = 0}
    /\ wrong' = <<>>
    /\ UNCHANGED <<tableVars, collected, clock, guesses, switches>>

Next ==
    \/ \E c \in Callers, d \in Tokens :
          \/ \E mode \in {"show", "claim", "invite"}, scope \in {"watch", "admin"} : StartPairing(c, d, mode, scope)
          \/ \E p \in DOMAIN pairings : DeleteInvite(c, d, p)
          \/ \E i \in Slots :
                \/ \E mode \in {"show", "claim", "invite"}, code \in Codes : SubmitCode(i, c, d, mode, code)
                \/ \E t \in DOMAIN clients : RevokeClient(i, c, d, t)
                \/ \E on \in {"on", "off"} : PutSettings(i, c, d, on)
    \/ \E i \in Slots :
          \/ ReadCode(i) \/ FinishCode(i) \/ HoldToken(i) \/ SettleCodeTry(i)
          \/ TakeToken(i) \/ WriteToken(i) \/ RestorePairToken(i)
          \/ Revoke(i) \/ WriteSettings(i) \/ ForgetSettings(i)
          \/ \E p \in DOMAIN pairings : PollPairing(i, p)
    \/ \E p \in DOMAIN pairings : PollWrong(p)
    \/ Tick \/ Restart
Spec == Init /\ [][Next]_accessVars
-----------------------------------------------------------------------------
Sending(p) == {i \in Slots : inHand[i].op = "poll" /\ inHand[i].row = p /\ inHand[i].at \in {"write", "restore"}}
BeingHeld(p) == {i \in Slots : pairMu = i /\ inHand[i].op = "code" /\ inHand[i].at = "hold" /\ inHand[i].row = p}

(* Where an approved pairing's token is. *)
Places(p) ==
    Cardinality(BeingHeld(p)) + (IF p \in pairTokens THEN 1 ELSE 0) + Cardinality(Sending(p)) + collected[p]
      + (IF p \in lostTokens THEN 1 ELSE 0)

(* Two polls, a failed write and an approval still under way never copy or *)
(* drop a token: whoever sees a pairing approved, its token is in exactly  *)
(* one place - being left by the approval, waiting, being sent, or sent -  *)
(* unless a restart took it.                                               *)
HandedOnce ==
    \A p \in DOMAIN pairings : pairings[p].state = "approved" => Places(p) = 1

(* However many codes are tried at once, the wrong ones answered in one    *)
(* window stay within the cap of their address and that of their bucket.   *)
GuessesCapped ==
    LET recent(ok(_)) == Len(SelectSeq(wrong, LAMBDA g : g.at + Window > clock /\ ok(g.from)))
    IN  /\ \A c \in Callers : recent(LAMBDA f : f.ip = c.ip) <= IPLimit
        /\ \A b \in Buckets : recent(LAMBDA f : FailBucket(f) = b) <= FailCap

(* Revokes that found sign-in on leave an admin, however many run at once. *)
LeavesAdmin ==
    \A i \in Slots :
        inHand[i].op = "revoke" /\ inHand'[i] = Ready /\ inHand[i].sawOn /\ clients' # clients /\ Admins # {} =>
            Admins' # {}
AdminLeft == [][LeavesAdmin]_accessVars
-----------------------------------------------------------------------------
Modes == {"show", "claim", "invite"}
Scopes == {"watch", "admin"}
Pairing ==
    [mode : Modes, code : Codes, scope : Scopes, state : {"pending", "approved", "expired", "denied"},
     attempts : Nat, until : Nat]
Client == [scope : Scopes, revoked : BOOLEAN]
CodeRequest ==
    [op : {"code"}, at : {"read", "finish", "hold", "settle"}, mode : Modes, from : Callers, code : Codes,
     try : Nat, row : Nat]
PollRequest == [op : {"poll"}, at : {"take", "write", "restore"}, row : Nat]
RevokeRequest == [op : {"revoke"}, at : {"write"}, row : Nat, sawOn : BOOLEAN]
PutRequest == [op : {"put"}, at : {"write", "forget"}, on : {"on", "off"}, mint : BOOLEAN]
Request == {Ready} \cup CodeRequest \cup PollRequest \cup RevokeRequest \cup PutRequest

(* All but the times of the hits and the wrong guesses. *)
TypeOK ==
    /\ pairings \in Seq(Pairing) /\ Len(pairings) <= MaxPairings
    /\ clients \in Seq(Client)
    /\ signIn \in {"on", "off"} /\ cachedSignIn \in {"none", "on", "off"}
    /\ pairTokens \subseteq 1..MaxPairings /\ lostTokens \subseteq 1..MaxPairings
    /\ pairMu \in Slots \cup {Free} /\ revokeMu \in Slots \cup {Free}
    /\ inHand \in [Slots -> Request]
    /\ collected \in [1..MaxPairings -> Nat]
    /\ clock \in Nat

Approved(p) == p \in DOMAIN pairings /\ pairings[p].state = "approved"

(* Why the two hold: a token is in one place, and nowhere before its       *)
(* pairing is approved; an approval keeps pairMu until the token is left   *)
(* for the polls, and a revoke keeps revokeMu from its check to its write, *)
(* while others can only add devices.                                      *)
Knows(i) ==
    LET r == inHand[i]
    IN  /\ r.op = "code" /\ r.at \in {"finish", "hold"} =>
               /\ r.row \in DOMAIN pairings
               /\ r.mode = "show" => pairMu = i
               /\ r.at = "hold" => r.mode = "show"
        /\ r.op = "poll" => r.row \in DOMAIN pairings
        /\ r.op = "revoke" =>
               revokeMu = i /\ r.row \in DOMAIN clients /\ (r.sawOn => Admins # {r.row})
AccessInv ==
    /\ TypeOK
    /\ \A p \in 1..MaxPairings : Places(p) = IF Approved(p) THEN 1 ELSE 0
    /\ \A i \in Slots : Knows(i)
=============================================================================
