----------------------------- MODULE AccessProofs -----------------------------
(***************************************************************************)
(* Whatever polls, approvals, failed writes, revokes, settings and         *)
(* restarts interleave, an approved pairing's token is in exactly one      *)
(* place, and a revoke that found sign-in on leaves an admin; for any      *)
(* number of requests, callers, codes and devices.                         *)
(***************************************************************************)
EXTENDS Access, FiniteSetTheorems, TLAPS

USE AccessAssumption DEF AccessAssumption

-----------------------------------------------------------------------------
(* Where a token is.                                                        *)

\* What one request holds, or sends, of pairing p.
HoldsIt(mu, r, i, p) == mu = i /\ r.op = "code" /\ r.at = "hold" /\ r.row = p
SendsIt(r, p) == r.op = "poll" /\ r.row = p /\ r.at \in {"write", "restore"}

One(b) == IF b THEN 1 ELSE 0

LEMMA CountsAre ==
    ASSUME NEW S, NEW T, S \subseteq Slots, T \subseteq Slots, NEW i \in Slots,
           \A j \in Slots \ {i} : j \in S <=> j \in T
    PROVE  /\ Cardinality(S) \in Nat /\ Cardinality(T) \in Nat
           /\ i \in S => Cardinality(S) > 0
           /\ Cardinality(T) + One(i \in S) = Cardinality(S) + One(i \in T)
<1>1. IsFiniteSet(S) /\ IsFiniteSet(T) BY FS_Subset
<1>2. Cardinality(S) \in Nat /\ Cardinality(T) \in Nat BY <1>1, FS_CardinalityType
<1>3. i \in S => Cardinality(S) > 0
  <2>1. ASSUME i \in S PROVE Cardinality(S) # 0 BY <1>1, <2>1, FS_EmptySet
  <2> QED BY <1>2, <2>1
<1>4. CASE i \in S <=> i \in T
  <2>1. S = T BY <1>4
  <2> QED BY <1>2, <1>3, <2>1
<1>5. CASE i \notin S /\ i \in T
  <2>1. T = S \cup {i} BY <1>5
  <2>2. Cardinality(T) = Cardinality(S) + 1 BY <1>1, <1>5, <2>1, FS_AddElement
  <2> QED BY <1>2, <1>5, <2>2 DEF One
<1>6. CASE i \in S /\ i \notin T
  <2>1. T = S \ {i} BY <1>6
  <2>2. Cardinality(T) = Cardinality(S) - 1 BY <1>1, <1>6, <2>1, FS_RemoveElement
  <2> QED BY <1>2, <1>3, <1>6, <2>2 DEF One
<1> QED BY <1>4, <1>5, <1>6

\* One request moves on, and no other gets or loses pairMu.
LEMMA Moves ==
    ASSUME TypeOK, NEW i \in Slots, NEW q, inHand' = [inHand EXCEPT ![i] = q],
           \A j \in Slots \ {i} : pairMu' = j <=> pairMu = j, NEW p
    PROVE  /\ Cardinality(BeingHeld(p)) \in Nat /\ Cardinality(BeingHeld(p)') \in Nat
           /\ Cardinality(Sending(p)) \in Nat /\ Cardinality(Sending(p)') \in Nat
           /\ Cardinality(BeingHeld(p)') + One(HoldsIt(pairMu, inHand[i], i, p))
                = Cardinality(BeingHeld(p)) + One(HoldsIt(pairMu', q, i, p))
           /\ Cardinality(Sending(p)') + One(SendsIt(inHand[i], p)) = Cardinality(Sending(p)) + One(SendsIt(q, p))
<1>1. inHand'[i] = q /\ \A j \in Slots \ {i} : inHand'[j] = inHand[j] BY DEF TypeOK
<1> DEFINE H == BeingHeld(p)
           K == BeingHeld(p)'
           S == Sending(p)
           T == Sending(p)'
<1>2. /\ H \subseteq Slots /\ K \subseteq Slots /\ S \subseteq Slots /\ T \subseteq Slots
  BY DEF BeingHeld, Sending
<1>3. \A j \in Slots \ {i} : (j \in H <=> j \in K) /\ (j \in S <=> j \in T) BY <1>1 DEF BeingHeld, Sending
<1>4. /\ i \in H <=> HoldsIt(pairMu, inHand[i], i, p)
      /\ i \in K <=> HoldsIt(pairMu', q, i, p)
      /\ i \in S <=> SendsIt(inHand[i], p)
      /\ i \in T <=> SendsIt(q, p)
  BY <1>1 DEF BeingHeld, Sending, HoldsIt, SendsIt
<1> HIDE DEF H, K, S, T
<1>5. /\ Cardinality(H) \in Nat /\ Cardinality(K) \in Nat
      /\ Cardinality(K) + One(i \in H) = Cardinality(H) + One(i \in K)
  BY <1>2, <1>3, CountsAre
<1>6. /\ Cardinality(S) \in Nat /\ Cardinality(T) \in Nat
      /\ Cardinality(T) + One(i \in S) = Cardinality(S) + One(i \in T)
  BY <1>2, <1>3, CountsAre
<1>7. /\ One(i \in H) = One(HoldsIt(pairMu, inHand[i], i, p)) /\ One(i \in K) = One(HoldsIt(pairMu', q, i, p))
      /\ One(i \in S) = One(SendsIt(inHand[i], p)) /\ One(i \in T) = One(SendsIt(q, p))
  BY <1>4 DEF One
<1> QED BY <1>5, <1>6, <1>7 DEF H, K, S, T

\* A request that sends or holds a token: it is nowhere else, and is approved.
LEMMA HeldOnce ==
    ASSUME AccessInv, NEW p \in 1..MaxPairings, NEW i \in Slots
    PROVE  /\ Cardinality(BeingHeld(p)) \in Nat /\ Cardinality(Sending(p)) \in Nat /\ collected[p] \in Nat
           /\ Places(p) = One(Approved(p))
           /\ HoldsIt(pairMu, inHand[i], i, p) => Cardinality(BeingHeld(p)) > 0
           /\ SendsIt(inHand[i], p) => Cardinality(Sending(p)) > 0
<1> DEFINE H == BeingHeld(p)
           S == Sending(p)
<1>1. H \subseteq Slots /\ S \subseteq Slots BY DEF BeingHeld, Sending
<1>2. (i \in H <=> HoldsIt(pairMu, inHand[i], i, p)) /\ (i \in S <=> SendsIt(inHand[i], p))
  BY DEF BeingHeld, Sending, HoldsIt, SendsIt
<1>3. collected[p] \in Nat /\ Places(p) = One(Approved(p)) BY DEF AccessInv, TypeOK, One
<1> HIDE DEF H, S
<1>4. Cardinality(H) \in Nat /\ (i \in H => Cardinality(H) > 0) BY <1>1, CountsAre
<1>5. Cardinality(S) \in Nat /\ (i \in S => Cardinality(S) > 0) BY <1>1, CountsAre
<1> QED BY <1>2, <1>3, <1>4, <1>5 DEF H, S

\* A request's part in where p's token is, with the places no request is.
Share(mu, r, i, tokens, sent, lost, p) ==
    One(p \in tokens) + One(HoldsIt(mu, r, i, p)) + One(SendsIt(r, p)) + sent[p] + One(p \in lost)

LEMMA ShareMoves ==
    ASSUME AccessInv, TypeOK', NEW i \in Slots, NEW q, inHand' = [inHand EXCEPT ![i] = q],
           \A j \in Slots \ {i} : pairMu' = j <=> pairMu = j,
           NEW p \in 1..MaxPairings,
           Share(pairMu', q, i, pairTokens', collected', lostTokens', p) + One(Approved(p))
             = Share(pairMu, inHand[i], i, pairTokens, collected, lostTokens, p) + One(Approved(p)')
    PROVE  Places(p)' = IF Approved(p)' THEN 1 ELSE 0
<1>1. /\ Cardinality(BeingHeld(p)) \in Nat /\ Cardinality(BeingHeld(p)') \in Nat
      /\ Cardinality(Sending(p)) \in Nat /\ Cardinality(Sending(p)') \in Nat
      /\ Cardinality(BeingHeld(p)') + One(HoldsIt(pairMu, inHand[i], i, p))
           = Cardinality(BeingHeld(p)) + One(HoldsIt(pairMu', q, i, p))
      /\ Cardinality(Sending(p)') + One(SendsIt(inHand[i], p)) = Cardinality(Sending(p)) + One(SendsIt(q, p))
  <2>1. TypeOK BY DEF AccessInv
  <2> QED BY <2>1, Moves
<1>2. Places(p) = One(Approved(p)) BY DEF AccessInv, One
<1>3. collected[p] \in Nat /\ collected'[p] \in Nat BY DEF AccessInv, TypeOK
<1>4. Places(p) = Cardinality(BeingHeld(p)) + One(p \in pairTokens) + Cardinality(Sending(p)) + collected[p]
                    + One(p \in lostTokens)
  BY DEF Places, One
<1>5. Places(p)' = Cardinality(BeingHeld(p)') + One(p \in pairTokens') + Cardinality(Sending(p)') + collected'[p]
                    + One(p \in lostTokens')
  BY DEF Places, One
<1>6. \A b \in BOOLEAN : One(b) \in Nat BY DEF One
<1> DEFINE h == Cardinality(BeingHeld(p))
           k == Cardinality(BeingHeld(p)')
           s == Cardinality(Sending(p))
           t == Cardinality(Sending(p)')
           a == One(Approved(p))
           b == One(Approved(p)')
           oh == One(HoldsIt(pairMu, inHand[i], i, p))
           nh == One(HoldsIt(pairMu', q, i, p))
           os == One(SendsIt(inHand[i], p))
           ns == One(SendsIt(q, p))
           ot == One(p \in pairTokens)
           nt == One(p \in pairTokens')
           ol == One(p \in lostTokens)
           nl == One(p \in lostTokens')
           oc == collected[p]
           nc == collected'[p]
<1>7. oh \in Nat /\ nh \in Nat /\ os \in Nat /\ ns \in Nat BY DEF One, HoldsIt, SendsIt
<1>8. a \in Nat /\ b \in Nat /\ ot \in Nat /\ nt \in Nat /\ ol \in Nat /\ nl \in Nat BY DEF One
<1>9. nt + nh + ns + nc + nl + a = ot + oh + os + oc + ol + b BY DEF Share
<1>10. k + oh = h + nh /\ t + os = s + ns /\ h + ot + s + oc + ol = a
       /\ h \in Nat /\ k \in Nat /\ s \in Nat /\ t \in Nat /\ oc \in Nat /\ nc \in Nat
  BY <1>1, <1>2, <1>3, <1>4
<1>11. Places(p)' = k + nt + t + nc + nl BY <1>5
<1>12. b = IF Approved(p)' THEN 1 ELSE 0 BY DEF One
<1> HIDE DEF h, k, s, t, a, b, oh, nh, os, ns, ot, nt, ol, nl, oc, nc
<1>13. k + nt + t + nc + nl = b BY ONLY <1>7, <1>8, <1>9, <1>10
<1> QED BY ONLY <1>11, <1>12, <1>13

-----------------------------------------------------------------------------
(* What the others still know.                                              *)

\* A device is added.
Adds == \E scope \in Scopes : clients' = Append(clients, [scope |-> scope, revoked |-> FALSE])

LEMMA AdminsDo ==
    ASSUME clients \in Seq(Client), Adds
    PROVE  /\ DOMAIN clients \subseteq DOMAIN clients'
           /\ \A row \in DOMAIN clients : Admins # {row} => Admins' # {row}
<1>1. PICK scope \in Scopes : clients' = Append(clients, [scope |-> scope, revoked |-> FALSE]) BY DEF Adds
<1> DEFINE n == Len(clients) + 1
<1>2. /\ DOMAIN clients' = 1..n /\ DOMAIN clients = 1..Len(clients) /\ n \notin DOMAIN clients
      /\ DOMAIN clients' = DOMAIN clients \cup {n}
      /\ \A d \in DOMAIN clients : clients'[d] = clients[d]
  BY <1>1
<1>3. Admins \subseteq Admins' /\ Admins' \subseteq Admins \cup {n} /\ Admins \subseteq DOMAIN clients
  BY <1>2 DEF Admins
<1> HIDE DEF n
<1> QED BY ONLY <1>2, <1>3

LEMMA OthersKnow ==
    ASSUME AccessInv, NEW i \in Slots, NEW j \in Slots \ {i}, inHand'[j] = inHand[j],
           pairMu' = j <=> pairMu = j, revokeMu' = j <=> revokeMu = j,
           DOMAIN pairings \subseteq DOMAIN pairings',
           clients' = clients \/ Adds \/ revokeMu = i
    PROVE  Knows(j)'
<1>1. Knows(j) /\ TypeOK BY DEF AccessInv
<1>2. ASSUME inHand[j].op = "code", inHand[j].at \in {"finish", "hold"}
      PROVE  /\ inHand[j].row \in DOMAIN pairings'
             /\ inHand[j].mode = "show" => pairMu' = j
             /\ inHand[j].at = "hold" => inHand[j].mode = "show"
  BY <1>1, <1>2 DEF Knows
<1>3. ASSUME inHand[j].op = "revoke"
      PROVE  /\ revokeMu' = j /\ inHand[j].row \in DOMAIN clients'
             /\ inHand[j].sawOn => Admins' # {inHand[j].row}
  <2>1. revokeMu = j /\ inHand[j].row \in DOMAIN clients /\ (inHand[j].sawOn => Admins # {inHand[j].row})
    BY <1>1, <1>3 DEF Knows
  <2>2. CASE clients' = clients BY <2>1, <2>2 DEF Admins
  <2>3. CASE Adds
    <3>1. clients \in Seq(Client) BY <1>1 DEF TypeOK
    <3>2. /\ DOMAIN clients \subseteq DOMAIN clients'
          /\ \A row \in DOMAIN clients : Admins # {row} => Admins' # {row}
      BY <2>3, <3>1, AdminsDo
    <3> QED BY <2>1, <3>2
  <2> QED BY <2>1, <2>2, <2>3
<1>4. inHand[j].op = "poll" => inHand[j].row \in DOMAIN pairings' BY <1>1 DEF Knows
<1> QED BY <1>2, <1>3, <1>4 DEF Knows

\* A step of one request.
LEMMA RequestStep ==
    ASSUME AccessInv, TypeOK', NEW i \in Slots, NEW q, inHand' = [inHand EXCEPT ![i] = q],
           \A j \in Slots \ {i} : (pairMu' = j <=> pairMu = j) /\ (revokeMu' = j <=> revokeMu = j),
           DOMAIN pairings \subseteq DOMAIN pairings',
           clients' = clients \/ Adds \/ revokeMu = i,
           Knows(i)',
           \A p \in 1..MaxPairings :
              Share(pairMu', q, i, pairTokens', collected', lostTokens', p) + One(Approved(p))
                = Share(pairMu, inHand[i], i, pairTokens, collected, lostTokens, p) + One(Approved(p)')
    PROVE  AccessInv'
<1>1. \A p \in 1..MaxPairings : Places(p)' = IF Approved(p)' THEN 1 ELSE 0
  BY ShareMoves
<1>2. ASSUME NEW j \in Slots, j # i PROVE Knows(j)'
  <2>1. inHand'[j] = inHand[j] BY <1>2 DEF AccessInv, TypeOK
  <2> QED BY <1>2, <2>1, OthersKnow
<1>3. \A j \in Slots : Knows(j)' BY <1>2
<1> QED BY <1>1, <1>3 DEF AccessInv

\* A step of no request.
LEMMA QuietStep ==
    ASSUME AccessInv, TypeOK',
           UNCHANGED <<clients, inHand, pairMu, revokeMu, pairTokens, collected, lostTokens>>,
           DOMAIN pairings \subseteq DOMAIN pairings',
           \A p \in 1..MaxPairings : Approved(p)' <=> Approved(p)
    PROVE  AccessInv'
<1>1. ASSUME NEW p \in 1..MaxPairings PROVE Places(p)' = IF Approved(p)' THEN 1 ELSE 0
  <2>1. Places(p) = IF Approved(p) THEN 1 ELSE 0 BY DEF AccessInv
  <2>2. BeingHeld(p)' = BeingHeld(p) /\ Sending(p)' = Sending(p) BY DEF BeingHeld, Sending
  <2>3. Places(p)' = Places(p) BY <2>2 DEF Places
  <2> QED BY <2>1, <2>3
<1>2. ASSUME NEW j \in Slots PROVE Knows(j)'
  <2>1. Knows(j) BY DEF AccessInv
  <2>2. Admins' = Admins BY DEF Admins
  <2> QED BY <2>1, <2>2 DEF Knows
<1> QED BY <1>1, <1>2 DEF AccessInv

-----------------------------------------------------------------------------
(* Requests.                                                                *)

\* A request moves on and takes or leaves no token.
LEMMA PlainTurn ==
    ASSUME AccessInv, NEW i \in Slots, NEW q \in Request, inHand' = [inHand EXCEPT ![i] = q],
           UNCHANGED <<clients, pairTokens, collected, lostTokens, clock>>,
           pairings' \in Seq(Pairing), Len(pairings') = Len(pairings),
           \A p \in 1..MaxPairings : Approved(p)' <=> Approved(p),
           signIn' \in {"on", "off"}, cachedSignIn' \in {"none", "on", "off"},
           pairMu' \in Slots \cup {Free}, revokeMu' \in Slots \cup {Free},
           \A j \in Slots \ {i} : (pairMu' = j <=> pairMu = j) /\ (revokeMu' = j <=> revokeMu = j),
           \A p : HoldsIt(pairMu', q, i, p) <=> HoldsIt(pairMu, inHand[i], i, p),
           \A p : SendsIt(q, p) <=> SendsIt(inHand[i], p),
           Knows(i)'
    PROVE  AccessInv'
<1>1. TypeOK'
  <2>1. inHand' \in [Slots -> Request] BY DEF AccessInv, TypeOK
  <2> HIDE DEF Request, Pairing, Client
  <2> QED BY <2>1 DEF AccessInv, TypeOK
<1>2. DOMAIN pairings' = DOMAIN pairings
  <2>1. pairings \in Seq(Pairing) BY DEF AccessInv, TypeOK
  <2> QED BY <2>1
<1>3. ASSUME NEW p \in 1..MaxPairings
      PROVE  Share(pairMu', q, i, pairTokens', collected', lostTokens', p) + One(Approved(p))
               = Share(pairMu, inHand[i], i, pairTokens, collected, lostTokens, p) + One(Approved(p)')
  <2>1. /\ One(HoldsIt(pairMu', q, i, p)) = One(HoldsIt(pairMu, inHand[i], i, p))
        /\ One(SendsIt(q, p)) = One(SendsIt(inHand[i], p)) /\ One(Approved(p)') = One(Approved(p))
    BY DEF One
  <2> QED BY <2>1 DEF Share
<1> QED BY <1>1, <1>2, <1>3, RequestStep

LEMMA Typed ==
    ASSUME AccessInv
    PROVE  /\ TypeOK /\ pairings \in Seq(Pairing) /\ Len(pairings) <= MaxPairings /\ clients \in Seq(Client)
           /\ signIn \in {"on", "off"} /\ cachedSignIn \in {"none", "on", "off"}
           /\ pairTokens \subseteq 1..MaxPairings /\ lostTokens \subseteq 1..MaxPairings
           /\ pairMu \in Slots \cup {Free} /\ revokeMu \in Slots \cup {Free}
           /\ inHand \in [Slots -> Request] /\ collected \in [1..MaxPairings -> Nat] /\ clock \in Nat
           /\ DOMAIN pairings \subseteq 1..MaxPairings
<1>1. TypeOK BY DEF AccessInv
<1>2. DOMAIN pairings = 1..Len(pairings) /\ Len(pairings) \in Nat BY <1>1 DEF TypeOK
<1> QED BY <1>1, <1>2 DEF TypeOK

LEMMA ReadsSignIn ==
    ASSUME AccessInv
    PROVE  SignInRead \in {"on", "off"}
BY Typed DEF SignInRead

\* Which kind of request a slot has.
LEMMA KindOf ==
    ASSUME AccessInv, NEW i \in Slots
    PROVE  /\ inHand[i].op = "code" => inHand[i] \in CodeRequest
           /\ inHand[i].op = "poll" => inHand[i] \in PollRequest
           /\ inHand[i].op = "revoke" => inHand[i] \in RevokeRequest
           /\ inHand[i].op = "put" => inHand[i] \in PutRequest
<1>1. inHand[i] \in Request BY Typed
<1> QED BY <1>1 DEF Request, Ready, CodeRequest, PollRequest, RevokeRequest, PutRequest

LEMMA ExpiredDoes ==
    ASSUME AccessInv
    PROVE  /\ Expired \in Seq(Pairing) /\ Len(Expired) = Len(pairings) /\ DOMAIN Expired = DOMAIN pairings
           /\ \A p \in DOMAIN pairings :
                 /\ Expired[p].state = "approved" <=> pairings[p].state = "approved"
                 /\ Expired[p] \in Pairing
<1>1. pairings \in Seq(Pairing) BY Typed
<1>2. DOMAIN pairings = 1..Len(pairings) /\ Len(pairings) \in Nat /\ \A p \in DOMAIN pairings : pairings[p] \in Pairing
  BY <1>1
<1>3. ASSUME NEW p \in DOMAIN pairings
      PROVE  /\ Expired[p].state = "approved" <=> pairings[p].state = "approved"
             /\ Expired[p] \in Pairing
  <2>1. Expired[p] = IF pairings[p].state = "pending" /\ pairings[p].until <= clock
                     THEN [pairings[p] EXCEPT !.state = "expired"] ELSE pairings[p]
    BY DEF Expired
  <2> QED BY <1>2, <2>1 DEF Pairing
<1>4. Expired = [p \in 1..Len(pairings) |-> Expired[p]] BY <1>2 DEF Expired
<1>5. DOMAIN Expired = DOMAIN pairings BY DEF Expired
<1> HIDE DEF Pairing
<1>6. Expired \in [1..Len(pairings) -> Pairing] BY <1>2, <1>3, <1>4
<1>7. Expired \in Seq(Pairing) BY <1>2, <1>6
<1>8. Len(Expired) = Len(pairings) BY <1>2, <1>5, <1>7
<1> QED BY <1>3, <1>5, <1>7, <1>8

LEMMA SubmitCodeStep ==
    ASSUME AccessInv, NEW i \in Slots, NEW c \in Callers, NEW d, NEW mode \in Modes, NEW code \in Codes,
           SubmitCode(i, c, d, mode, code)
    PROVE  AccessInv'
<1> DEFINE q == [op |-> "code", at |-> "read", mode |-> mode, from |-> c, code |-> code, try |-> clock, row |-> 0]
<1>1. /\ inHand[i] = Ready /\ inHand' = [inHand EXCEPT ![i] = q] /\ cachedSignIn' = SignInRead
      /\ pairings' = pairings /\ clients' = clients /\ signIn' = signIn /\ pairTokens' = pairTokens
      /\ pairMu' = pairMu /\ revokeMu' = revokeMu /\ collected' = collected /\ lostTokens' = lostTokens /\ clock' = clock
  BY DEF SubmitCode, Admit, tableVars, ghostVars
<1>2. q \in CodeRequest BY Typed DEF CodeRequest
<1>3. q \in Request BY <1>2 DEF Request
<1>4. \A p : /\ HoldsIt(pairMu', q, i, p) <=> HoldsIt(pairMu, inHand[i], i, p)
             /\ SendsIt(q, p) <=> SendsIt(inHand[i], p)
  BY <1>1 DEF HoldsIt, SendsIt, Ready
<1>5. Knows(i)'
  <2>1. inHand'[i] = q BY <1>1, Typed
  <2> QED BY <2>1 DEF Knows
<1>6. \A p \in 1..MaxPairings : Approved(p)' <=> Approved(p) BY <1>1 DEF Approved
<1> HIDE DEF q
<1> QED BY <1>1, <1>3, <1>4, <1>5, <1>6, Typed, ReadsSignIn, PlainTurn

LEMMA ReadCodeStep ==
    ASSUME AccessInv, NEW i \in Slots, ReadCode(i)
    PROVE  AccessInv'
<1> DEFINE r == inHand[i]
           rows == {p \in DOMAIN pairings : pairings[p].mode = r.mode /\ pairings[p].code = r.code}
           live == {p \in rows : Expired[p].state = "pending"}
<1>1. /\ r.op = "code" /\ r.at = "read" /\ (r.mode = "show" => pairMu = Free) /\ pairings' = Expired
      /\ clients' = clients /\ signIn' = signIn /\ cachedSignIn' = cachedSignIn /\ pairTokens' = pairTokens
      /\ revokeMu' = revokeMu /\ collected' = collected /\ lostTokens' = lostTokens /\ clock' = clock
      /\ IF live = {} THEN WrongCode(i)
         ELSE /\ inHand' = [inHand EXCEPT ![i].at = "finish", ![i].row = CHOOSE p \in live : TRUE]
              /\ pairMu' = IF r.mode = "show" THEN i ELSE pairMu
  BY DEF ReadCode, budgets
<1>2. r \in CodeRequest BY <1>1, KindOf
<1>3. pairings' \in Seq(Pairing) /\ Len(pairings') = Len(pairings) /\ DOMAIN pairings' = DOMAIN pairings
  BY <1>1, ExpiredDoes
<1>4. \A p \in 1..MaxPairings : Approved(p)' <=> Approved(p) BY <1>1, ExpiredDoes DEF Approved
<1>5. CASE live = {}
  <2>1. inHand' = [inHand EXCEPT ![i] = Ready] /\ pairMu' = IF pairMu = i THEN Free ELSE pairMu
    BY <1>1, <1>5 DEF WrongCode
  <2>2. Ready \in Request BY DEF Request
  <2>3. \A p : /\ HoldsIt(pairMu', Ready, i, p) <=> HoldsIt(pairMu, r, i, p)
               /\ SendsIt(Ready, p) <=> SendsIt(r, p)
    BY <1>1 DEF HoldsIt, SendsIt, Ready
  <2>4. inHand'[i] = Ready BY <2>1, Typed
  <2>5. Knows(i)' BY <2>4 DEF Knows, Ready
  <2>6. pairMu' \in Slots \cup {Free} /\ \A j \in Slots \ {i} : pairMu' = j <=> pairMu = j BY <2>1, Typed DEF Free
  <2> QED BY <1>1, <1>3, <1>4, <2>1, <2>2, <2>3, <2>5, <2>6, Typed, PlainTurn
<1>6. CASE live # {}
  <2> DEFINE row == CHOOSE p \in live : TRUE
             q == [r EXCEPT !.at = "finish", !.row = row]
  <2>1. row \in DOMAIN pairings BY <1>6
  <2>2. inHand' = [inHand EXCEPT ![i].at = "finish", ![i].row = row] /\ pairMu' = IF r.mode = "show" THEN i ELSE pairMu
    BY <1>1, <1>6
  <2> HIDE DEF row, live, rows
  <2>3. inHand' = [inHand EXCEPT ![i] = q] BY <2>2, Typed
  <2>4. row \in Nat BY <2>1, Typed
  <2>5. /\ q \in CodeRequest /\ q.op = "code" /\ q.at = "finish" /\ q.row = row /\ q.mode = r.mode
    BY <1>2, <2>4 DEF CodeRequest
  <2>6. q \in Request BY <2>5 DEF Request
  <2> HIDE DEF q
  <2>7. \A p : /\ HoldsIt(pairMu', q, i, p) <=> HoldsIt(pairMu, r, i, p)
               /\ SendsIt(q, p) <=> SendsIt(r, p)
    BY <1>1, <2>5 DEF HoldsIt, SendsIt
  <2>8. inHand'[i] = q BY <2>3, Typed
  <2>9. Knows(i)' BY <1>3, <2>1, <2>2, <2>5, <2>8 DEF Knows
  <2>10. pairMu' \in Slots \cup {Free} BY <2>2, Typed
  <2>11. \A j \in Slots \ {i} : pairMu' = j <=> pairMu = j BY <1>1, <2>2 DEF Free
  <2> QED BY <1>1, <1>3, <1>4, <2>3, <2>6, <2>7, <2>9, <2>10, <2>11, Typed, PlainTurn
<1> QED BY <1>5, <1>6

\* A request's turn that leaves the tables and the tokens.
LEMMA StillTurn ==
    ASSUME AccessInv, NEW i \in Slots, NEW q \in Request, inHand' = [inHand EXCEPT ![i] = q],
           UNCHANGED <<pairings, clients, signIn, pairTokens, collected, lostTokens, clock>>,
           cachedSignIn' \in {"none", "on", "off"},
           pairMu' \in Slots \cup {Free}, revokeMu' \in Slots \cup {Free},
           \A j \in Slots \ {i} : (pairMu' = j <=> pairMu = j) /\ (revokeMu' = j <=> revokeMu = j),
           \A p : HoldsIt(pairMu', q, i, p) <=> HoldsIt(pairMu, inHand[i], i, p),
           \A p : SendsIt(q, p) <=> SendsIt(inHand[i], p),
           Knows(i)'
    PROVE  AccessInv'
<1>1. \A p \in 1..MaxPairings : Approved(p)' <=> Approved(p) BY DEF Approved
<1>2. pairings' \in Seq(Pairing) /\ Len(pairings') = Len(pairings) /\ signIn' \in {"on", "off"} BY Typed
<1> QED BY <1>1, <1>2, PlainTurn

\* The slot is free again.
LEMMA DoneIs ==
    ASSUME AccessInv, NEW i \in Slots, inHand' = [inHand EXCEPT ![i] = Ready]
    PROVE  /\ Ready \in Request /\ Knows(i)'
           /\ \A m, p : ~HoldsIt(m, Ready, i, p) /\ ~SendsIt(Ready, p)
<1>1. inHand'[i] = Ready BY Typed
<1> QED BY <1>1 DEF Request, Knows, HoldsIt, SendsIt, Ready

LEMMA SettleCodeTryStep ==
    ASSUME AccessInv, NEW i \in Slots, SettleCodeTry(i)
    PROVE  AccessInv'
<1>1. /\ inHand[i].op = "code" /\ inHand[i].at = "settle" /\ inHand' = [inHand EXCEPT ![i] = Ready]
      /\ UNCHANGED <<pairings, clients, signIn, pairTokens, collected, lostTokens, clock>>
      /\ cachedSignIn' = cachedSignIn /\ pairMu' = pairMu /\ revokeMu' = revokeMu
  BY DEF SettleCodeTry, tableVars, ghostVars, budgets
<1>2. \A p : ~HoldsIt(pairMu, inHand[i], i, p) /\ ~SendsIt(inHand[i], p) BY <1>1 DEF HoldsIt, SendsIt
<1> QED BY <1>1, <1>2, DoneIs, Typed, StillTurn

LEMMA PollPairingStep ==
    ASSUME AccessInv, NEW i \in Slots, NEW row \in DOMAIN pairings, PollPairing(i, row)
    PROVE  AccessInv'
<1> DEFINE q == [op |-> "poll", at |-> "take", row |-> row]
<1>1. /\ inHand[i] = Ready /\ pairings' = Expired
      /\ inHand' = IF Expired[row].state = "approved" THEN [inHand EXCEPT ![i] = q] ELSE inHand
      /\ UNCHANGED <<clients, signIn, pairTokens, collected, lostTokens, clock>>
      /\ cachedSignIn' = cachedSignIn /\ pairMu' = pairMu /\ revokeMu' = revokeMu
  BY DEF PollPairing, ghostVars, budgets
<1>2. pairings' \in Seq(Pairing) /\ Len(pairings') = Len(pairings) /\ DOMAIN pairings' = DOMAIN pairings
  BY <1>1, ExpiredDoes
<1>3. \A p \in 1..MaxPairings : Approved(p)' <=> Approved(p) BY <1>1, ExpiredDoes DEF Approved
<1>4. CASE Expired[row].state = "approved"
  <2>1. inHand' = [inHand EXCEPT ![i] = q] BY <1>1, <1>4
  <2>2. row \in Nat BY Typed
  <2>3. q \in Request BY <2>2 DEF Request, PollRequest
  <2>4. \A p : /\ HoldsIt(pairMu', q, i, p) <=> HoldsIt(pairMu, inHand[i], i, p)
               /\ SendsIt(q, p) <=> SendsIt(inHand[i], p)
    BY <1>1 DEF HoldsIt, SendsIt, Ready
  <2>5. inHand'[i] = q BY <2>1, Typed
  <2>6. Knows(i)' BY <1>2, <2>5 DEF Knows
  <2> HIDE DEF q
  <2> QED BY <1>1, <1>2, <1>3, <2>1, <2>3, <2>4, <2>6, Typed, PlainTurn
<1>5. CASE Expired[row].state # "approved"
  <2>1. inHand' = inHand BY <1>1, <1>5
  <2>2. TypeOK'
    <3> HIDE DEF Request, Pairing, Client
    <3> QED BY <1>1, <1>2, <2>1, Typed DEF TypeOK
  <2> QED BY <1>1, <1>2, <1>3, <2>1, <2>2, QuietStep
<1> QED BY <1>4, <1>5

\* The approved pairing's token gets its place, in the same transaction.
LEMMA ApproveStep ==
    ASSUME AccessInv, NEW i \in Slots, inHand[i].op = "code", inHand[i].at = "finish",
           pairings[inHand[i].row].state = "pending",
           pairings' = [pairings EXCEPT ![inHand[i].row].state = "approved"],
           clients' = Append(clients, [scope |-> pairings[inHand[i].row].scope, revoked |-> FALSE]),
           inHand' = [inHand EXCEPT ![i].at = IF inHand[i].mode = "show" THEN "hold" ELSE "settle"],
           collected' = [collected EXCEPT ![inHand[i].row] = @ + IF inHand[i].mode = "show" THEN 0 ELSE 1],
           UNCHANGED <<pairMu, signIn, cachedSignIn, pairTokens, revokeMu, lostTokens, clock>>
    PROVE  AccessInv'
<1> DEFINE r == inHand[i]
           row == inHand[i].row
           next == IF inHand[i].mode = "show" THEN "hold" ELSE "settle"
           q == [r EXCEPT !.at = next]
           more == IF inHand[i].mode = "show" THEN 0 ELSE 1
<1>1. r \in CodeRequest BY KindOf
<1>2. /\ q \in CodeRequest /\ q.op = "code" /\ q.at = next /\ q.row = row /\ q.mode = r.mode
  BY <1>1 DEF CodeRequest
<1>3. q \in Request BY <1>2 DEF Request
<1>4. inHand' = [inHand EXCEPT ![i] = q] BY Typed
<1>5. inHand'[i] = q BY <1>4, Typed
<1>6. Knows(i) BY DEF AccessInv
<1>7. row \in DOMAIN pairings /\ (r.mode = "show" => pairMu = i) BY <1>6 DEF Knows
<1>8. row \in 1..MaxPairings BY <1>7, Typed
<1>9. pairings[row] \in Pairing BY <1>7, Typed
<1>10. [pairings[row] EXCEPT !.state = "approved"] \in Pairing BY <1>9 DEF Pairing
<1>11. pairings' = [pairings EXCEPT ![row] = [pairings[row] EXCEPT !.state = "approved"]] OBVIOUS
<1>12. /\ pairings' \in Seq(Pairing) /\ Len(pairings') = Len(pairings) /\ DOMAIN pairings' = DOMAIN pairings
  <2> HIDE DEF Pairing
  <2> QED BY <1>7, <1>10, <1>11, Typed
<1>13. /\ \A p \in DOMAIN pairings \ {row} : pairings'[p] = pairings[p]
       /\ pairings'[row].state = "approved"
  BY <1>7, <1>9, <1>11, Typed DEF Pairing
<1>14. pairings[row].scope \in Scopes BY <1>9 DEF Pairing
<1>15. Adds BY <1>14 DEF Adds
<1>16. clients' \in Seq(Client)
  <2>1. [scope |-> pairings[row].scope, revoked |-> FALSE] \in Client BY <1>14 DEF Client
  <2> HIDE DEF Client
  <2> QED BY <2>1, Typed
<1>17. collected' = [collected EXCEPT ![row] = collected[row] + more] /\ more \in Nat OBVIOUS
<1>18. /\ collected' \in [1..MaxPairings -> Nat] /\ collected'[row] = collected[row] + more
       /\ \A p \in 1..MaxPairings \ {row} : collected'[p] = collected[p]
  <2> HIDE DEF more
  <2> QED BY <1>8, <1>17, Typed
<1>19. TypeOK'
  <2>1. inHand' \in [Slots -> Request] BY <1>3, <1>4, Typed
  <2> HIDE DEF Request, Pairing, Client
  <2> QED BY <1>12, <1>16, <1>18, <2>1, Typed DEF TypeOK
<1>20. Knows(i)'
  <2>1. q.mode = "show" => pairMu' = i BY <1>2, <1>7
  <2>2. q.row \in DOMAIN pairings' BY <1>2, <1>7, <1>12
  <2>3. q.at = "hold" => q.mode = "show" BY <1>2
  <2> HIDE DEF q
  <2> QED BY <1>2, <1>5, <2>1, <2>2, <2>3 DEF Knows
<1>21. ASSUME NEW p \in 1..MaxPairings
       PROVE  Share(pairMu', q, i, pairTokens', collected', lostTokens', p) + One(Approved(p))
                = Share(pairMu, r, i, pairTokens, collected, lostTokens, p) + One(Approved(p)')
  <2>1. ~HoldsIt(pairMu, r, i, p) /\ ~SendsIt(r, p) /\ ~SendsIt(q, p) BY <1>2 DEF HoldsIt, SendsIt
  <2>2. collected[p] \in Nat BY Typed
  <2>3. CASE p = row
    <3>1. ~Approved(p) /\ Approved(p)' BY <1>12, <1>7, <1>13, <2>3 DEF Approved
    <3>2. HoldsIt(pairMu', q, i, p) <=> r.mode = "show" BY <1>2, <1>7, <2>3 DEF HoldsIt
    <3>3. One(HoldsIt(pairMu', q, i, p)) + collected'[p] = collected[p] + 1 BY <1>18, <2>2, <2>3, <3>2 DEF One
    <3>4. /\ One(HoldsIt(pairMu, r, i, p)) = 0 /\ One(SendsIt(r, p)) = 0 /\ One(SendsIt(q, p)) = 0
          /\ One(Approved(p)) = 0 /\ One(Approved(p)') = 1
      BY <2>1, <3>1 DEF One
    <3>5. One(HoldsIt(pairMu', q, i, p)) \in Nat /\ collected'[p] \in Nat BY <1>18 DEF One
    <3>6. One(p \in pairTokens) \in Nat /\ One(p \in lostTokens) \in Nat BY DEF One
    <3> DEFINE h == One(HoldsIt(pairMu', q, i, p))
               t == One(p \in pairTokens)
               l == One(p \in lostTokens)
               oc == collected[p]
               nc == collected'[p]
    <3>7. pairTokens' = pairTokens /\ lostTokens' = lostTokens OBVIOUS
    <3>8. Share(pairMu', q, i, pairTokens', collected', lostTokens', p) = t + h + 0 + nc + l BY <3>4, <3>7 DEF Share
    <3>9. Share(pairMu, r, i, pairTokens, collected, lostTokens, p) = t + 0 + 0 + oc + l BY <3>4 DEF Share
    <3>10. h \in Nat /\ t \in Nat /\ l \in Nat /\ oc \in Nat /\ nc \in Nat /\ h + nc = oc + 1
      BY <2>2, <3>3, <3>5, <3>6
    <3> HIDE DEF h, t, l, oc, nc
    <3>11. (t + h + 0 + nc + l) + 0 = (t + 0 + 0 + oc + l) + 1 BY ONLY <3>10
    <3> QED BY <3>4, <3>8, <3>9, <3>11
  <2>4. CASE p # row
    <3>1. Approved(p)' <=> Approved(p) BY <1>12, <1>13, <2>4 DEF Approved
    <3>2. ~HoldsIt(pairMu', q, i, p) BY <1>2, <2>4 DEF HoldsIt
    <3>3. /\ One(HoldsIt(pairMu', q, i, p)) = One(HoldsIt(pairMu, r, i, p))
          /\ One(SendsIt(q, p)) = One(SendsIt(r, p)) /\ One(Approved(p)') = One(Approved(p))
      BY <2>1, <3>1, <3>2 DEF One
    <3>4. collected'[p] = collected[p] BY <1>18, <2>4
    <3> HIDE DEF q, r, row
    <3> QED BY <3>3, <3>4 DEF Share
  <2> QED BY <2>3, <2>4
<1>22. (\A j \in Slots \ {i} : (pairMu' = j <=> pairMu = j) /\ (revokeMu' = j <=> revokeMu = j))
  OBVIOUS
<1> HIDE DEF q
<1> QED BY <1>4, <1>12, <1>15, <1>19, <1>20, <1>21, <1>22, RequestStep

LEMMA FinishCodeStep ==
    ASSUME AccessInv, NEW i \in Slots, FinishCode(i)
    PROVE  AccessInv'
<1> DEFINE r == inHand[i]
<1>1. /\ r.op = "code" /\ r.at = "finish"
      /\ UNCHANGED <<signIn, cachedSignIn, pairTokens, revokeMu, lostTokens, clock>>
  BY DEF FinishCode, budgets
<1>2. ASSUME UNCHANGED <<pairings, clients, collected>>, NEW q \in Request, inHand' = [inHand EXCEPT ![i] = q],
             pairMu' = (IF pairMu = i THEN Free ELSE pairMu), q.op # "poll",
             q.op = "code" => q.at = "settle", q.op # "revoke"
      PROVE  AccessInv'
  <2>1. \A p : /\ HoldsIt(pairMu', q, i, p) <=> HoldsIt(pairMu, r, i, p)
               /\ SendsIt(q, p) <=> SendsIt(r, p)
    BY <1>1, <1>2 DEF HoldsIt, SendsIt
  <2>2. inHand'[i] = q BY <1>2, Typed
  <2>3. Knows(i)' BY <1>2, <2>2 DEF Knows
  <2>4. pairMu' \in Slots \cup {Free} /\ \A j \in Slots \ {i} : pairMu' = j <=> pairMu = j BY <1>2, Typed DEF Free
  <2> QED BY <1>1, <1>2, <2>1, <2>3, <2>4, Typed, StillTurn
<1>3. CASE WrongCode(i) /\ UNCHANGED <<pairings, clients, collected>>
  <2>1. inHand' = [inHand EXCEPT ![i] = Ready] /\ pairMu' = IF pairMu = i THEN Free ELSE pairMu
    BY <1>3 DEF WrongCode
  <2>2. Ready \in Request /\ Ready.op = "none" BY DEF Request, Ready
  <2> QED BY <1>2, <1>3, <2>1, <2>2
<1>4. CASE /\ inHand' = [inHand EXCEPT ![i].at = "settle"]
           /\ pairMu' = (IF pairMu = i THEN Free ELSE pairMu)
           /\ UNCHANGED <<pairings, clients, collected, wrong>>
  <2> DEFINE q == [r EXCEPT !.at = "settle"]
  <2>1. r \in CodeRequest BY <1>1, KindOf
  <2>2. q \in CodeRequest /\ q.op = "code" /\ q.at = "settle" BY <2>1 DEF CodeRequest
  <2>3. q \in Request /\ inHand' = [inHand EXCEPT ![i] = q] BY <1>4, <2>2, Typed DEF Request
  <2> HIDE DEF q
  <2> QED BY <1>2, <1>4, <2>2, <2>3
<1>5. CASE /\ pairings[r.row].state = "pending" /\ Len(clients) < MaxDevices
           /\ pairings' = [pairings EXCEPT ![r.row].state = "approved"]
           /\ clients' = Append(clients, [scope |-> pairings[r.row].scope, revoked |-> FALSE])
           /\ inHand' = [inHand EXCEPT ![i].at = IF r.mode = "show" THEN "hold" ELSE "settle"]
           /\ collected' = [collected EXCEPT ![r.row] = @ + IF r.mode = "show" THEN 0 ELSE 1]
           /\ UNCHANGED <<pairMu, wrong>>
  BY <1>1, <1>5, ApproveStep
<1> QED BY <1>3, <1>4, <1>5 DEF FinishCode

\* A turn in which only tokens move.
LEMMA TokenTurn ==
    ASSUME AccessInv, NEW i \in Slots, NEW q \in Request, inHand' = [inHand EXCEPT ![i] = q],
           UNCHANGED <<pairings, clients, signIn, cachedSignIn, lostTokens, clock>>,
           pairTokens' \subseteq 1..MaxPairings, collected' \in [1..MaxPairings -> Nat],
           pairMu' \in Slots \cup {Free}, revokeMu' \in Slots \cup {Free},
           \A j \in Slots \ {i} : (pairMu' = j <=> pairMu = j) /\ (revokeMu' = j <=> revokeMu = j),
           Knows(i)',
           \A p \in 1..MaxPairings :
              One(p \in pairTokens') + One(HoldsIt(pairMu', q, i, p)) + One(SendsIt(q, p)) + collected'[p]
                = One(p \in pairTokens) + One(HoldsIt(pairMu, inHand[i], i, p)) + One(SendsIt(inHand[i], p)) + collected[p]
    PROVE  AccessInv'
<1>1. TypeOK'
  <2>1. inHand' \in [Slots -> Request] BY Typed
  <2> HIDE DEF Request, Pairing, Client
  <2> QED BY <2>1, Typed DEF TypeOK
<1>2. ASSUME NEW p \in 1..MaxPairings
      PROVE  Share(pairMu', q, i, pairTokens', collected', lostTokens', p) + One(Approved(p))
               = Share(pairMu, inHand[i], i, pairTokens, collected, lostTokens, p) + One(Approved(p)')
  <2>1. Approved(p)' <=> Approved(p) BY DEF Approved
  <2>2. One(Approved(p)') = One(Approved(p)) BY <2>1 DEF One
  <2>3. lostTokens' = lostTokens OBVIOUS
  <2> QED BY <2>2, <2>3 DEF Share
<1> QED BY <1>1, <1>2, RequestStep

LEMMA HoldTokenStep ==
    ASSUME AccessInv, NEW i \in Slots, HoldToken(i)
    PROVE  AccessInv'
<1> DEFINE r == inHand[i]
           row == inHand[i].row
           q == [r EXCEPT !.at = "settle"]
<1>1. /\ r.op = "code" /\ r.at = "hold" /\ pairTokens' = pairTokens \cup {row}
      /\ pairMu' = (IF pairMu = i THEN Free ELSE pairMu) /\ inHand' = [inHand EXCEPT ![i].at = "settle"]
      /\ UNCHANGED <<pairings, clients, signIn, cachedSignIn, lostTokens, clock>>
      /\ revokeMu' = revokeMu /\ collected' = collected
  BY DEF HoldToken, tableVars, ghostVars, budgets
<1>2. r \in CodeRequest BY <1>1, KindOf
<1>3. q \in CodeRequest /\ q.op = "code" /\ q.at = "settle" BY <1>2 DEF CodeRequest
<1>4. q \in Request /\ inHand' = [inHand EXCEPT ![i] = q] BY <1>1, <1>3, Typed DEF Request
<1>5. inHand'[i] = q BY <1>4, Typed
<1>6. Knows(i) BY DEF AccessInv
<1>7. row \in DOMAIN pairings /\ pairMu = i BY <1>1, <1>6 DEF Knows
<1>8. row \in 1..MaxPairings BY <1>7, Typed
<1>9. pairTokens' \subseteq 1..MaxPairings BY <1>1, <1>8, Typed
<1> HIDE DEF q
<1>10. Knows(i)' BY <1>3, <1>5 DEF Knows
<1>11. ASSUME NEW p \in 1..MaxPairings
       PROVE  One(p \in pairTokens') + One(HoldsIt(pairMu', q, i, p)) + One(SendsIt(q, p)) + collected'[p]
                = One(p \in pairTokens) + One(HoldsIt(pairMu, r, i, p)) + One(SendsIt(r, p)) + collected[p]
  <2>1. ~HoldsIt(pairMu', q, i, p) /\ ~SendsIt(q, p) /\ ~SendsIt(r, p) BY <1>1, <1>3 DEF HoldsIt, SendsIt
  <2>2. HoldsIt(pairMu, r, i, p) <=> p = row BY <1>1, <1>7 DEF HoldsIt
  <2>3. p = row => p \notin pairTokens
    <3>1. ASSUME p = row, p \in pairTokens PROVE FALSE
      <4>1. /\ Cardinality(BeingHeld(p)) \in Nat /\ Cardinality(Sending(p)) \in Nat /\ collected[p] \in Nat
            /\ Places(p) = One(Approved(p)) /\ Cardinality(BeingHeld(p)) > 0
        BY <2>2, <3>1, HeldOnce
      <4>2. Places(p) = Cardinality(BeingHeld(p)) + 1 + Cardinality(Sending(p)) + collected[p] + One(p \in lostTokens)
        BY <3>1 DEF Places, One
      <4>3. One(p \in lostTokens) \in Nat /\ One(Approved(p)) <= 1 BY DEF One
      <4> QED BY <4>1, <4>2, <4>3
    <3> QED BY <3>1
  <2>4. p \in pairTokens' <=> p \in pairTokens \/ p = row BY <1>1
  <2>5. One(p \in pairTokens') + 0 = One(p \in pairTokens) + One(HoldsIt(pairMu, r, i, p))
    BY <2>2, <2>3, <2>4 DEF One
  <2>6. One(HoldsIt(pairMu', q, i, p)) = 0 /\ One(SendsIt(q, p)) = 0 /\ One(SendsIt(r, p)) = 0 BY <2>1 DEF One
  <2>7. collected'[p] = collected[p] /\ collected[p] \in Nat BY <1>1, Typed
  <2>8. One(p \in pairTokens') \in Nat /\ One(p \in pairTokens) \in Nat /\ One(HoldsIt(pairMu, r, i, p)) \in Nat
    BY DEF One
  <2> QED BY <2>5, <2>6, <2>7, <2>8
<1>12. pairMu' \in Slots \cup {Free} /\ \A j \in Slots \ {i} : pairMu' = j <=> pairMu = j BY <1>1, Typed DEF Free
<1>13. collected' \in [1..MaxPairings -> Nat] /\ revokeMu' \in Slots \cup {Free}
       /\ \A j \in Slots \ {i} : revokeMu' = j <=> revokeMu = j
  BY <1>1, Typed
<1> QED BY <1>1, <1>4, <1>9, <1>10, <1>11, <1>12, <1>13, TokenTurn

\* A poll's turn keeps pairMu with whom it is.
LEMMA PollTurn ==
    ASSUME AccessInv, NEW i \in Slots, inHand[i].op = "poll",
           NEW q \in Request, q = Ready \/ (q.op = "poll" /\ q.row = inHand[i].row),
           inHand' = [inHand EXCEPT ![i] = q],
           UNCHANGED <<pairings, clients, signIn, cachedSignIn, lostTokens, clock, pairMu, revokeMu>>,
           pairTokens' \subseteq 1..MaxPairings, collected' \in [1..MaxPairings -> Nat],
           \A p \in 1..MaxPairings :
              One(p \in pairTokens') + One(SendsIt(q, p)) + collected'[p]
                = One(p \in pairTokens) + One(SendsIt(inHand[i], p)) + collected[p]
    PROVE  AccessInv'
<1>1. inHand'[i] = q BY Typed
<1>2. Knows(i)'
  <2>1. Knows(i) BY DEF AccessInv
  <2> QED BY <1>1, <2>1 DEF Knows, Ready
<1>3. ASSUME NEW p \in 1..MaxPairings
      PROVE  One(p \in pairTokens') + One(HoldsIt(pairMu', q, i, p)) + One(SendsIt(q, p)) + collected'[p]
               = One(p \in pairTokens) + One(HoldsIt(pairMu, inHand[i], i, p)) + One(SendsIt(inHand[i], p)) + collected[p]
  <2>1. One(HoldsIt(pairMu', q, i, p)) = 0 /\ One(HoldsIt(pairMu, inHand[i], i, p)) = 0 BY DEF HoldsIt, One, Ready
  <2>2. One(p \in pairTokens') \in Nat /\ One(p \in pairTokens) \in Nat BY DEF One
  <2> QED BY <2>1, <2>2
<1> QED BY <1>2, <1>3, Typed, TokenTurn

LEMMA TakeTokenStep ==
    ASSUME AccessInv, NEW i \in Slots, TakeToken(i)
    PROVE  AccessInv'
<1> DEFINE r == inHand[i]
           row == inHand[i].row
           q == IF row \in pairTokens THEN [r EXCEPT !.at = "write"] ELSE Ready
<1>1. /\ r.op = "poll" /\ r.at = "take" /\ pairTokens' = pairTokens \ {row}
      /\ UNCHANGED <<pairings, clients, signIn, cachedSignIn, lostTokens, clock, pairMu, revokeMu>>
      /\ collected' = collected
  BY DEF TakeToken, TakePairToken, tableVars, ghostVars, budgets
<1>2. inHand' = [inHand EXCEPT ![i] = q] BY Typed DEF TakeToken
<1>3. r \in PollRequest BY <1>1, KindOf
<1>4. \/ row \notin pairTokens /\ q = Ready
      \/ row \in pairTokens /\ q \in PollRequest /\ q.op = "poll" /\ q.at = "write" /\ q.row = row
  BY <1>3 DEF PollRequest
<1>5. q \in Request /\ (q = Ready \/ (q.op = "poll" /\ q.row = row)) BY <1>4 DEF Request
<1>6. ASSUME NEW p \in 1..MaxPairings
      PROVE  One(p \in pairTokens') + One(SendsIt(q, p)) + collected'[p]
               = One(p \in pairTokens) + One(SendsIt(r, p)) + collected[p]
  <2>1. ~SendsIt(r, p) BY <1>1 DEF SendsIt
  <2>2. SendsIt(q, p) <=> p = row /\ p \in pairTokens BY <1>4 DEF SendsIt, Ready
  <2>3. p \in pairTokens' <=> p \in pairTokens /\ p # row BY <1>1
  <2> HIDE DEF q, r, row
  <2>4. One(p \in pairTokens') + One(SendsIt(q, p)) = One(p \in pairTokens) + One(SendsIt(r, p))
    BY <2>1, <2>2, <2>3 DEF One
  <2>5. collected'[p] = collected[p] BY <1>1
  <2> QED BY <2>4, <2>5
<1>7. pairTokens' \subseteq 1..MaxPairings /\ collected' \in [1..MaxPairings -> Nat] BY <1>1, Typed
<1> HIDE DEF q
<1> QED BY <1>1, <1>2, <1>5, <1>6, <1>7, PollTurn

LEMMA WriteTokenStep ==
    ASSUME AccessInv, NEW i \in Slots, WriteToken(i)
    PROVE  AccessInv'
<1> DEFINE r == inHand[i]
           row == inHand[i].row
<1>1. /\ r.op = "poll" /\ r.at = "write"
      /\ UNCHANGED <<pairings, clients, signIn, cachedSignIn, lostTokens, clock, pairMu, revokeMu>>
      /\ pairTokens' = pairTokens
  BY DEF WriteToken, tableVars, budgets
<1>2. r \in PollRequest BY <1>1, KindOf
<1>3. pairTokens' \subseteq 1..MaxPairings BY <1>1, Typed
<1>4. CASE collected' = [collected EXCEPT ![row] = @ + 1] /\ inHand' = [inHand EXCEPT ![i] = Ready]
  <2>0. Knows(i) BY DEF AccessInv
  <2>5. row \in 1..MaxPairings BY <1>1, <2>0, Typed DEF Knows
  <2>1. \A p \in 1..MaxPairings :
           /\ collected[p] \in Nat
           /\ collected'[p] = IF p = row THEN collected[p] + 1 ELSE collected[p]
    BY <1>4, Typed
  <2>2. collected' \in [1..MaxPairings -> Nat] BY <1>4, <2>5, Typed
  <2>3. Ready \in Request BY DEF Request
  <2>4. ASSUME NEW p \in 1..MaxPairings
        PROVE  One(p \in pairTokens') + One(SendsIt(Ready, p)) + collected'[p]
                 = One(p \in pairTokens) + One(SendsIt(r, p)) + collected[p]
    <3>1. ~SendsIt(Ready, p) /\ (SendsIt(r, p) <=> p = row) BY <1>1 DEF SendsIt, Ready
    <3>2. One(SendsIt(Ready, p)) = 0 /\ One(SendsIt(r, p)) = (IF p = row THEN 1 ELSE 0) BY <3>1 DEF One
    <3>3. One(p \in pairTokens') = One(p \in pairTokens) /\ One(p \in pairTokens) \in Nat BY <1>1 DEF One
    <3> QED BY <2>1, <3>2, <3>3
  <2> QED BY <1>1, <1>3, <1>4, <2>2, <2>3, <2>4, PollTurn
<1>5. CASE inHand' = [inHand EXCEPT ![i].at = "restore"] /\ UNCHANGED collected
  <2> DEFINE q == [r EXCEPT !.at = "restore"]
  <2>1. q \in PollRequest /\ q.op = "poll" /\ q.at = "restore" /\ q.row = row BY <1>2 DEF PollRequest
  <2>2. q \in Request /\ inHand' = [inHand EXCEPT ![i] = q] BY <1>5, <2>1, Typed DEF Request
  <2> HIDE DEF q
  <2>3. ASSUME NEW p \in 1..MaxPairings
        PROVE  One(p \in pairTokens') + One(SendsIt(q, p)) + collected'[p]
                 = One(p \in pairTokens) + One(SendsIt(r, p)) + collected[p]
    <3>1. SendsIt(q, p) <=> SendsIt(r, p) BY <1>1, <2>1 DEF SendsIt
    <3>2. One(SendsIt(q, p)) = One(SendsIt(r, p)) BY <3>1 DEF One
    <3> QED BY <1>1, <1>5, <3>2
  <2>4. collected' \in [1..MaxPairings -> Nat] BY <1>5, Typed
  <2> QED BY <1>1, <1>3, <2>1, <2>2, <2>3, <2>4, PollTurn
<1> QED BY <1>4, <1>5 DEF WriteToken

LEMMA RestorePairTokenStep ==
    ASSUME AccessInv, NEW i \in Slots, RestorePairToken(i)
    PROVE  AccessInv'
<1> DEFINE r == inHand[i]
           row == inHand[i].row
<1>1. /\ r.op = "poll" /\ r.at = "restore" /\ pairTokens' = pairTokens \cup {row}
      /\ inHand' = [inHand EXCEPT ![i] = Ready]
      /\ UNCHANGED <<pairings, clients, signIn, cachedSignIn, lostTokens, clock, pairMu, revokeMu>>
      /\ collected' = collected
  BY DEF RestorePairToken, tableVars, ghostVars, budgets
<1>2. r \in PollRequest BY <1>1, KindOf
<1>3. Ready \in Request BY DEF Request
<1>4. Knows(i) BY DEF AccessInv
<1>5. row \in 1..MaxPairings BY <1>1, <1>4, Typed DEF Knows
<1>6. pairTokens' \subseteq 1..MaxPairings /\ collected' \in [1..MaxPairings -> Nat] BY <1>1, <1>5, Typed
<1>7. ASSUME NEW p \in 1..MaxPairings
      PROVE  One(p \in pairTokens') + One(SendsIt(Ready, p)) + collected'[p]
               = One(p \in pairTokens) + One(SendsIt(r, p)) + collected[p]
  <2>1. ~SendsIt(Ready, p) /\ (SendsIt(r, p) <=> p = row) BY <1>1 DEF SendsIt, Ready
  <2>2. p = row => p \notin pairTokens
    <3>1. ASSUME p = row, p \in pairTokens PROVE FALSE
      <4>1. /\ Cardinality(BeingHeld(p)) \in Nat /\ Cardinality(Sending(p)) \in Nat /\ collected[p] \in Nat
            /\ Places(p) = One(Approved(p)) /\ Cardinality(Sending(p)) > 0
        BY <2>1, <3>1, HeldOnce
      <4>2. Places(p) = Cardinality(BeingHeld(p)) + 1 + Cardinality(Sending(p)) + collected[p] + One(p \in lostTokens)
        BY <3>1 DEF Places, One
      <4>3. One(p \in lostTokens) \in Nat /\ One(Approved(p)) <= 1 BY DEF One
      <4> QED BY <4>1, <4>2, <4>3
    <3> QED BY <3>1
  <2>3. p \in pairTokens' <=> p \in pairTokens \/ p = row BY <1>1
  <2>4. One(p \in pairTokens') + One(SendsIt(Ready, p)) = One(p \in pairTokens) + One(SendsIt(r, p))
    BY <2>1, <2>2, <2>3 DEF One
  <2>5. collected'[p] = collected[p] BY <1>1
  <2> QED BY <2>4, <2>5
<1> QED BY <1>1, <1>3, <1>6, <1>7, PollTurn

LEMMA RevokeClientStep ==
    ASSUME AccessInv, NEW i \in Slots, NEW c, NEW d, NEW target \in DOMAIN clients, RevokeClient(i, c, d, target)
    PROVE  AccessInv'
<1> DEFINE q == [op |-> "revoke", at |-> "write", row |-> target, sawOn |-> DeviceAuthOn]
<1>1. /\ inHand[i] = Ready /\ revokeMu = Free /\ revokeMu' = i /\ inHand' = [inHand EXCEPT ![i] = q]
      /\ ~LastAdmin(target) /\ cachedSignIn' = SignInRead
      /\ UNCHANGED <<pairings, clients, signIn, pairTokens, collected, lostTokens, clock>> /\ pairMu' = pairMu
  BY DEF RevokeClient, RevokeTurn, Admit, tableVars, ghostVars, budgets
<1>2. target \in Nat BY Typed
<1>3. DeviceAuthOn \in BOOLEAN BY DEF DeviceAuthOn
<1>4. q \in RevokeRequest BY <1>2, <1>3 DEF RevokeRequest
<1>5. q \in Request BY <1>4 DEF Request
<1>6. inHand'[i] = q BY <1>1, Typed
<1>7. Knows(i)'
  <2>1. DeviceAuthOn => Admins # {target} BY <1>1 DEF LastAdmin
  <2>2. Admins' = Admins BY <1>1 DEF Admins
  <2> HIDE DEF DeviceAuthOn
  <2> QED BY <1>1, <1>6, <2>1, <2>2 DEF Knows
<1>8. \A p : /\ HoldsIt(pairMu', q, i, p) <=> HoldsIt(pairMu, inHand[i], i, p)
             /\ SendsIt(q, p) <=> SendsIt(inHand[i], p)
  BY <1>1 DEF HoldsIt, SendsIt, Ready
<1> HIDE DEF q
<1>9. \A j \in Slots \ {i} : (pairMu' = j <=> pairMu = j) /\ (revokeMu' = j <=> revokeMu = j) BY <1>1 DEF Free
<1>10. /\ pairMu' \in Slots \cup {Free} /\ revokeMu' \in Slots \cup {Free} /\ cachedSignIn' \in {"none", "on", "off"}
  BY <1>1, Typed, ReadsSignIn
<1> QED BY <1>1, <1>5, <1>7, <1>8, <1>9, <1>10, StillTurn

LEMMA RevokeStep ==
    ASSUME AccessInv, NEW i \in Slots, Revoke(i)
    PROVE  AccessInv'
<1> DEFINE r == inHand[i]
           row == inHand[i].row
<1>1. /\ r.op = "revoke" /\ clients' = [clients EXCEPT ![row].revoked = TRUE] /\ revokeMu' = Free
      /\ inHand' = [inHand EXCEPT ![i] = Ready]
      /\ UNCHANGED <<pairings, signIn, cachedSignIn, pairTokens, pairMu, collected, lostTokens, clock>>
  BY DEF Revoke, ghostVars, budgets
<1>2. Knows(i) BY DEF AccessInv
<1>3. revokeMu = i /\ row \in DOMAIN clients BY <1>1, <1>2 DEF Knows
<1>4. clients' \in Seq(Client)
  <2>1. clients[row] \in Client BY <1>3, Typed
  <2>2. [clients[row] EXCEPT !.revoked = TRUE] \in Client BY <2>1 DEF Client
  <2>3. clients' = [clients EXCEPT ![row] = [clients[row] EXCEPT !.revoked = TRUE]] BY <1>1
  <2> HIDE DEF Client
  <2> QED BY <1>3, <2>2, <2>3, Typed
<1>5. Ready \in Request /\ Knows(i)' /\ \A m, p : ~HoldsIt(m, Ready, i, p) /\ ~SendsIt(Ready, p) BY <1>1, DoneIs
<1>6. TypeOK'
  <2>1. inHand' \in [Slots -> Request] BY <1>1, <1>5, Typed
  <2> HIDE DEF Request, Pairing, Client
  <2> QED BY <1>1, <1>4, <2>1, Typed DEF TypeOK
<1>7. \A j \in Slots \ {i} : (pairMu' = j <=> pairMu = j) /\ (revokeMu' = j <=> revokeMu = j) BY <1>1, <1>3 DEF Free
<1>8. ASSUME NEW p \in 1..MaxPairings
      PROVE  Share(pairMu', Ready, i, pairTokens', collected', lostTokens', p) + One(Approved(p))
               = Share(pairMu, r, i, pairTokens, collected, lostTokens, p) + One(Approved(p)')
  <2>1. ~HoldsIt(pairMu, r, i, p) /\ ~SendsIt(r, p) BY <1>1 DEF HoldsIt, SendsIt
  <2>2. /\ One(HoldsIt(pairMu', Ready, i, p)) = One(HoldsIt(pairMu, r, i, p))
        /\ One(SendsIt(Ready, p)) = One(SendsIt(r, p))
    BY <1>5, <2>1 DEF One
  <2>3. Approved(p)' <=> Approved(p) BY <1>1 DEF Approved
  <2>4. One(Approved(p)') = One(Approved(p)) BY <2>3 DEF One
  <2> HIDE DEF r
  <2> QED BY <1>1, <2>2, <2>4 DEF Share
<1> HIDE DEF r, row
<1> QED BY <1>1, <1>3, <1>5, <1>6, <1>7, <1>8, RequestStep DEF r

LEMMA PutSettingsStep ==
    ASSUME AccessInv, NEW i \in Slots, NEW c, NEW d, NEW on \in {"on", "off"}, PutSettings(i, c, d, on)
    PROVE  AccessInv'
<1> DEFINE mint == on = "on" /\ ~DeviceAuthOn /\ ~(Known(d) /\ clients[d].scope = "admin")
           q == [op |-> "put", at |-> "write", on |-> on, mint |-> mint]
<1>1. /\ inHand[i] = Ready /\ inHand' = [inHand EXCEPT ![i] = q] /\ cachedSignIn' = SignInRead
      /\ UNCHANGED <<pairings, clients, signIn, pairTokens, collected, lostTokens, clock>>
      /\ pairMu' = pairMu /\ revokeMu' = revokeMu
  BY DEF PutSettings, Admit, tableVars, ghostVars
<1>2. mint \in BOOLEAN OBVIOUS
<1> HIDE DEF mint
<1>3. q \in Request BY <1>2 DEF Request, PutRequest
<1>4. inHand'[i] = q BY <1>1, Typed
<1>5. Knows(i)' BY <1>4 DEF Knows
<1>6. \A p : /\ HoldsIt(pairMu', q, i, p) <=> HoldsIt(pairMu, inHand[i], i, p)
             /\ SendsIt(q, p) <=> SendsIt(inHand[i], p)
  BY <1>1 DEF HoldsIt, SendsIt, Ready
<1> HIDE DEF q
<1> QED BY <1>1, <1>3, <1>5, <1>6, Typed, ReadsSignIn, StillTurn

LEMMA WriteSettingsStep ==
    ASSUME AccessInv, NEW i \in Slots, WriteSettings(i)
    PROVE  AccessInv'
<1> DEFINE r == inHand[i]
           q == [r EXCEPT !.at = "forget"]
<1>1. /\ r.op = "put" /\ signIn' = r.on /\ inHand' = [inHand EXCEPT ![i].at = "forget"]
      /\ clients' = IF r.mint THEN Append(clients, [scope |-> "admin", revoked |-> FALSE]) ELSE clients
      /\ UNCHANGED <<pairings, cachedSignIn, pairTokens, pairMu, revokeMu, collected, lostTokens, clock>>
  BY DEF WriteSettings, ghostVars, budgets
<1>2. r \in PutRequest BY <1>1, KindOf
<1>3. q \in PutRequest /\ q.op = "put" BY <1>2 DEF PutRequest
<1>4. q \in Request /\ inHand' = [inHand EXCEPT ![i] = q] BY <1>1, <1>3, Typed DEF Request
<1>5. inHand'[i] = q BY <1>4, Typed
<1>6. Knows(i)' BY <1>3, <1>5 DEF Knows
<1>7. clients' = clients \/ Adds BY <1>1 DEF Adds, Scopes
<1>8. clients' \in Seq(Client)
  <2>1. [scope |-> "admin", revoked |-> FALSE] \in Client BY DEF Client, Scopes
  <2> HIDE DEF Client
  <2> QED BY <1>1, <2>1, Typed
<1>9. signIn' \in {"on", "off"} BY <1>1, <1>2 DEF PutRequest
<1>10. TypeOK'
  <2>1. inHand' \in [Slots -> Request] BY <1>4, Typed
  <2> HIDE DEF Request, Pairing, Client
  <2> QED BY <1>1, <1>8, <1>9, <2>1, Typed DEF TypeOK
<1>11. ASSUME NEW p \in 1..MaxPairings
       PROVE  Share(pairMu', q, i, pairTokens', collected', lostTokens', p) + One(Approved(p))
                = Share(pairMu, r, i, pairTokens, collected, lostTokens, p) + One(Approved(p)')
  <2>1. /\ HoldsIt(pairMu', q, i, p) <=> HoldsIt(pairMu, r, i, p)
        /\ SendsIt(q, p) <=> SendsIt(r, p)
    BY <1>1, <1>3 DEF HoldsIt, SendsIt
  <2>2. Approved(p)' <=> Approved(p) BY <1>1 DEF Approved
  <2>3. /\ One(HoldsIt(pairMu', q, i, p)) = One(HoldsIt(pairMu, r, i, p)) /\ One(SendsIt(q, p)) = One(SendsIt(r, p))
        /\ One(Approved(p)') = One(Approved(p))
    BY <2>1, <2>2 DEF One
  <2> HIDE DEF r, q
  <2> QED BY <1>1, <2>3 DEF Share
<1>12. \A j \in Slots \ {i} : (pairMu' = j <=> pairMu = j) /\ (revokeMu' = j <=> revokeMu = j) BY <1>1
<1>13. DOMAIN pairings \subseteq DOMAIN pairings' BY <1>1
<1> HIDE DEF q
<1> QED BY <1>4, <1>6, <1>7, <1>10, <1>11, <1>12, <1>13, RequestStep

LEMMA ForgetSettingsStep ==
    ASSUME AccessInv, NEW i \in Slots, ForgetSettings(i)
    PROVE  AccessInv'
<1>1. /\ inHand[i].op = "put" /\ cachedSignIn' = "none" /\ inHand' = [inHand EXCEPT ![i] = Ready]
      /\ UNCHANGED <<pairings, clients, signIn, pairTokens, collected, lostTokens, clock>>
      /\ pairMu' = pairMu /\ revokeMu' = revokeMu
  BY DEF ForgetSettings, tableVars, ghostVars, budgets
<1>2. \A p : ~HoldsIt(pairMu, inHand[i], i, p) /\ ~SendsIt(inHand[i], p) BY <1>1 DEF HoldsIt, SendsIt
<1> QED BY <1>1, <1>2, DoneIs, Typed, StillTurn

-----------------------------------------------------------------------------
(* Pairings begin and end; time and restarts.                               *)

\* Only pairings change, and none is approved.
LEMMA PairingsStep ==
    ASSUME AccessInv, pairings' \in Seq(Pairing), Len(pairings') <= MaxPairings,
           DOMAIN pairings \subseteq DOMAIN pairings',
           \A p \in 1..MaxPairings : Approved(p)' <=> Approved(p),
           cachedSignIn' \in {"none", "on", "off"}, clock' \in Nat,
           UNCHANGED <<clients, signIn, inHand, pairMu, revokeMu, pairTokens, collected, lostTokens>>
    PROVE  AccessInv'
<1>1. TypeOK'
  <2> HIDE DEF Request, Pairing, Client
  <2> QED BY Typed DEF TypeOK
<1> QED BY <1>1, QuietStep

LEMMA StartPairingStep ==
    ASSUME AccessInv, NEW c, NEW d, NEW mode \in Modes, NEW scope \in Scopes, StartPairing(c, d, mode, scope)
    PROVE  AccessInv'
<1>1. /\ Len(pairings) < MaxPairings /\ cachedSignIn' = SignInRead
      /\ UNCHANGED <<clients, signIn, inHand, pairMu, revokeMu, pairTokens, collected, lostTokens, clock>>
  BY DEF StartPairing, Admit, ghostVars, budgets
<1> DEFINE new(code) == [mode |-> mode, code |-> code, scope |-> scope, state |-> "pending", attempts |-> 0,
                         until |-> clock + IF mode = "invite" THEN InviteTTL ELSE TTL]
<1>2. PICK code \in Codes : pairings' = Append(Expired, new(code)) BY DEF StartPairing
<1>3. new(code) \in Pairing /\ new(code).state = "pending" BY Typed DEF Pairing
<1> HIDE DEF new
<1>4. /\ Expired \in Seq(Pairing) /\ Len(Expired) = Len(pairings) /\ DOMAIN Expired = DOMAIN pairings
      /\ \A p \in DOMAIN pairings : Expired[p].state = "approved" <=> pairings[p].state = "approved"
  BY ExpiredDoes
<1> HIDE DEF Pairing, Expired
<1>5. /\ pairings' \in Seq(Pairing) /\ Len(pairings') = Len(Expired) + 1
      /\ \A p \in DOMAIN Expired : p \in DOMAIN pairings' /\ pairings'[p] = Expired[p]
      /\ \A p \in DOMAIN pairings' : p \in DOMAIN Expired \/ pairings'[p] = new(code)
  BY <1>2, <1>3, <1>4
<1>6. \A p \in 1..MaxPairings : Approved(p)' <=> Approved(p) BY <1>3, <1>4, <1>5 DEF Approved
<1>7. Len(pairings') <= MaxPairings
  <2>1. Len(pairings) \in Nat BY Typed
  <2> QED BY <1>1, <1>4, <1>5, <2>1
<1>8. DOMAIN pairings \subseteq DOMAIN pairings' BY <1>4, <1>5
<1> QED BY <1>1, <1>5, <1>6, <1>7, <1>8, Typed, ReadsSignIn, PairingsStep

LEMMA DeleteInviteStep ==
    ASSUME AccessInv, NEW c, NEW d, NEW row \in DOMAIN pairings, DeleteInvite(c, d, row)
    PROVE  AccessInv'
<1>1. /\ pairings[row].state = "pending" /\ pairings' = [pairings EXCEPT ![row].state = "expired"]
      /\ cachedSignIn' = SignInRead
      /\ UNCHANGED <<clients, signIn, inHand, pairMu, revokeMu, pairTokens, collected, lostTokens, clock>>
  BY DEF DeleteInvite, Admit, ghostVars, budgets
<1>2. pairings[row] \in Pairing BY Typed
<1> DEFINE gone == [pairings[row] EXCEPT !.state = "expired"]
<1>3. gone \in Pairing /\ gone.state = "expired" BY <1>2 DEF Pairing
<1>4. pairings' = [pairings EXCEPT ![row] = gone] BY <1>1
<1> HIDE DEF gone, Pairing
<1>5. /\ pairings' \in Seq(Pairing) /\ Len(pairings') = Len(pairings) /\ DOMAIN pairings' = DOMAIN pairings
      /\ pairings'[row] = gone /\ \A p \in DOMAIN pairings \ {row} : pairings'[p] = pairings[p]
  BY <1>3, <1>4, Typed
<1>6. \A p \in 1..MaxPairings : Approved(p)' <=> Approved(p) BY <1>1, <1>3, <1>5 DEF Approved
<1> QED BY <1>1, <1>5, <1>6, Typed, ReadsSignIn, PairingsStep

LEMMA PollWrongStep ==
    ASSUME AccessInv, NEW row \in DOMAIN pairings, PollWrong(row)
    PROVE  AccessInv'
<1> DEFINE state == IF pairings[row].attempts + 1 >= DenyAfter THEN "denied" ELSE Expired[row].state
           tried == [Expired[row] EXCEPT !.attempts = @ + 1, !.state = state]
<1>1. /\ Expired[row].state = "pending"
      /\ pairings' = [Expired EXCEPT ![row].attempts = @ + 1,
                                     ![row].state = IF pairings[row].attempts + 1 >= DenyAfter THEN "denied" ELSE @]
      /\ UNCHANGED <<clients, signIn, cachedSignIn, inHand, pairMu, revokeMu, pairTokens, collected, lostTokens, clock>>
  BY DEF PollWrong, ghostVars, budgets
<1>2. /\ Expired \in Seq(Pairing) /\ Len(Expired) = Len(pairings) /\ DOMAIN Expired = DOMAIN pairings
      /\ \A p \in DOMAIN pairings :
            /\ Expired[p].state = "approved" <=> pairings[p].state = "approved"
            /\ Expired[p] \in Pairing
  BY ExpiredDoes
<1>3. pairings' = [Expired EXCEPT ![row] = tried] BY <1>1, <1>2
<1>4. state \in {"denied", "pending"} BY <1>1
<1> DEFINE old == Expired[row]
<1>a. old \in Pairing /\ old.attempts \in Nat BY <1>2 DEF Pairing
<1>b. tried = [old EXCEPT !.attempts = @ + 1, !.state = state] OBVIOUS
<1> HIDE DEF state, old, tried
<1>c. tried = [mode |-> old.mode, code |-> old.code, scope |-> old.scope, state |-> state,
               attempts |-> old.attempts + 1, until |-> old.until]
  BY <1>a, <1>b DEF Pairing
<1>d. old.attempts + 1 \in Nat BY <1>a
<1>5. tried \in Pairing /\ tried.state # "approved" BY <1>a, <1>c, <1>d, <1>4 DEF Pairing
<1> HIDE DEF tried, Pairing, Expired
<1>6. /\ pairings' \in Seq(Pairing) /\ Len(pairings') = Len(pairings) /\ DOMAIN pairings' = DOMAIN pairings
      /\ pairings'[row] = tried /\ \A p \in DOMAIN pairings \ {row} : pairings'[p] = Expired[p]
  BY <1>2, <1>3, <1>5, Typed
<1>7. \A p \in 1..MaxPairings : Approved(p)' <=> Approved(p) BY <1>1, <1>2, <1>5, <1>6 DEF Approved
<1> QED BY <1>1, <1>6, <1>7, Typed, PairingsStep

LEMMA TickStep ==
    ASSUME AccessInv, Tick
    PROVE  AccessInv'
<1>1. /\ clock' = clock + 1
      /\ UNCHANGED <<pairings, clients, signIn, cachedSignIn, inHand, pairMu, revokeMu, pairTokens, collected, lostTokens>>
  BY DEF Tick, tableVars, ghostVars
<1>2. \A p \in 1..MaxPairings : Approved(p)' <=> Approved(p) BY <1>1 DEF Approved
<1> QED BY <1>1, <1>2, Typed, PairingsStep

\* What the process held is gone: a token nobody had yet is lost, no other.
LEMMA RestartStep ==
    ASSUME AccessInv, Restart
    PROVE  AccessInv'
<1>1. /\ cachedSignIn' = "none" /\ pairTokens' = {} /\ pairMu' = Free /\ revokeMu' = Free
      /\ inHand' = [i \in Slots |-> Ready]
      /\ lostTokens' = {p \in DOMAIN pairings : pairings[p].state = "approved" /\ collected[p] = 0}
      /\ UNCHANGED <<pairings, clients, signIn, collected, clock>>
  BY DEF Restart, tableVars
<1>2. TypeOK'
  <2>1. Ready \in Request BY DEF Request
  <2>2. lostTokens' \subseteq 1..MaxPairings BY <1>1, Typed
  <2> HIDE DEF Request, Pairing, Client, Ready
  <2> QED BY <1>1, <2>1, <2>2, Typed DEF TypeOK
<1>3. ASSUME NEW p \in 1..MaxPairings PROVE Places(p)' = IF Approved(p)' THEN 1 ELSE 0
  <2>1. BeingHeld(p)' = {} /\ Sending(p)' = {} BY <1>1 DEF BeingHeld, Sending, Ready
  <2>2. Cardinality(BeingHeld(p)') = 0 /\ Cardinality(Sending(p)') = 0 BY <2>1, FS_EmptySet
  <2>3. p \notin pairTokens' /\ collected'[p] = collected[p] /\ collected[p] \in Nat BY <1>1, Typed
  <2>4. Places(p)' = collected[p] + One(p \in lostTokens') BY <2>2, <2>3 DEF Places, One
  <2>5. Approved(p)' <=> Approved(p) BY <1>1 DEF Approved
  <2>6. p \in lostTokens' <=> Approved(p) /\ collected[p] = 0 BY <1>1 DEF Approved
  <2>7. collected[p] <= One(Approved(p))
    <3>1. Places(p) = One(Approved(p)) BY DEF AccessInv, One
    <3>2. BeingHeld(p) \subseteq Slots /\ Sending(p) \subseteq Slots BY DEF BeingHeld, Sending
    <3>3. Cardinality(BeingHeld(p)) \in Nat /\ Cardinality(Sending(p)) \in Nat BY <3>2, FS_Subset, FS_CardinalityType
    <3>4. Places(p) = Cardinality(BeingHeld(p)) + One(p \in pairTokens) + Cardinality(Sending(p)) + collected[p]
                        + One(p \in lostTokens)
      BY DEF Places, One
    <3>5. One(p \in pairTokens) \in Nat /\ One(p \in lostTokens) \in Nat BY DEF One
    <3> QED BY <2>3, <3>1, <3>3, <3>4, <3>5
  <2> QED BY <2>3, <2>4, <2>5, <2>6, <2>7 DEF One
<1>4. ASSUME NEW i \in Slots PROVE Knows(i)'
  <2>1. inHand'[i] = Ready BY <1>1
  <2> QED BY <2>1 DEF Knows, Ready
<1> QED BY <1>2, <1>3, <1>4 DEF AccessInv

-----------------------------------------------------------------------------
(* Every run.                                                               *)

LEMMA Starts == Init => AccessInv
<1> SUFFICES ASSUME Init PROVE AccessInv OBVIOUS
<1> USE DEF Init
<1>1. TypeOK
  <2>1. Ready \in Request BY DEF Request
  <2> HIDE DEF Request, Pairing, Client, Ready
  <2>2. pairings \in Seq(Pairing) /\ clients \in Seq(Client) /\ Len(pairings) <= MaxPairings OBVIOUS
  <2>3. inHand \in [Slots -> Request] BY <2>1
  <2>4. collected \in [1..MaxPairings -> Nat] OBVIOUS
  <2> QED BY <2>2, <2>3, <2>4 DEF TypeOK
<1>2. ASSUME NEW p \in 1..MaxPairings PROVE Places(p) = IF Approved(p) THEN 1 ELSE 0
  <2>1. BeingHeld(p) = {} /\ Sending(p) = {} BY DEF BeingHeld, Sending, Ready
  <2>2. ~Approved(p) BY DEF Approved
  <2> QED BY <2>1, <2>2, FS_EmptySet DEF Places
<1>3. \A i \in Slots : Knows(i) BY DEF Knows, Ready
<1> QED BY <1>1, <1>2, <1>3 DEF AccessInv

LEMMA Stutters == AccessInv /\ UNCHANGED accessVars => AccessInv'
<1> SUFFICES ASSUME AccessInv, UNCHANGED accessVars PROVE AccessInv' OBVIOUS
<1>1. UNCHANGED <<pairings, clients, signIn, cachedSignIn, inHand, pairMu, revokeMu, pairTokens, collected, lostTokens,
                  clock>>
  BY DEF accessVars
<1>2. \A p \in 1..MaxPairings : Approved(p)' <=> Approved(p) BY <1>1 DEF Approved
<1> QED BY <1>1, <1>2, Typed, PairingsStep

\* Every step keeps a token in its one place, and what requests know.
LEMMA Steps == AccessInv /\ [Next]_accessVars => AccessInv'
<1> SUFFICES ASSUME AccessInv, [Next]_accessVars PROVE AccessInv' OBVIOUS
<1>1. ASSUME NEW c \in Callers, NEW d \in Tokens, NEW mode \in Modes, NEW scope \in Scopes,
             StartPairing(c, d, mode, scope)
      PROVE  AccessInv'
  BY <1>1, StartPairingStep
<1>2. ASSUME NEW c \in Callers, NEW d \in Tokens, NEW p \in DOMAIN pairings, DeleteInvite(c, d, p) PROVE AccessInv'
  BY <1>2, DeleteInviteStep
<1>3. ASSUME NEW c \in Callers, NEW d \in Tokens, NEW i \in Slots, NEW mode \in Modes, NEW code \in Codes,
             SubmitCode(i, c, d, mode, code)
      PROVE  AccessInv'
  BY <1>3, SubmitCodeStep
<1>4. ASSUME NEW c \in Callers, NEW d \in Tokens, NEW i \in Slots, NEW t \in DOMAIN clients, RevokeClient(i, c, d, t)
      PROVE  AccessInv'
  BY <1>4, RevokeClientStep
<1>5. ASSUME NEW c \in Callers, NEW d \in Tokens, NEW i \in Slots, NEW on \in {"on", "off"}, PutSettings(i, c, d, on)
      PROVE  AccessInv'
  BY <1>5, PutSettingsStep
<1>6. ASSUME NEW i \in Slots, ReadCode(i) \/ FinishCode(i) \/ HoldToken(i) \/ SettleCodeTry(i) PROVE AccessInv'
  BY <1>6, ReadCodeStep, FinishCodeStep, HoldTokenStep, SettleCodeTryStep
<1>7. ASSUME NEW i \in Slots, TakeToken(i) \/ WriteToken(i) \/ RestorePairToken(i) PROVE AccessInv'
  BY <1>7, TakeTokenStep, WriteTokenStep, RestorePairTokenStep
<1>8. ASSUME NEW i \in Slots, Revoke(i) \/ WriteSettings(i) \/ ForgetSettings(i) PROVE AccessInv'
  BY <1>8, RevokeStep, WriteSettingsStep, ForgetSettingsStep
<1>9. ASSUME NEW i \in Slots, NEW p \in DOMAIN pairings, PollPairing(i, p) PROVE AccessInv'
  BY <1>9, PollPairingStep
<1>10. ASSUME NEW p \in DOMAIN pairings, PollWrong(p) PROVE AccessInv' BY <1>10, PollWrongStep
<1>11. CASE Tick \/ Restart BY <1>11, TickStep, RestartStep
<1>12. CASE UNCHANGED accessVars BY <1>12, Stutters
<1> QED BY <1>1, <1>2, <1>3, <1>4, <1>5, <1>6, <1>7, <1>8, <1>9, <1>10, <1>11, <1>12 DEF Next, Modes, Scopes

\* Each approved pairing's token has one place, no other pairing's has any, and
\* every request in progress still has what it found under its lock.
THEOREM Invariant == Spec => []AccessInv
BY Starts, Steps, PTL DEF Spec

\* Polls that race, writes that fail and an approval under way neither copy nor
\* drop a token (takePairToken, restorePairToken, approvePair).
THEOREM TokensHold == Spec => []HandedOnce
<1>1. ASSUME AccessInv PROVE HandedOnce
  <2>1. ASSUME NEW p \in DOMAIN pairings, pairings[p].state = "approved" PROVE Places(p) = 1
    <3>1. p \in 1..MaxPairings BY <1>1, Typed
    <3>2. Approved(p) BY <2>1 DEF Approved
    <3> QED BY <1>1, <3>1, <3>2 DEF AccessInv
  <2> QED BY <2>1 DEF HandedOnce
<1> QED BY <1>1, Invariant, PTL

\* The clients change in three places: a revoke's write, the transaction of a
\* claimed or approved code, and the settings' when sign-in is switched on.
LEMMA OnlyThree ==
    ASSUME [Next]_accessVars, clients' # clients
    PROVE  \E j \in Slots : Revoke(j) \/ FinishCode(j) \/ WriteSettings(j)
<1>1. ASSUME NEW c \in Callers, NEW d \in Tokens, NEW mode \in Modes, NEW scope \in Scopes,
             StartPairing(c, d, mode, scope)
      PROVE  FALSE
  BY <1>1 DEF StartPairing
<1>2. ASSUME NEW c \in Callers, NEW d \in Tokens, NEW p \in DOMAIN pairings, DeleteInvite(c, d, p) PROVE FALSE
  BY <1>2 DEF DeleteInvite
<1>3. ASSUME NEW i \in Slots, NEW c \in Callers, NEW d \in Tokens, NEW mode \in Modes, NEW code \in Codes,
             SubmitCode(i, c, d, mode, code)
      PROVE  FALSE
  BY <1>3 DEF SubmitCode, tableVars
<1>4. ASSUME NEW i \in Slots, NEW c \in Callers, NEW d \in Tokens, NEW t \in DOMAIN clients, RevokeClient(i, c, d, t)
      PROVE  FALSE
  BY <1>4 DEF RevokeClient, tableVars
<1>5. ASSUME NEW i \in Slots, NEW c \in Callers, NEW d \in Tokens, NEW on \in {"on", "off"}, PutSettings(i, c, d, on)
      PROVE  FALSE
  BY <1>5 DEF PutSettings, tableVars
<1>6. ASSUME NEW i \in Slots, ReadCode(i) \/ HoldToken(i) \/ SettleCodeTry(i) PROVE FALSE
  BY <1>6 DEF ReadCode, HoldToken, SettleCodeTry, tableVars
<1>7. ASSUME NEW i \in Slots, TakeToken(i) \/ WriteToken(i) \/ RestorePairToken(i) \/ ForgetSettings(i) PROVE FALSE
  BY <1>7 DEF TakeToken, WriteToken, RestorePairToken, ForgetSettings, tableVars
<1>8. ASSUME NEW i \in Slots, NEW p \in DOMAIN pairings, PollPairing(i, p) PROVE FALSE BY <1>8 DEF PollPairing
<1>9. ASSUME NEW p \in DOMAIN pairings, PollWrong(p) PROVE FALSE BY <1>9 DEF PollWrong
<1>10. ~Tick /\ ~Restart BY DEF Tick, Restart, tableVars
<1>11. ~UNCHANGED accessVars BY DEF accessVars
<1> QED BY <1>1, <1>2, <1>3, <1>4, <1>5, <1>6, <1>7, <1>8, <1>9, <1>10, <1>11 DEF Next, Modes, Scopes

\* A revoke that found sign-in on, and an admin besides the one it revokes,
\* leaves an admin, whatever was paired meanwhile (revokeClient, revokeMu).
THEOREM AdminsHold == Spec => AdminLeft
<1>1. ASSUME AccessInv, [Next]_accessVars PROVE [LeavesAdmin]_accessVars
  <2> SUFFICES ASSUME NEW i \in Slots, inHand[i].op = "revoke", inHand'[i] = Ready, inHand[i].sawOn,
                      clients' # clients, Admins # {}
               PROVE  Admins' # {}
    BY DEF LeavesAdmin
  <2>1. Knows(i) /\ clients \in Seq(Client) BY <1>1, Typed DEF AccessInv
  <2>2. revokeMu = i /\ inHand[i].row \in DOMAIN clients /\ Admins # {inHand[i].row} BY <2>1 DEF Knows
  <2>3. CASE clients' = [clients EXCEPT ![inHand[i].row].revoked = TRUE]
    <3>1. \A d \in DOMAIN clients \ {inHand[i].row} : d \in DOMAIN clients' /\ clients'[d] = clients[d] BY <2>1, <2>3
    <3>2. PICK d \in Admins : d # inHand[i].row BY <2>2
    <3>3. d \in Admins' BY <3>1, <3>2 DEF Admins
    <3> QED BY <3>3
  <2>4. CASE Adds
    <3>1. /\ DOMAIN clients \subseteq DOMAIN clients'
          /\ \A d \in DOMAIN clients : clients'[d] = clients[d]
      BY <2>1, <2>4 DEF Adds
    <3> QED BY <3>1 DEF Admins
  <2>5. clients' = [clients EXCEPT ![inHand[i].row].revoked = TRUE] \/ Adds
    <3>1. ASSUME NEW j \in Slots, Revoke(j) PROVE clients' = [clients EXCEPT ![inHand[i].row].revoked = TRUE]
      <4>1. Knows(j) BY <1>1 DEF AccessInv
      <4>2. j = i BY <2>2, <3>1, <4>1 DEF Knows, Revoke
      <4> QED BY <3>1, <4>2 DEF Revoke
    <3>2. ASSUME NEW j \in Slots, FinishCode(j) PROVE Adds
      <4>1. Knows(j) /\ inHand[j].op = "code" /\ inHand[j].at = "finish" BY <1>1, <3>2 DEF AccessInv, FinishCode
      <4>2. inHand[j].row \in DOMAIN pairings BY <4>1 DEF Knows
      <4>3. pairings[inHand[j].row] \in Pairing BY <1>1, <4>2, Typed
      <4>4. clients' = Append(clients, [scope |-> pairings[inHand[j].row].scope, revoked |-> FALSE])
        BY <3>2 DEF FinishCode
      <4> QED BY <4>3, <4>4 DEF Adds, Pairing
    <3>3. ASSUME NEW j \in Slots, WriteSettings(j) PROVE Adds BY <3>3 DEF WriteSettings, Adds, Scopes
    <3> SUFFICES ASSUME clients' # clients PROVE \E j \in Slots : Revoke(j) \/ FinishCode(j) \/ WriteSettings(j)
      BY <3>1, <3>2, <3>3
    <3> QED BY <1>1, OnlyThree
  <2> QED BY <2>3, <2>4, <2>5
<1> QED BY <1>1, Invariant, PTL DEF Spec, AdminLeft
=============================================================================
