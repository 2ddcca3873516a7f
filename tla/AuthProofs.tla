----------------------------- MODULE AuthProofs -----------------------------
(***************************************************************************)
(* Proofs about Auth.tla, for any clients, devices, addresses and bounds:  *)
(*   - the type invariant;                                                 *)
(*   - a request on its way is the pending one of its device, in one place; *)
(*   - a request is lost only in front of a full channel, and one on the   *)
(*     console has a timer;                                                *)
(*   - trust is an approval that no revocation followed, and what a client *)
(*     is told was decided for its device.                                 *)
(* The last rests on a ledger: a decision is made once, on the request     *)
(* that is pending, and never changed.                                     *)
(***************************************************************************)
EXTENDS Auth, SequenceTheorems, WellFoundedInduction, TLAPS

USE ConstantsAssumption DEF ConstantsAssumption

-----------------------------------------------------------------------------
(* The channel.                                                              *)
LEMMA QueueAppends ==
  ASSUME NEW q \in Seq(Requests), IsInjective(q), NEW r \in Requests, r \notin Range(q)
  PROVE  /\ Append(q, r) \in Seq(Requests) /\ Len(Append(q, r)) = Len(q) + 1
         /\ Range(Append(q, r)) = Range(q) \cup {r} /\ IsInjective(Append(q, r))
<1> DEFINE s == Append(q, r)
<1>1. /\ s \in Seq(Requests) /\ Len(s) = Len(q) + 1 /\ Len(q) \in Nat
      /\ \A i \in 1..Len(q) : s[i] = q[i]
      /\ s[Len(q) + 1] = r
  BY AppendProperties, LenProperties
<1>2. DOMAIN s = 1..(Len(q) + 1) /\ DOMAIN q = 1..Len(q)
  BY <1>1
<1> HIDE DEF s
<1>3. Range(s) = Range(q) \cup {r}
  <2>1. ASSUME NEW x \in Range(s) PROVE x \in Range(q) \cup {r}
    BY <1>1, <1>2, <2>1 DEF Range
  <2>2. ASSUME NEW x \in Range(q) PROVE x \in Range(s)
    BY <1>1, <1>2, <2>2 DEF Range
  <2>3. r \in Range(s)
    BY <1>1, <1>2 DEF Range
  <2> QED
    BY <2>1, <2>2, <2>3
<1>4. \A i \in DOMAIN q : q[i] # r
  BY DEF Range
<1>5. IsInjective(s)
  BY <1>1, <1>2, <1>4 DEF IsInjective
<1> QED
  BY <1>1, <1>3, <1>5 DEF s

LEMMA QueueTails ==
  ASSUME NEW q \in Seq(Requests), q # <<>>, IsInjective(q)
  PROVE  /\ Tail(q) \in Seq(Requests) /\ Len(Tail(q)) = Len(q) - 1 /\ Len(q) \in Nat
         /\ Head(q) \in Requests /\ Head(q) \in Range(q)
         /\ Range(Tail(q)) = Range(q) \ {Head(q)} /\ IsInjective(Tail(q))
<1> DEFINE s == Tail(q)
           h == Head(q)
<1>1. /\ s \in Seq(Requests) /\ Len(s) = Len(q) - 1 /\ h \in Requests
      /\ \A i \in 1..Len(s) : s[i] = q[i + 1]
  BY HeadTailProperties
<1>2. h = q[1]
  OBVIOUS
<1>3. Len(q) \in Nat \ {0} /\ DOMAIN q = 1..Len(q)
  BY EmptySeq, LenProperties
<1>4. DOMAIN s = 1..(Len(q) - 1)
  BY <1>1, LenProperties
<1> HIDE DEF s, h
<1>5. \A i \in 2..Len(q) : i - 1 \in DOMAIN s /\ s[i - 1] = q[i]
  BY <1>1, <1>3, <1>4
<1>6. \A i \in DOMAIN s : i + 1 \in DOMAIN q /\ i + 1 # 1 /\ s[i] = q[i + 1]
  BY <1>1, <1>3, <1>4
<1>7. 1 \in DOMAIN q
  BY <1>3
<1>8. Range(s) = Range(q) \ {h}
  <2>1. ASSUME NEW x \in Range(s) PROVE x \in Range(q) \ {h}
    <3>1. PICK i \in DOMAIN s : x = s[i]
      BY DEF Range
    <3> QED
      BY <1>2, <1>6, <1>7, <3>1 DEF Range, IsInjective
  <2>2. ASSUME NEW x \in Range(q), x # h PROVE x \in Range(s)
    <3>1. PICK i \in DOMAIN q : x = q[i]
      BY DEF Range
    <3>2. i \in 2..Len(q)
      BY <1>2, <1>3, <2>2, <3>1
    <3> QED
      BY <1>5, <3>1, <3>2 DEF Range
  <2> QED
    BY <2>1, <2>2
<1>9. IsInjective(s)
  <2> SUFFICES ASSUME NEW i \in DOMAIN s, NEW j \in DOMAIN s, s[i] = s[j] PROVE i = j
    BY DEF IsInjective
  <2>1. i + 1 = j + 1
    BY <1>6 DEF IsInjective
  <2> QED
    BY <1>4, <2>1
<1>10. h \in Range(q)
  BY <1>2, <1>7 DEF Range
<1> QED
  BY <1>1, <1>3, <1>8, <1>9, <1>10 DEF s, h

(* Of the requests on the screen there is a latest one.                      *)
LEMMA LatestIsShown ==
  ASSUME prompts \in [Devices -> {0} \cup Requests], \E d \in Devices : prompts[d] # 0
  PROVE  Latest \in Devices /\ prompts[Latest] \in Requests
<1> DEFINE T == {MaxRequests - prompts[d] : d \in {e \in Devices : prompts[e] # 0}}
<1>1. \A d \in Devices : prompts[d] \in 0..MaxRequests
  BY DEF Requests
<1>2. T \subseteq Nat /\ T # {}
  BY <1>1
<1>3. PICK x \in T : \A y \in T : ~(<<y, x>> \in OpToRel(<, Nat))
  BY <1>2, WFMin, NatLessThanWellFounded, Zenon
<1>4. \A y \in T : ~(y < x)
  BY <1>2, <1>3 DEF OpToRel
<1>5. PICK d \in Devices : prompts[d] # 0 /\ x = MaxRequests - prompts[d]
  OBVIOUS
<1>6. ASSUME NEW e \in Devices PROVE prompts[e] <= prompts[d]
  <2>1. CASE prompts[e] = 0
    BY <1>1, <2>1
  <2>2. CASE prompts[e] # 0
    <3>1. MaxRequests - prompts[e] \in T
      BY <2>2
    <3>2. ~(MaxRequests - prompts[e] < MaxRequests - prompts[d])
      BY <1>4, <1>5, <3>1
    <3> QED
      BY <1>1, <3>2
  <2> QED
    BY <2>1, <2>2
<1>7. \E e \in Devices : prompts[e] # 0 /\ \A f \in Devices : prompts[f] <= prompts[e]
  BY <1>5, <1>6
<1>8. Latest \in Devices /\ prompts[Latest] # 0
  BY <1>7, Zenon DEF Latest
<1> QED
  BY <1>8

-----------------------------------------------------------------------------
(* A decision has been made on a request of the device.                      *)
Decided(d, v) == \E r \in 1..Len(owner) : owner[r] = d /\ decision[r] = v

Ledger ==
  /\ armed \cup fired \subseteq 1..Len(owner)
  /\ \A r \in Requests : r > Len(owner) => decision[r] = "none"
  /\ \A d \in Devices : pendingAuth[d] # 0 =>
       /\ pendingAuth[d] \in 1..Len(owner)
       /\ owner[pendingAuth[d]] = d /\ decision[pendingAuth[d]] = "none"
  /\ \A d \in Devices : pendingResult[d] # "none" => Decided(d, pendingResult[d])
  /\ \A c \in Clients : told[c] \in {"approved", "rejected"} => Decided(DeviceOf[c], told[c])

Flying == sending \cup Range(queue) \cup Shown \cup dialogs

Apart ==
  /\ sending \cap Range(queue) = {} /\ sending \cap Shown = {} /\ sending \cap dialogs = {}
  /\ Range(queue) \cap Shown = {} /\ Range(queue) \cap dialogs = {} /\ Shown \cap dialogs = {}

Flight ==
  /\ IsInjective(queue)
  /\ \A r \in Flying : r \in 1..Len(owner) /\ pendingAuth[owner[r]] = r
  /\ \A d \in Devices : prompts[d] # 0 => owner[prompts[d]] = d
  /\ Apart

AuthInv == TypeOK /\ Ledger /\ Flight

(* Steps that make no decision and no request.                               *)
LEMMA LedgerRests ==
  ASSUME TypeOK, Ledger, UNCHANGED <<owner, decision, pendingAuth>>,
         armed' \cup fired' \subseteq armed \cup fired \cup 1..Len(owner),
         \A d \in Devices : pendingResult'[d] \in {pendingResult[d], "none"},
         \A c \in Clients : \/ told'[c] = told[c]
                            \/ told'[c] \notin {"approved", "rejected"}
                            \/ told'[c] = pendingResult[DeviceOf[c]]
  PROVE  Ledger'
<1>1. \A d, v : Decided(d, v)' = Decided(d, v)
  BY Zenon DEF Decided
<1>2. \A c \in Clients : DeviceOf[c] \in Devices
  OBVIOUS
<1>3. ASSUME NEW c \in Clients, told'[c] \in {"approved", "rejected"}
      PROVE  Decided(DeviceOf[c], told'[c])
  BY <1>2, <1>3 DEF Ledger
<1>4. \A d \in Devices : pendingResult'[d] # "none" => Decided(d, pendingResult'[d])
  BY DEF Ledger
<1>5. \A c \in Clients : told'[c] \in {"approved", "rejected"} => Decided(DeviceOf[c], told[c])'
  BY <1>1, <1>3
<1>6. \A d \in Devices : pendingResult'[d] # "none" => Decided(d, pendingResult[d])'
  BY <1>1, <1>4
<1> QED
  BY <1>5, <1>6 DEF Ledger

LEMMA Numbered ==
  ASSUME TypeOK
  PROVE  /\ Len(owner) \in Nat /\ 1..Len(owner) \subseteq Requests /\ Requests \subseteq Nat \ {0}
         /\ \A r \in 1..Len(owner) : owner[r] \in Devices
BY DEF TypeOK, Requests

(* A decision made: on the pending request, which had none.                  *)
LEMMA RespondDoes ==
  ASSUME TypeOK, Ledger, NEW d \in Devices, NEW approved \in BOOLEAN,
         RespondToAuthRequest(d, approved), UNCHANGED <<owner, told>>,
         armed' \cup fired' \subseteq 1..Len(owner)
  PROVE  /\ authorized' \in SUBSET Devices
         /\ pendingAuth' \in [Devices -> {0} \cup Requests]
         /\ \A e \in Devices : pendingAuth'[e] = IF e = d THEN 0 ELSE pendingAuth[e]
         /\ pendingResult' \in [Devices -> Results]
         /\ decision' \in [Requests -> Results]
         /\ Ledger'
<1>1. CASE pendingAuth[d] = 0
  <2>1. UNCHANGED <<authorized, pendingAuth, pendingResult, decision>>
    BY <1>1 DEF RespondToAuthRequest
  <2>2. \A c \in Clients : told'[c] = told[c]
    OBVIOUS
  <2>3. Ledger'
    BY <2>1, <2>2, LedgerRests
  <2> QED
    BY <1>1, <2>1, <2>3 DEF TypeOK
<1>2. CASE pendingAuth[d] # 0
  <2> DEFINE p == pendingAuth[d]
             v == IF approved THEN "approved" ELSE "rejected"
  <2>1. /\ pendingAuth' = [pendingAuth EXCEPT ![d] = 0]
        /\ pendingResult' = [pendingResult EXCEPT ![d] = v]
        /\ authorized' = IF approved THEN authorized \cup {d} ELSE authorized
        /\ decision' = [decision EXCEPT ![p] = v]
    BY <1>2 DEF RespondToAuthRequest
  <2>2. v \in {"approved", "rejected"} /\ (approved => v = "approved")
    OBVIOUS
  <2>3. p \in 1..Len(owner) /\ p \in Requests /\ owner[p] = d /\ decision[p] = "none"
    BY <1>2, Numbered DEF Ledger
  <2> HIDE DEF p, v
  <2>4. /\ pendingAuth' \in [Devices -> {0} \cup Requests]
        /\ \A e \in Devices : pendingAuth'[e] = IF e = d THEN 0 ELSE pendingAuth[e]
    BY <2>1 DEF TypeOK
  <2>5. /\ pendingResult' \in [Devices -> Results] /\ pendingResult'[d] = v
        /\ \A e \in Devices \ {d} : pendingResult'[e] = pendingResult[e]
    BY <2>1, <2>2 DEF TypeOK, Results
  <2>6. /\ decision' \in [Requests -> Results] /\ decision'[p] = v
        /\ \A r \in Requests \ {p} : decision'[r] = decision[r]
    BY <2>1, <2>2, <2>3 DEF TypeOK, Results
  <2>7. authorized' \in SUBSET Devices
    BY <2>1, <2>2 DEF TypeOK
  <2>8. Decided(d, v)'
    BY <2>3, <2>6 DEF Decided
  <2>9. ASSUME NEW e, NEW w \in {"approved", "rejected"}, Decided(e, w) PROVE Decided(e, w)'
    BY <2>3, <2>6, <2>9, Numbered DEF Decided
  <2>10. \A r \in Requests : r > Len(owner) => decision'[r] = "none"
    BY <2>3, <2>6, Numbered DEF Ledger
  <2>11. ASSUME NEW e \in Devices, pendingAuth'[e] # 0
         PROVE  /\ pendingAuth'[e] \in 1..Len(owner)
                /\ owner[pendingAuth'[e]] = e /\ decision'[pendingAuth'[e]] = "none"
    BY <2>3, <2>4, <2>6, <2>11, Numbered DEF Ledger
  <2>12. ASSUME NEW e \in Devices, pendingResult'[e] # "none"
         PROVE  Decided(e, pendingResult[e])'
    <3>1. CASE e = d
      BY <2>5, <2>8, <3>1
    <3>2. CASE e # d
      <4>1. pendingResult'[e] = pendingResult[e] /\ pendingResult[e] \in {"approved", "rejected"}
        BY <2>5, <2>12, <3>2 DEF TypeOK, Results
      <4>2. Decided(e, pendingResult[e])
        BY <4>1 DEF Ledger
      <4>3. PICK w \in {"approved", "rejected"} : w = pendingResult[e]
        BY <4>1
      <4>4. Decided(e, w)'
        BY <2>9, <4>2, <4>3
      <4> QED
        BY <4>1, <4>3, <4>4 DEF Decided
    <3> QED
      BY <3>1, <3>2
  <2>13. ASSUME NEW c \in Clients, told'[c] \in {"approved", "rejected"}
         PROVE  Decided(DeviceOf[c], told[c])'
    <3>1. told[c] \in {"approved", "rejected"} /\ told'[c] = told[c]
      BY <2>13
    <3>2. PICK w \in {"approved", "rejected"} : w = told[c]
      BY <3>1
    <3>3. Decided(DeviceOf[c], w)
      BY <3>1, <3>2 DEF Ledger
    <3>4. Decided(DeviceOf[c], w)'
      BY <2>9, <3>3
    <3>5. told'[c] = w
      BY <3>1, <3>2
    <3> QED
      BY <3>4, <3>5 DEF Decided
  <2>14. Ledger'
    BY <2>10, <2>11, <2>12, <2>13 DEF Ledger
  <2> QED
    BY <2>4, <2>5, <2>6, <2>7, <2>14
<1> QED
  BY <1>1, <1>2

-----------------------------------------------------------------------------
LEMMA AuthInitially == Init => AuthInv
<1> SUFFICES ASSUME Init PROVE AuthInv
  OBVIOUS
<1>1. /\ owner = <<>> /\ queue = <<>> /\ Len(owner) = 0 /\ Len(queue) = 0
      /\ owner \in Seq(Devices) /\ queue \in Seq(Requests) /\ DOMAIN queue = {}
  BY DEF Init
<1>2. TypeOK
  BY <1>1 DEF Init, TypeOK, Results, Answers
<1>3. Ledger
  BY <1>1 DEF Init, Ledger
<1>4. Shown = {} /\ Range(queue) = {} /\ Flying = {}
  BY <1>1 DEF Init, Flying, Shown, Range
<1>5. Flight
  BY <1>1, <1>4 DEF Init, Flight, Apart, IsInjective
<1> QED
  BY <1>2, <1>3, <1>5 DEF AuthInv

(* Steps that do not move a request.                                         *)
LEMMA FlightRests ==
  ASSUME Flight, UNCHANGED <<owner, pendingAuth, sending, queue, prompts, dialogs>>
  PROVE  Flight'
<1>1. Shown' = Shown /\ Range(queue)' = Range(queue)
  BY DEF Shown
<1>2. Flying' = Flying /\ Apart' = Apart
  BY <1>1, Zenon DEF Flying, Apart
<1>3. IsInjective(queue)' = IsInjective(queue)
  BY Zenon
<1> QED
  BY <1>2, <1>3 DEF Flight

(* Steps that move requests, or take some away.                              *)
LEMMA FlightMoves ==
  ASSUME TypeOK, Flight, UNCHANGED <<owner, prompts>>, IsInjective(queue)', Apart',
         Flying' \subseteq Flying,
         \A r \in Flying' : pendingAuth'[owner[r]] = pendingAuth[owner[r]]
  PROVE  Flight'
BY DEF Flight

(* What one client does alone, the clock's minute, and a revocation.         *)
LEMMA QuietKeeps ==
  ASSUME AuthInv,
         \/ \E c \in Clients : \/ HandleAuthRequest(c) \/ HandleAuthCheck(c)
                               \/ CheckResult(c) \/ PollResult(c) \/ PollTimeout(c)
         \/ \E i \in IPs : WindowEnds(i)
         \/ \E d \in Devices : RevokeDevice(d)
  PROVE  AuthInv'
<1>1. TypeOK /\ Ledger /\ Flight
  BY DEF AuthInv
<1>2. ASSUME NEW c \in Clients, HandleAuthRequest(c) \/ HandleAuthCheck(c) PROVE AuthInv'
  <2>1. PICK next \in {"requesting", "checking"} : Handle(c, next)
    BY <1>2 DEF HandleAuthRequest, HandleAuthCheck
  <2>2. /\ UNCHANGED <<gui, authorized, pendingAuth, pendingResult, attempts, owner,
                       sending, queue, hostVars, pollers, decision, withdrawn, waiting>>
        /\ budget[c] > 0 /\ budget' = [budget EXCEPT ![c] = @ - 1]
        /\ pc' = pc \/ pc' = [pc EXCEPT ![c] = next]
        /\ told' = told \/ told' = [told EXCEPT ![c] = "authorized"]
    BY <2>1 DEF Handle, Answer
  <2>3. TypeOK'
    <3>1. budget' \in [Clients -> Nat]
      BY <1>1, <2>2 DEF TypeOK
    <3>2. pc' \in [Clients -> {"idle", "requesting", "checking"}]
      BY <1>1, <2>1, <2>2 DEF TypeOK
    <3>3. told' \in [Clients -> Answers]
      BY <1>1, <2>2 DEF TypeOK, Answers
    <3> QED
      BY <1>1, <2>2, <3>1, <3>2, <3>3 DEF TypeOK, hostVars
  <2>4. \A x \in Clients : told'[x] \in {told[x], "authorized"}
    BY <1>1, <2>2 DEF TypeOK
  <2> QED
    BY <1>1, <2>2, <2>3, <2>4, LedgerRests, FlightRests DEF AuthInv, hostVars
<1>3. ASSUME NEW c \in Clients, CheckResult(c) \/ PollResult(c) \/ PollTimeout(c) PROVE AuthInv'
  <2>1. /\ UNCHANGED <<gui, authorized, pendingAuth, attempts, owner, sending, queue,
                       hostVars, budget, decision, withdrawn, waiting>>
        /\ pc' = pc \/ pc' = [pc EXCEPT ![c] = "idle"]
        /\ pollers' = pollers \/ (pollers[c] > 0 /\ pollers' = [pollers EXCEPT ![c] = @ - 1])
    BY <1>3 DEF CheckResult, PollResult, PollTimeout
  <2>2. \/ /\ told' = [told EXCEPT ![c] = pendingResult[DeviceOf[c]]]
           /\ pendingResult' = [pendingResult EXCEPT ![DeviceOf[c]] = "none"]
        \/ /\ \E a \in {"pending", "timeout"} : told' = [told EXCEPT ![c] = a]
           /\ pendingResult' = pendingResult
    BY <1>3 DEF CheckResult, PollResult, PollTimeout, TakeResult, Answer
  <2>3. DeviceOf[c] \in Devices /\ pendingResult[DeviceOf[c]] \in Results
    BY <1>1 DEF TypeOK
  <2>4. told' \in [Clients -> Answers] /\ pendingResult' \in [Devices -> Results]
    <3>1. Results \subseteq Answers /\ {"pending", "timeout"} \subseteq Answers /\ "none" \in Results
      BY DEF Answers, Results
    <3>2. told \in [Clients -> Answers] /\ pendingResult \in [Devices -> Results]
      BY <1>1 DEF TypeOK
    <3> QED
      BY <2>2, <2>3, <3>1, <3>2
  <2>5. TypeOK'
    <3>1. pollers' \in [Clients -> Nat]
      BY <1>1, <2>1 DEF TypeOK
    <3>2. pc' \in [Clients -> {"idle", "requesting", "checking"}]
      BY <1>1, <2>1 DEF TypeOK
    <3> QED
      BY <1>1, <2>1, <2>4, <3>1, <3>2 DEF TypeOK, hostVars
  <2>6. \A d \in Devices : pendingResult'[d] \in {pendingResult[d], "none"}
    BY <1>1, <2>2 DEF TypeOK
  <2>7. \A x \in Clients : \/ told'[x] = told[x] \/ told'[x] \notin {"approved", "rejected"}
                           \/ told'[x] = pendingResult[DeviceOf[x]]
    BY <1>1, <2>2 DEF TypeOK
  <2> QED
    BY <1>1, <2>1, <2>5, <2>6, <2>7, LedgerRests, FlightRests DEF AuthInv, hostVars
<1>4. ASSUME NEW i \in IPs, WindowEnds(i) PROVE AuthInv'
  <2>1. /\ attempts' = [attempts EXCEPT ![i] = 0]
        /\ UNCHANGED <<gui, authorized, pendingAuth, pendingResult, owner, sending, queue,
                       hostVars, pc, pollers, budget, histVars>>
    BY <1>4 DEF WindowEnds
  <2>2. TypeOK'
    BY <1>1, <2>1 DEF TypeOK, hostVars, histVars
  <2> QED
    BY <1>1, <2>1, <2>2, LedgerRests, FlightRests DEF AuthInv, hostVars, histVars
<1>5. ASSUME NEW d \in Devices, RevokeDevice(d) PROVE AuthInv'
  <2>1. /\ authorized' = authorized \ {d} /\ withdrawn' = withdrawn \cup ApprovalsOf(d)
        /\ UNCHANGED <<gui, pendingAuth, pendingResult, attempts, owner, sending, queue,
                       hostVars, pc, pollers, budget, decision, waiting, told>>
    BY <1>5 DEF RevokeDevice
  <2>2. ApprovalsOf(d) \subseteq Requests
    BY <1>1, Numbered DEF ApprovalsOf
  <2>3. TypeOK'
    BY <1>1, <2>1, <2>2 DEF TypeOK, hostVars
  <2> QED
    BY <1>1, <2>1, <2>3, LedgerRests, FlightRests DEF AuthInv, hostVars
<1> QED
  BY <1>2, <1>3, <1>4, <1>5

-----------------------------------------------------------------------------
(* A new request: its device has none in flight.                             *)
LEMMA NewRequestKeeps ==
  ASSUME AuthInv, NEW d \in Devices, pendingAuth[d] = 0, Len(owner) + 1 <= MaxRequests,
         owner' = Append(owner, d),
         pendingAuth' = [pendingAuth EXCEPT ![d] = Len(owner) + 1],
         sending' = sending \cup {Len(owner) + 1},
         UNCHANGED <<authorized, pendingResult, queue, hostVars, decision>>,
         \A c \in Clients : told'[c] = told[c] \/ told'[c] \notin {"approved", "rejected"}
  PROVE  /\ owner' \in Seq(Devices) /\ Len(owner') <= MaxRequests
         /\ pendingAuth' \in [Devices -> {0} \cup Requests]
         /\ sending' \in SUBSET Requests
         /\ Ledger' /\ Flight'
<1> DEFINE n == Len(owner) + 1
<1>1. TypeOK /\ Ledger /\ Flight
  BY DEF AuthInv
<1>2. Len(owner) \in Nat /\ n \in Requests /\ n \notin 1..Len(owner) /\ 1..Len(owner) \subseteq Requests
  BY <1>1, Numbered DEF Requests
<1>3. /\ owner' \in Seq(Devices) /\ Len(owner') = n /\ owner'[n] = d
      /\ \A r \in 1..Len(owner) : owner'[r] = owner[r]
  BY <1>1, AppendProperties DEF TypeOK
<1>4. 1..Len(owner') = 1..Len(owner) \cup {n}
  BY <1>2, <1>3
<1> HIDE DEF n
<1>5. pendingAuth' \in [Devices -> {0} \cup Requests]
  BY <1>1, <1>2 DEF TypeOK, n
<1>6. \A e \in Devices : pendingAuth'[e] = IF e = d THEN n ELSE pendingAuth[e]
  BY <1>1 DEF TypeOK, n
<1>7. sending' \in SUBSET Requests
  BY <1>1, <1>2 DEF TypeOK, n
<1>8. \A e, v : Decided(e, v) => (\E r \in 1..Len(owner') : owner'[r] = e /\ decision[r] = v)
  BY <1>3, <1>4 DEF Decided
<1>9. Ledger'
  <2>1. armed' \cup fired' \subseteq 1..Len(owner')
    BY <1>1, <1>4 DEF Ledger, hostVars
  <2>2. \A r \in Requests : r > Len(owner') => decision'[r] = "none"
    BY <1>1, <1>2, <1>3 DEF Ledger, Requests, n
  <2>3. decision[n] = "none"
    BY <1>1, <1>2 DEF Ledger, Requests, n
  <2>4. ASSUME NEW e \in Devices, pendingAuth'[e] # 0
        PROVE  /\ pendingAuth'[e] \in 1..Len(owner')
               /\ owner'[pendingAuth'[e]] = e /\ decision'[pendingAuth'[e]] = "none"
    BY <1>1, <1>3, <1>4, <1>6, <2>3, <2>4 DEF Ledger
  <2>5. \A e \in Devices : pendingResult[e] # "none" => Decided(e, pendingResult[e])
    BY <1>1 DEF Ledger
  <2>6. \A e \in Devices : pendingResult'[e] # "none" => Decided(e, pendingResult[e])'
    BY <1>8, <2>5 DEF Decided
  <2>7. ASSUME NEW c \in Clients, told'[c] \in {"approved", "rejected"}
        PROVE  Decided(DeviceOf[c], told[c])'
    <3>1. told'[c] = told[c] /\ Decided(DeviceOf[c], told[c])
      BY <1>1, <2>7 DEF Ledger
    <3> QED
      BY <1>8, <3>1 DEF Decided
  <2> QED
    BY <2>1, <2>2, <2>4, <2>6, <2>7 DEF Ledger
<1>10. UNCHANGED <<queue, prompts, dialogs>>
  BY DEF hostVars
<1>11. Flight'
  <2>1. Shown' = Shown /\ Range(queue)' = Range(queue) /\ IsInjective(queue)'
    BY <1>1, <1>10 DEF Shown, Flight
  <2>2. sending' = sending \cup {n}
    BY DEF n
  <2>3. n \notin Flying
    BY <1>1, <1>2 DEF Flight
  <2>4. Apart'
    BY <1>1, <1>10, <2>1, <2>2, <2>3 DEF Flight, Apart, Flying
  <2>5. Flying' = Flying \cup {n}
    BY <1>10, <2>1, <2>2 DEF Flying
  <2>6. ASSUME NEW r \in Flying PROVE r \in 1..Len(owner) /\ owner[r] # d /\ pendingAuth[owner[r]] = r
    <3>1. r \in 1..Len(owner) /\ pendingAuth[owner[r]] = r
      BY <1>1 DEF Flight
    <3> QED
      BY <3>1
  <2>7. \A r \in Flying' : r \in 1..Len(owner') /\ pendingAuth'[owner'[r]] = r
    BY <1>1, <1>3, <1>4, <1>6, <2>5, <2>6, Numbered
  <2>8. ASSUME NEW e \in Devices, prompts'[e] # 0 PROVE owner'[prompts'[e]] = e
    <3>1. prompts[e] \in Flying /\ owner[prompts[e]] = e
      BY <1>1, <1>10, <2>8 DEF Flying, Shown, Flight
    <3> QED
      BY <1>3, <1>10, <2>6, <3>1
  <2> QED
    BY <2>1, <2>4, <2>7, <2>8 DEF Flight
<1> QED
  BY <1>3, <1>5, <1>7, <1>9, <1>11 DEF n

LEMMA RequestKeeps ==
  ASSUME AuthInv, NEW c \in Clients, RequestAuthorization(c)
  PROVE  AuthInv'
<1> DEFINE d == DeviceOf[c]
<1>1. TypeOK /\ Ledger /\ Flight
  BY DEF AuthInv
<1>2. /\ pc' = [pc EXCEPT ![c] = "idle"]
      /\ UNCHANGED <<gui, authorized, pendingResult, queue, hostVars, budget, decision,
                     withdrawn>>
  BY DEF RequestAuthorization
<1>3. d \in Devices /\ IpOf[c] \in IPs
  OBVIOUS
<1>4. PICK a \in {"failed", "pending"} : told' = [told EXCEPT ![c] = a]
  BY DEF RequestAuthorization, AnswerPending, Answer
<1>5. told' \in [Clients -> Answers] /\ \A x \in Clients : told'[x] \in {told[x], "failed", "pending"}
  BY <1>1, <1>4 DEF TypeOK, Answers
<1>6. /\ \/ UNCHANGED <<pollers, waiting>>
         \/ /\ pollers' = [pollers EXCEPT ![c] = @ + 1]
            /\ \E r \in {0} \cup Requests : waiting' = [waiting EXCEPT ![c] = r]
  <2>1. waiting[c] \in {0} \cup Requests /\ pendingAuth[d] \in {0} \cup Requests
    BY <1>1, <1>3 DEF TypeOK
  <2>2. Len(owner) + 1 <= MaxRequests => Len(owner) + 1 \in Requests
    BY <1>1 DEF TypeOK, Requests
  <2> QED
    BY <2>1, <2>2 DEF RequestAuthorization, AnswerPending
<1>7. pollers' \in [Clients -> Nat] /\ waiting' \in [Clients -> {0} \cup Requests]
  <2>1. pollers \in [Clients -> Nat] /\ waiting \in [Clients -> {0} \cup Requests]
    BY <1>1 DEF TypeOK
  <2>2. pollers' \in [Clients -> Nat]
    BY <1>6, <2>1
  <2>3. waiting' \in [Clients -> {0} \cup Requests]
    BY <1>6, <2>1
  <2> QED
    BY <2>2, <2>3
<1>8. pc' \in [Clients -> {"idle", "requesting", "checking"}]
  BY <1>1, <1>2 DEF TypeOK
<1>9. CASE UNCHANGED <<pendingAuth, attempts, owner, sending>>
  <2>1. TypeOK'
    BY <1>1, <1>2, <1>5, <1>7, <1>8, <1>9 DEF TypeOK, hostVars
  <2> QED
    BY <1>1, <1>2, <1>5, <1>9, <2>1, LedgerRests, FlightRests DEF AuthInv, hostVars
<1>10. CASE /\ attempts[IpOf[c]] < MaxAttempts
            /\ ~NothingToAsk(d) /\ Len(owner) + 1 <= MaxRequests
            /\ attempts' = [attempts EXCEPT ![IpOf[c]] = @ + 1]
            /\ owner' = Append(owner, d)
            /\ pendingAuth' = [pendingAuth EXCEPT ![d] = Len(owner) + 1]
            /\ sending' = sending \cup {Len(owner) + 1}
  <2>1. pendingAuth[d] = 0
    BY <1>10 DEF NothingToAsk
  <2> HIDE DEF d
  <2>2. /\ owner' \in Seq(Devices) /\ Len(owner') <= MaxRequests
        /\ pendingAuth' \in [Devices -> {0} \cup Requests]
        /\ sending' \in SUBSET Requests
        /\ Ledger' /\ Flight'
    BY <1>2, <1>3, <1>5, <1>10, <2>1, NewRequestKeeps
  <2>3. attempts' \in [IPs -> 0..MaxAttempts]
    BY <1>1, <1>3, <1>10 DEF TypeOK
  <2>4. TypeOK'
    BY <1>1, <1>2, <1>5, <1>7, <1>8, <2>2, <2>3 DEF TypeOK, hostVars
  <2> QED
    BY <2>2, <2>4 DEF AuthInv
<1> QED
  BY <1>9, <1>10 DEF RequestAuthorization

-----------------------------------------------------------------------------
(* The way to the operator.                                                  *)
LEMMA SendKeeps ==
  ASSUME AuthInv, NEW r \in sending, SendRequest(r)
  PROVE  AuthInv'
<1>1. TypeOK /\ Ledger /\ Flight
  BY DEF AuthInv
<1>2. /\ sending' = sending \ {r}
      /\ queue' = queue \/ (Len(queue) < ChanCap /\ queue' = Append(queue, r))
      /\ UNCHANGED <<gui, authorized, pendingAuth, pendingResult, attempts, owner,
                     hostVars, pc, pollers, budget, histVars>>
  BY DEF SendRequest
<1>3. UNCHANGED <<owner, pendingAuth, prompts, dialogs, decision, told, armed, fired,
                  authorized, pendingResult>>
  BY <1>2 DEF hostVars, histVars
<1>4. r \in Requests /\ r \notin Range(queue) /\ r \notin Shown /\ r \notin dialogs
  BY <1>1 DEF TypeOK, Flight, Apart
<1>5. /\ queue' \in Seq(Requests) /\ Len(queue') <= ChanCap /\ IsInjective(queue')
      /\ Range(queue') = Range(queue) \/ Range(queue') = Range(queue) \cup {r}
  <2>1. CASE queue' = queue
    BY <1>1, <2>1 DEF TypeOK, Flight
  <2>2. CASE Len(queue) < ChanCap /\ queue' = Append(queue, r)
    <3>1. Len(queue) \in Nat /\ Len(queue) + 1 <= ChanCap
      BY <1>1, <2>2 DEF TypeOK
    <3> QED
      BY <1>1, <1>4, <2>2, <3>1, QueueAppends DEF TypeOK, Flight
  <2> QED
    BY <1>2, <2>1, <2>2
<1>6. TypeOK'
  BY <1>1, <1>2, <1>5 DEF TypeOK, hostVars, histVars
<1>7. Ledger'
  BY <1>1, <1>3, LedgerRests
<1>8. Shown' = Shown
  BY <1>3 DEF Shown
<1>9. Apart'
  BY <1>1, <1>2, <1>3, <1>4, <1>5, <1>8 DEF Flight, Apart
<1>10. Flying' \subseteq Flying
  BY <1>2, <1>3, <1>5, <1>8 DEF Flying
<1>11. IsInjective(queue)'
  BY <1>5
<1>12. Flight'
  BY <1>1, <1>3, <1>9, <1>10, <1>11, FlightMoves
<1> QED
  BY <1>6, <1>7, <1>12 DEF AuthInv

LEMMA ShowKeeps == ASSUME AuthInv, ShowRequest PROVE AuthInv'
<1> DEFINE r == Head(queue)
<1>1. TypeOK /\ Ledger /\ Flight
  BY DEF AuthInv
<1>2. /\ queue # <<>> /\ queue' = Tail(queue)
      /\ \/ dialogs' = dialogs \cup {r} /\ UNCHANGED <<prompts, armed>>
         \/ /\ prompts' = [prompts EXCEPT ![owner[r]] = r]
            /\ armed' = armed \cup {r} /\ UNCHANGED dialogs
      /\ UNCHANGED <<gui, authorized, pendingAuth, pendingResult, attempts, owner,
                     sending, fired, pc, pollers, budget, histVars>>
  BY DEF ShowRequest
<1>3. /\ queue' \in Seq(Requests) /\ Len(queue') <= ChanCap /\ r \in Requests /\ r \in Range(queue)
      /\ Range(queue') = Range(queue) \ {r} /\ IsInjective(queue')
  <2>1. /\ queue' \in Seq(Requests) /\ Len(queue') = Len(queue) - 1 /\ Len(queue) \in Nat
        /\ r \in Requests /\ r \in Range(queue)
        /\ Range(queue') = Range(queue) \ {r} /\ IsInjective(queue')
    BY <1>1, <1>2, QueueTails DEF TypeOK, Flight
  <2> QED
    BY <1>1, <2>1 DEF TypeOK
<1> HIDE DEF r
<1>4. r \in 1..Len(owner) /\ owner[r] \in Devices /\ pendingAuth[owner[r]] = r
      /\ r \notin sending /\ r \notin Shown /\ r \notin dialogs /\ r # 0
  BY <1>1, <1>3, Numbered DEF Flight, Flying, Apart
<1>5. UNCHANGED <<owner, pendingAuth, sending, decision, told, fired, authorized, pendingResult>>
  BY <1>2 DEF histVars
<1>6. Ledger'
  <2>1. armed' \cup fired' \subseteq armed \cup fired \cup 1..Len(owner)
    BY <1>2, <1>4, <1>5
  <2> QED
    BY <1>1, <1>5, <2>1, LedgerRests
<1>7. IsInjective(queue)'
  BY <1>3
<1>8. CASE dialogs' = dialogs \cup {r} /\ UNCHANGED <<prompts, armed>>
  <2>1. TypeOK'
    BY <1>1, <1>2, <1>3, <1>8 DEF TypeOK, histVars
  <2>2. Shown' = Shown
    BY <1>8 DEF Shown
  <2>3. Apart'
    BY <1>1, <1>3, <1>4, <1>5, <1>8, <2>2 DEF Flight, Apart
  <2>4. Flying' \subseteq Flying
    BY <1>3, <1>5, <1>8, <2>2 DEF Flying
  <2>5. Flight'
    BY <1>1, <1>5, <1>7, <1>8, <2>3, <2>4, FlightMoves
  <2> QED
    BY <1>6, <2>1, <2>5 DEF AuthInv
<1>9. CASE /\ prompts' = [prompts EXCEPT ![owner[r]] = r]
           /\ armed' = armed \cup {r} /\ UNCHANGED dialogs
  <2>1. prompts' \in [Devices -> {0} \cup Requests] /\ armed' \in SUBSET Requests
    BY <1>1, <1>3, <1>4, <1>9 DEF TypeOK
  <2>2. TypeOK'
    BY <1>1, <1>2, <1>3, <1>9, <2>1 DEF TypeOK, histVars
  <2>3. \A d \in Devices : prompts'[d] = IF d = owner[r] THEN r ELSE prompts[d]
    BY <1>1, <1>9 DEF TypeOK
  <2>4. Shown' \subseteq Shown \cup {r}
    BY <2>3 DEF Shown
  <2>5. Apart'
    BY <1>1, <1>3, <1>4, <1>5, <1>9, <2>4 DEF Flight, Apart
  <2>6. Flying' \subseteq Flying
    BY <1>3, <1>5, <1>9, <2>4 DEF Flying
  <2>7. \A d \in Devices : prompts'[d] # 0 => owner'[prompts'[d]] = d
    BY <1>1, <1>5, <2>3 DEF Flight
  <2>8. \A x \in Flying' : x \in 1..Len(owner') /\ pendingAuth'[owner'[x]] = x
    BY <1>1, <1>5, <2>6 DEF Flight
  <2> QED
    BY <1>6, <1>7, <2>2, <2>5, <2>7, <2>8 DEF AuthInv, Flight
<1> QED
  BY <1>2, <1>8, <1>9

(* A timer of the console fires.                                             *)
LEMMA FiresKeeps ==
  ASSUME AuthInv, NEW r \in Requests, TimerFires(r)
  PROVE  AuthInv'
<1>1. TypeOK /\ Ledger /\ Flight
  BY DEF AuthInv
<1>2. /\ r \in armed /\ armed' = armed \ {r} /\ fired' = fired \cup {r}
      /\ UNCHANGED <<gui, authorized, pendingAuth, pendingResult, attempts, owner,
                     sending, queue, prompts, dialogs, pc, pollers, budget, histVars>>
  BY DEF TimerFires
<1>3. TypeOK'
  BY <1>1, <1>2 DEF TypeOK, histVars
<1>4. Ledger'
  BY <1>1, <1>2, LedgerRests DEF histVars
<1>5. Flight'
  BY <1>1, <1>2, FlightRests
<1> QED
  BY <1>3, <1>4, <1>5 DEF AuthInv

-----------------------------------------------------------------------------
(* A decision, from the screen of the console or from a dialog: it meets the *)
(* request it was asked about, which leaves no other of its device behind.   *)
LEMMA DecisionKeeps ==
  ASSUME AuthInv, NEW d \in Devices, NEW approved \in BOOLEAN, NEW p \in Requests,
         RespondToAuthRequest(d, approved),
         UNCHANGED <<gui, attempts, owner, sending, queue, pc, pollers, budget, withdrawn, waiting, told>>,
         armed' \subseteq armed, fired' \subseteq fired,
         \/ p = prompts[d] /\ prompts' = [prompts EXCEPT ![d] = 0] /\ UNCHANGED dialogs
         \/ p \in dialogs /\ owner[p] = d /\ dialogs' = dialogs \ {p} /\ UNCHANGED prompts
  PROVE  AuthInv'
<1>1. TypeOK /\ Ledger /\ Flight
  BY DEF AuthInv
<1>2. armed' \cup fired' \subseteq 1..Len(owner)
  BY <1>1 DEF Ledger
<1>3. /\ authorized' \in SUBSET Devices
      /\ pendingAuth' \in [Devices -> {0} \cup Requests]
      /\ \A e \in Devices : pendingAuth'[e] = IF e = d THEN 0 ELSE pendingAuth[e]
      /\ pendingResult' \in [Devices -> Results]
      /\ decision' \in [Requests -> Results]
      /\ Ledger'
  BY <1>1, <1>2, RespondDoes
<1>4. prompts' \in [Devices -> {0} \cup Requests] /\ dialogs' \in SUBSET Requests
  BY <1>1 DEF TypeOK
<1>5. TypeOK'
  <2>1. armed' \in SUBSET Requests /\ fired' \in SUBSET Requests
    BY <1>1 DEF TypeOK
  <2> QED
    BY <1>1, <1>3, <1>4, <2>1 DEF TypeOK
<1>6. p # 0 /\ p \in Flying /\ owner[p] = d
  <2>1. p # 0
    BY DEF Requests
  <2>2. CASE p = prompts[d]
    BY <1>1, <2>1, <2>2 DEF Flying, Shown, Flight
  <2>3. CASE p \in dialogs /\ owner[p] = d
    BY <2>1, <2>3 DEF Flying
  <2> QED
    BY <2>2, <2>3
<1>7. Shown' \subseteq Shown /\ dialogs' \subseteq dialogs /\ p \notin Shown' \cup dialogs'
  <2>1. CASE p = prompts[d] /\ prompts' = [prompts EXCEPT ![d] = 0] /\ UNCHANGED dialogs
    <3>1. \A e \in Devices : prompts'[e] = IF e = d THEN 0 ELSE prompts[e]
      BY <1>1, <2>1 DEF TypeOK
    <3>2. \A e \in Devices \ {d} : prompts[e] # p
      BY <1>1, <1>6 DEF Flight
    <3>3. Shown' \subseteq Shown /\ p \notin Shown'
      BY <1>6, <3>1, <3>2 DEF Shown
    <3>4. p \in Shown
      BY <1>6, <2>1 DEF Shown
    <3> QED
      BY <1>1, <2>1, <3>3, <3>4 DEF Flight, Apart
  <2>2. CASE p \in dialogs /\ dialogs' = dialogs \ {p} /\ UNCHANGED prompts
    <3>1. Shown' = Shown
      BY <2>2 DEF Shown
    <3> QED
      BY <1>1, <2>2, <3>1 DEF Flight, Apart
  <2> QED
    BY <2>1, <2>2
<1>8. p \notin sending /\ p \notin Range(queue)
  <2>1. p \in Shown \cup dialogs
    BY <1>6 DEF Shown
  <2> QED
    BY <1>1, <2>1 DEF Flight, Apart
<1>9. Flying' \subseteq Flying \ {p}
  BY <1>7, <1>8 DEF Flying
<1>10. Apart'
  BY <1>1, <1>7 DEF Flight, Apart
<1>11. ASSUME NEW r \in Flying'
       PROVE  r \in 1..Len(owner') /\ pendingAuth'[owner'[r]] = r
  <2>1. r \in Flying /\ r # p
    BY <1>9
  <2>2. r \in 1..Len(owner) /\ pendingAuth[owner[r]] = r /\ pendingAuth[d] = p
    BY <1>1, <1>6, <2>1 DEF Flight
  <2>3. owner[r] \in Devices /\ owner[r] # d
    BY <1>1, <2>1, <2>2, Numbered
  <2> QED
    BY <1>3, <2>2, <2>3
<1>12. \A e \in Devices : prompts'[e] # 0 => owner'[prompts'[e]] = e
  <2>1. \A e \in Devices : prompts'[e] \in {0, prompts[e]}
    BY <1>1 DEF TypeOK
  <2> QED
    BY <1>1, <2>1 DEF Flight
<1>13. IsInjective(queue)'
  BY <1>1 DEF Flight
<1>14. Flight'
  BY <1>10, <1>11, <1>12, <1>13 DEF Flight
<1> QED
  BY <1>3, <1>5, <1>14 DEF AuthInv

LEMMA OperatorKeeps ==
  ASSUME AuthInv,
         \/ \E b \in BOOLEAN : ProcessAuthResponse(b)
         \/ \E r \in dialogs, b \in BOOLEAN : AnswerDialog(r, b)
         \/ \E r \in Requests : TimerExpires(r)
  PROVE  AuthInv'
<1>1. TypeOK /\ Ledger /\ Flight
  BY DEF AuthInv
<1>2. ASSUME NEW b \in BOOLEAN, ProcessAuthResponse(b) PROVE AuthInv'
  <2>1. Latest \in Devices /\ prompts[Latest] \in Requests
    BY <1>1, <1>2, LatestIsShown DEF ProcessAuthResponse, TypeOK
  <2>2. /\ RespondToAuthRequest(Latest, b)
        /\ prompts' = [prompts EXCEPT ![Latest] = 0] /\ armed' \subseteq armed
        /\ UNCHANGED <<gui, attempts, owner, sending, queue, fired, dialogs, pc, pollers,
                       budget, withdrawn, waiting, told>>
    BY <1>2 DEF ProcessAuthResponse
  <2> DEFINE d == Latest
             p == prompts[Latest]
  <2>3. d \in Devices /\ p \in Requests /\ p = prompts[d] /\ RespondToAuthRequest(d, b)
        /\ prompts' = [prompts EXCEPT ![d] = 0]
    BY <2>1, <2>2
  <2> HIDE DEF d, p
  <2> QED
    BY <2>2, <2>3, DecisionKeeps
<1>3. ASSUME NEW r \in dialogs, NEW b \in BOOLEAN, AnswerDialog(r, b) PROVE AuthInv'
  <2>1. r \in Requests /\ owner[r] \in Devices
    BY <1>1, Numbered DEF TypeOK, Flight, Flying
  <2>2. /\ RespondToAuthRequest(owner[r], b) /\ dialogs' = dialogs \ {r}
        /\ UNCHANGED <<gui, attempts, owner, sending, queue, prompts, armed, fired, pc,
                       pollers, budget, withdrawn, waiting, told>>
    BY <1>3 DEF AnswerDialog
  <2> QED
    BY <2>1, <2>2, DecisionKeeps
<1>4. ASSUME NEW r \in Requests, TimerExpires(r) PROVE AuthInv'
  <2> DEFINE d == owner[r]
             p == prompts[d]
  <2>1. d \in Devices /\ p \in {0} \cup Requests
    BY <1>1, <1>4, Numbered DEF TimerExpires, Ledger, TypeOK
  <2>2. /\ fired' = fired \ {r}
        /\ UNCHANGED <<gui, attempts, owner, sending, queue, armed, dialogs, pc, pollers,
                       budget, withdrawn, waiting, told>>
    BY <1>4 DEF TimerExpires
  <2>3. CASE p # 0
    <3>1. RespondToAuthRequest(d, FALSE) /\ prompts' = [prompts EXCEPT ![d] = 0]
      BY <1>4, <2>3 DEF TimerExpires
    <3>2. p \in Requests /\ p = prompts[d] /\ FALSE \in BOOLEAN
      BY <2>1, <2>3
    <3> HIDE DEF d, p
    <3> QED
      BY <2>1, <2>2, <3>1, <3>2, DecisionKeeps
  <2>4. CASE p = 0
    <3>1. UNCHANGED <<authorized, pendingAuth, pendingResult, decision, prompts>>
      BY <1>4, <2>4 DEF TimerExpires
    <3>2. TypeOK'
      BY <1>1, <2>2, <3>1 DEF TypeOK
    <3> QED
      BY <1>1, <2>2, <3>1, <3>2, LedgerRests, FlightRests DEF AuthInv
  <2> QED
    BY <2>3, <2>4
<1> QED
  BY <1>2, <1>3, <1>4

LEMMA AuthStep == AuthInv /\ [Next]_vars => AuthInv'
<1>1. AuthInv /\ UNCHANGED vars => AuthInv'
  <2> SUFFICES ASSUME AuthInv, UNCHANGED vars PROVE AuthInv'
    OBVIOUS
  <2>1. UNCHANGED <<gui, authorized, pendingAuth, pendingResult, attempts, owner, sending, queue,
                    prompts, armed, fired, dialogs, pc, pollers, budget, decision, withdrawn, waiting, told>>
    BY DEF vars, hostVars, histVars
  <2>2. TypeOK'
    BY <2>1 DEF AuthInv, TypeOK
  <2> QED
    BY <2>1, <2>2, LedgerRests, FlightRests DEF AuthInv
<1> QED
  BY <1>1, QuietKeeps, RequestKeeps, SendKeeps, ShowKeeps, FiresKeeps, OperatorKeeps
     DEF Next, Expire

LEMMA AuthInvariant == Spec => []AuthInv
BY AuthInitially, AuthStep, PTL DEF Spec

-----------------------------------------------------------------------------
(* The type invariant. *)
THEOREM AuthTypes == Spec => []TypeOK
<1>1. AuthInv => TypeOK
  BY DEF AuthInv
<1> QED
  BY AuthInvariant, <1>1, PTL

LEMMA StagesAre ==
  /\ Stages[1] = sending /\ Stages[2] = Range(queue) /\ Stages[3] = Shown /\ Stages[4] = dialogs
BY DEF Stages

(* A request on its way to the operator is the pending request of its device *)
(* and is in one place: an answer always finds the request it is meant for.  *)
THEOREM RequestsInFlightArePending == Spec => []InFlightIsPending
<1>1. AuthInv => InFlightIsPending
  <2> SUFFICES ASSUME AuthInv PROVE InFlightIsPending
    OBVIOUS
  <2>1. TypeOK /\ Ledger /\ Flight
    BY DEF AuthInv
  <2>2. \A i \in 1..4 : i = 1 \/ i = 2 \/ i = 3 \/ i = 4
    OBVIOUS
  <2>3. ASSUME NEW r \in Requests, InFlight(r)
        PROVE  /\ r <= Len(owner) /\ pendingAuth[owner[r]] = r /\ decision[r] = "none"
    <3>1. r \in Flying
      BY <2>2, <2>3, StagesAre DEF InFlight, Flying
    <3>2. r \in 1..Len(owner) /\ pendingAuth[owner[r]] = r /\ owner[r] \in Devices /\ r # 0
      BY <2>1, <3>1, Numbered DEF Flight, Requests
    <3> QED
      BY <2>1, <3>2 DEF Ledger
  <2>4. ASSUME NEW r \in Requests, NEW i \in 1..4, NEW j \in 1..4, r \in Stages[i] \cap Stages[j]
        PROVE  i = j
    BY <2>1, <2>2, <2>4, StagesAre DEF Flight, Apart
  <2> QED
    BY <2>1, <2>3, <2>4 DEF InFlightIsPending, Flight
<1> QED
  BY AuthInvariant, <1>1, PTL

-----------------------------------------------------------------------------
(* Trust.  Only decided requests have been withdrawn, so that an approval is *)
(* never withdrawn before it is given.                                       *)
Standing ==
  /\ \A r \in withdrawn : decision[r] # "none"
  /\ TrustIsApproved

LEMMA StandingRests ==
  ASSUME Standing, UNCHANGED <<authorized, owner, decision, withdrawn>>
  PROVE  Standing'
BY DEF Standing, TrustIsApproved, ApprovalsOf

LEMMA NewRequestStands ==
  ASSUME TypeOK, Ledger, Standing, NEW d, owner' = Append(owner, d), d \in Devices,
         Len(owner) + 1 <= MaxRequests, UNCHANGED <<authorized, decision, withdrawn>>
  PROVE  Standing'
<1>1. Len(owner) \in Nat /\ Len(owner) + 1 \in Requests /\ owner \in Seq(Devices)
  BY Numbered DEF TypeOK, Requests
<1>2. decision[Len(owner) + 1] = "none"
  BY <1>1 DEF Ledger
<1>3. Len(owner') = Len(owner) + 1 /\ \A r \in 1..Len(owner) : owner'[r] = owner[r]
  BY <1>1, AppendProperties
<1>4. 1..Len(owner') = 1..Len(owner) \cup {Len(owner) + 1}
  BY <1>1, <1>3
<1>5. ASSUME NEW e PROVE ApprovalsOf(e)' = ApprovalsOf(e)
  BY <1>2, <1>3, <1>4 DEF ApprovalsOf
<1> QED
  BY <1>5 DEF Standing, TrustIsApproved

LEMMA DecisionStands ==
  ASSUME TypeOK, Ledger, Standing, NEW d \in Devices, NEW approved \in BOOLEAN,
         RespondToAuthRequest(d, approved), UNCHANGED <<owner, withdrawn>>
  PROVE  Standing'
<1>1. CASE pendingAuth[d] = 0
  BY <1>1, StandingRests DEF RespondToAuthRequest
<1>2. CASE pendingAuth[d] # 0
  <2> DEFINE p == pendingAuth[d]
             v == IF approved THEN "approved" ELSE "rejected"
  <2>1. /\ authorized' = IF approved THEN authorized \cup {d} ELSE authorized
        /\ decision' = [decision EXCEPT ![p] = v]
    BY <1>2 DEF RespondToAuthRequest
  <2>2. v # "none" /\ (v = "approved" <=> approved)
    OBVIOUS
  <2>3. p \in 1..Len(owner) /\ p \in Requests /\ owner[p] = d /\ decision[p] = "none"
    BY <1>2, Numbered DEF Ledger
  <2> HIDE DEF p, v
  <2>4. decision'[p] = v /\ \A r \in Requests \ {p} : decision'[r] = decision[r]
    BY <2>1, <2>3 DEF TypeOK
  <2>5. p \notin withdrawn /\ withdrawn \subseteq Requests
    BY <2>3 DEF Standing, TypeOK
  <2>6. \A r \in withdrawn : decision'[r] # "none"
    BY <2>4, <2>5 DEF Standing
  <2>7. ASSUME NEW e \in Devices, e # d PROVE ApprovalsOf(e)' = ApprovalsOf(e)
    BY <2>3, <2>4, <2>7, Numbered DEF ApprovalsOf
  <2>8. ApprovalsOf(d)' = IF approved THEN ApprovalsOf(d) \cup {p} ELSE ApprovalsOf(d)
    BY <2>2, <2>3, <2>4, Numbered DEF ApprovalsOf
  <2>9. ASSUME NEW e \in Devices
        PROVE  e \in authorized' <=> ApprovalsOf(e)' \ withdrawn # {}
    <3>1. e \in authorized <=> ApprovalsOf(e) \ withdrawn # {}
      BY DEF Standing, TrustIsApproved
    <3>2. CASE e # d
      BY <2>1, <2>7, <3>1, <3>2
    <3>3. CASE e = d /\ approved
      BY <2>1, <2>5, <2>8, <3>3
    <3>4. CASE e = d /\ ~approved
      BY <2>1, <2>8, <3>1, <3>4
    <3> QED
      BY <3>2, <3>3, <3>4
  <2> QED
    BY <2>6, <2>9 DEF Standing, TrustIsApproved
<1> QED
  BY <1>1, <1>2

LEMMA RevocationStands ==
  ASSUME TypeOK, Standing, NEW d \in Devices, RevokeDevice(d)
  PROVE  Standing'
<1>1. /\ authorized' = authorized \ {d} /\ withdrawn' = withdrawn \cup ApprovalsOf(d)
      /\ UNCHANGED <<owner, decision>>
  BY DEF RevokeDevice
<1>2. \A e : ApprovalsOf(e)' = ApprovalsOf(e)
  BY <1>1 DEF ApprovalsOf
<1>3. \A e \in Devices \ {d} : ApprovalsOf(e) \cap ApprovalsOf(d) = {}
  BY DEF ApprovalsOf
<1>4. \A r \in withdrawn' : decision'[r] # "none"
  BY <1>1 DEF Standing, ApprovalsOf
<1>5. ASSUME NEW e \in Devices
      PROVE  e \in authorized' <=> ApprovalsOf(e) \ withdrawn' # {}
  <2>1. e \in authorized <=> ApprovalsOf(e) \ withdrawn # {}
    BY DEF Standing, TrustIsApproved
  <2>2. CASE e = d
    BY <1>1, <2>2
  <2>3. CASE e # d
    BY <1>1, <1>3, <2>1, <2>3
  <2> QED
    BY <2>2, <2>3
<1> QED
  BY <1>2, <1>4, <1>5 DEF Standing, TrustIsApproved

LEMMA StandingStep == AuthInv /\ Standing /\ [Next]_vars => Standing'
<1> SUFFICES ASSUME AuthInv, Standing, [Next]_vars PROVE Standing'
  OBVIOUS
<1>1. TypeOK /\ Ledger /\ Flight
  BY DEF AuthInv
<1>2. ASSUME NEW c \in Clients,
             \/ HandleAuthRequest(c) \/ HandleAuthCheck(c) \/ CheckResult(c)
             \/ PollResult(c) \/ PollTimeout(c)
      PROVE  Standing'
  BY <1>2, StandingRests
     DEF HandleAuthRequest, HandleAuthCheck, Handle, CheckResult, PollResult, PollTimeout
<1>3. ASSUME NEW c \in Clients, RequestAuthorization(c) PROVE Standing'
  <2>1. UNCHANGED <<authorized, decision, withdrawn>> /\ DeviceOf[c] \in Devices
    BY <1>3 DEF RequestAuthorization
  <2>2. CASE UNCHANGED owner
    BY <2>1, <2>2, StandingRests
  <2>3. CASE owner' = Append(owner, DeviceOf[c]) /\ Len(owner) + 1 <= MaxRequests
    BY <1>1, <2>1, <2>3, NewRequestStands
  <2> QED
    BY <1>3, <2>2, <2>3 DEF RequestAuthorization
<1>4. ASSUME \/ \E i \in IPs : WindowEnds(i)
             \/ \E r \in sending : SendRequest(r)
             \/ ShowRequest
             \/ \E r \in Requests : TimerFires(r)
      PROVE  Standing'
  <2>1. UNCHANGED <<authorized, owner, histVars>>
    BY <1>4 DEF WindowEnds, SendRequest, ShowRequest, TimerFires
  <2> QED
    BY <2>1, StandingRests DEF histVars
<1>5. ASSUME NEW b \in BOOLEAN, ProcessAuthResponse(b) PROVE Standing'
  <2>1. Latest \in Devices
    BY <1>1, <1>5, LatestIsShown DEF ProcessAuthResponse, TypeOK
  <2>2. RespondToAuthRequest(Latest, b) /\ UNCHANGED <<owner, withdrawn>>
    BY <1>5 DEF ProcessAuthResponse
  <2> QED
    BY <1>1, <2>1, <2>2, DecisionStands
<1>6. ASSUME NEW r \in dialogs, NEW b \in BOOLEAN, AnswerDialog(r, b) PROVE Standing'
  <2>1. owner[r] \in Devices
    BY <1>1, Numbered DEF Flight, Flying
  <2>2. RespondToAuthRequest(owner[r], b) /\ UNCHANGED <<owner, withdrawn>>
    BY <1>6 DEF AnswerDialog
  <2> QED
    BY <1>1, <2>1, <2>2, DecisionStands
<1>7. ASSUME NEW r \in Requests, TimerExpires(r) PROVE Standing'
  <2>1. owner[r] \in Devices
    BY <1>1, <1>7, Numbered DEF TimerExpires, Ledger
  <2>2. UNCHANGED <<owner, withdrawn>>
    BY <1>7 DEF TimerExpires
  <2>3. CASE RespondToAuthRequest(owner[r], FALSE)
    BY <1>1, <2>1, <2>2, <2>3, DecisionStands
  <2>4. CASE UNCHANGED <<authorized, decision>>
    BY <2>2, <2>4, StandingRests
  <2> QED
    BY <1>7, <2>3, <2>4 DEF TimerExpires
<1>8. ASSUME NEW d \in Devices, RevokeDevice(d) PROVE Standing'
  BY <1>1, <1>8, RevocationStands
<1>9. CASE UNCHANGED vars
  BY <1>9, StandingRests DEF vars, histVars
<1> QED
  BY <1>2, <1>3, <1>4, <1>5, <1>6, <1>7, <1>8, <1>9 DEF Next, Expire

(* A device is trusted exactly as long as an approval of one of its own      *)
(* requests stands that no revocation followed.                              *)
THEOREM TrustIsEarned == Spec => []TrustIsApproved
<1>1. Init => Standing
  BY DEF Init, Standing, TrustIsApproved, ApprovalsOf
<1>2. Standing => TrustIsApproved
  BY DEF Standing
<1> QED
  BY AuthInvariant, StandingStep, <1>1, <1>2, PTL DEF Spec

(* A client told of a decision is told of one on its own device.             *)
THEOREM AnswersHaveDecisions == Spec => []AnswersAreBacked
<1>1. AuthInv => AnswersAreBacked
  BY DEF AuthInv, Ledger, Decided, AnswersAreBacked
<1> QED
  BY AuthInvariant, <1>1, PTL

-----------------------------------------------------------------------------
(* The way of a request, and the timers on it.  The invariant says that the  *)
(* way is clear in front of a request; here, that no step takes one off it   *)
(* but a decision on it, and the sender in front of a full channel.          *)
KeptOnItsWay ==
  \A r \in Flying :
    r \in Flying' \/ decision'[r] # "none" \/ (r \in sending /\ Len(queue) = ChanCap)

OnItsWay == PromptsHaveTimers' /\ KeptOnItsWay

LEMMA FlyingIs ==
  ASSUME NEW r, InFlight(r) PROVE r \in Flying
<1>1. \A i \in 1..4 : i = 1 \/ i = 2 \/ i = 3 \/ i = 4
  OBVIOUS
<1> QED
  BY <1>1, StagesAre DEF InFlight, Flying

(* Steps that leave channel, screen and timers alone.                        *)
LEMMA AsideOfTheWay ==
  ASSUME PromptsHaveTimers, UNCHANGED <<queue, prompts, armed, fired, dialogs>>,
         sending \subseteq sending'
  PROVE  OnItsWay
<1>1. PromptsHaveTimers'
  BY DEF PromptsHaveTimers
<1>2. Shown' = Shown /\ Range(queue)' = Range(queue)
  BY DEF Shown
<1>3. Flying \subseteq Flying'
  BY <1>2 DEF Flying
<1> QED
  BY <1>1, <1>3 DEF OnItsWay, KeptOnItsWay

LEMMA SentOnItsWay ==
  ASSUME AuthInv, PromptsHaveTimers, NEW r \in sending, SendRequest(r)
  PROVE  OnItsWay
<1>1. TypeOK /\ Flight
  BY DEF AuthInv
<1>2. /\ sending' = sending \ {r}
      /\ UNCHANGED <<prompts, armed, fired, dialogs, decision>>
      /\ IF Len(queue) < ChanCap THEN queue' = Append(queue, r) ELSE UNCHANGED queue
  BY DEF SendRequest, hostVars, histVars
<1>3. PromptsHaveTimers'
  BY <1>2 DEF PromptsHaveTimers
<1>4. Shown' = Shown
  BY <1>2 DEF Shown
<1>5. r \in Requests /\ r \notin Range(queue)
  BY <1>1 DEF TypeOK, Flight, Apart
<1>6. CASE Len(queue) < ChanCap
  <2>1. Range(queue') = Range(queue) \cup {r}
    BY <1>1, <1>2, <1>5, <1>6, QueueAppends DEF TypeOK, Flight
  <2>2. Flying \subseteq Flying'
    BY <1>2, <1>4, <2>1 DEF Flying
  <2> QED
    BY <1>3, <2>2 DEF OnItsWay, KeptOnItsWay
<1>7. CASE ~(Len(queue) < ChanCap)
  <2>1. Len(queue) = ChanCap
    <3>1. Len(queue) \in Nat /\ Len(queue) <= ChanCap
      BY <1>1, LenProperties DEF TypeOK
    <3> QED
      BY <1>7, <3>1
  <2>2. queue' = queue /\ Range(queue)' = Range(queue)
    BY <1>2, <1>7
  <2>3. \A x \in Flying : x # r => x \in Flying'
    BY <1>2, <1>4, <2>2 DEF Flying
  <2> QED
    BY <1>3, <2>1, <2>3 DEF OnItsWay, KeptOnItsWay
<1> QED
  BY <1>6, <1>7

(* The screen of the console is free for a request that is shown: whatever   *)
(* is there for its device would be the pending request too.                 *)
LEMMA ShownOnItsWay ==
  ASSUME AuthInv, PromptsHaveTimers, ShowRequest
  PROVE  OnItsWay
<1> DEFINE r == Head(queue)
<1>1. TypeOK /\ Flight
  BY DEF AuthInv
<1>2. /\ queue # <<>> /\ queue' = Tail(queue)
      /\ \/ dialogs' = dialogs \cup {r} /\ UNCHANGED <<prompts, armed>>
         \/ /\ prompts' = [prompts EXCEPT ![owner[r]] = r]
            /\ armed' = armed \cup {r} /\ UNCHANGED dialogs
      /\ UNCHANGED <<sending, fired, decision>>
  BY DEF ShowRequest, histVars
<1>3. r \in Requests /\ r \in Range(queue) /\ Range(queue') = Range(queue) \ {r}
  BY <1>1, <1>2, QueueTails DEF TypeOK, Flight
<1> HIDE DEF r
<1>4. r \in 1..Len(owner) /\ owner[r] \in Devices /\ pendingAuth[owner[r]] = r
      /\ r \notin Shown /\ r # 0
  BY <1>1, <1>3, Numbered DEF Flight, Flying, Apart
<1>5. CASE dialogs' = dialogs \cup {r} /\ UNCHANGED <<prompts, armed>>
  <2>1. Shown' = Shown
    BY <1>5 DEF Shown
  <2>2. Flying \subseteq Flying'
    BY <1>2, <1>3, <1>5, <2>1 DEF Flying
  <2>3. PromptsHaveTimers'
    BY <1>2, <1>5 DEF PromptsHaveTimers
  <2> QED
    BY <2>2, <2>3 DEF OnItsWay, KeptOnItsWay
<1>6. CASE /\ prompts' = [prompts EXCEPT ![owner[r]] = r]
           /\ armed' = armed \cup {r} /\ UNCHANGED dialogs
  <2>1. \A d \in Devices : prompts'[d] = IF d = owner[r] THEN r ELSE prompts[d]
    BY <1>1, <1>6 DEF TypeOK
  <2>2. prompts[owner[r]] = 0
    <3> SUFFICES ASSUME prompts[owner[r]] # 0 PROVE FALSE
      OBVIOUS
    <3>1. prompts[owner[r]] \in Shown
      BY <1>4 DEF Shown
    <3>2. owner[prompts[owner[r]]] = owner[r] /\ pendingAuth[owner[prompts[owner[r]]]] = prompts[owner[r]]
      BY <1>1, <1>4, <3>1 DEF Flight, Flying
    <3> QED
      BY <1>4, <3>1, <3>2
  <2>3. Shown \subseteq Shown' /\ r \in Shown'
    BY <1>4, <2>1, <2>2 DEF Shown
  <2>4. Flying \subseteq Flying'
    BY <1>2, <1>3, <1>6, <2>3 DEF Flying
  <2>5. PromptsHaveTimers'
    BY <1>2, <1>6, <2>1 DEF PromptsHaveTimers
  <2> QED
    BY <2>4, <2>5 DEF OnItsWay, KeptOnItsWay
<1> QED
  BY <1>2, <1>5, <1>6

LEMMA FiredOnItsWay ==
  ASSUME PromptsHaveTimers, NEW r \in Requests, TimerFires(r)
  PROVE  OnItsWay
<1>1. /\ armed' = armed \ {r} /\ fired' = fired \cup {r}
      /\ UNCHANGED <<sending, queue, prompts, dialogs>>
  BY DEF TimerFires
<1>2. PromptsHaveTimers'
  BY <1>1 DEF PromptsHaveTimers
<1>3. Shown' = Shown /\ Range(queue)' = Range(queue)
  BY <1>1 DEF Shown
<1>4. Flying \subseteq Flying'
  BY <1>1, <1>3 DEF Flying
<1> QED
  BY <1>2, <1>4 DEF OnItsWay, KeptOnItsWay

(* A decision: p is what the device is asked about, on the screen or in a    *)
(* dialog, and it is what RespondToAuthRequest decides.                      *)
LEMMA DecidedOnItsWay ==
  ASSUME AuthInv, PromptsHaveTimers, NEW d \in Devices, NEW approved \in BOOLEAN,
         NEW p \in Requests, RespondToAuthRequest(d, approved),
         UNCHANGED <<owner, sending, queue>>,
         \A r \in armed \cup fired : r \in armed' \cup fired' \/ owner[r] = d,
         \/ p = prompts[d] /\ prompts' = [prompts EXCEPT ![d] = 0] /\ UNCHANGED dialogs
         \/ /\ p \in dialogs /\ owner[p] = d /\ dialogs' = dialogs \ {p}
            /\ UNCHANGED <<prompts, armed, fired>>
  PROVE  OnItsWay
<1>1. TypeOK /\ Ledger /\ Flight
  BY DEF AuthInv
<1>2. p # 0
  BY DEF Requests
<1>3. p \in Flying /\ owner[p] = d
  BY <1>1, <1>2 DEF Flying, Shown, Flight
<1>4. pendingAuth[d] = p
  BY <1>1, <1>3 DEF Flight
<1>5. PICK v \in {"approved", "rejected"} : decision' = [decision EXCEPT ![p] = v]
  BY <1>2, <1>4 DEF RespondToAuthRequest
<1>6. decision'[p] # "none"
  BY <1>1, <1>5 DEF TypeOK
<1>7. \A e \in Devices : e # d => prompts'[e] = prompts[e]
  BY <1>1 DEF TypeOK
<1>8. PromptsHaveTimers'
  <2> SUFFICES ASSUME NEW e \in Devices, prompts'[e] # 0 PROVE prompts'[e] \in armed' \cup fired'
    BY DEF PromptsHaveTimers
  <2>1. CASE UNCHANGED <<prompts, armed, fired>>
    BY <2>1 DEF PromptsHaveTimers
  <2>2. CASE p = prompts[d] /\ prompts' = [prompts EXCEPT ![d] = 0]
    <3>1. e # d /\ prompts'[e] = prompts[e]
      BY <1>1, <1>7, <2>2 DEF TypeOK
    <3>2. prompts[e] \in armed \cup fired /\ owner[prompts[e]] = e
      BY <1>1, <3>1 DEF PromptsHaveTimers, Flight
    <3> QED
      BY <3>1, <3>2
  <2> QED
    BY <2>1, <2>2
<1>9. \A r \in Flying : r = p \/ r \in Flying'
  <2>1. \A r \in Shown : r = p \/ r \in Shown'
    BY <1>2, <1>7 DEF Shown
  <2>2. \A r \in dialogs : r = p \/ r \in dialogs'
    OBVIOUS
  <2>3. Range(queue)' = Range(queue)
    OBVIOUS
  <2> QED
    BY <2>1, <2>2, <2>3 DEF Flying
<1> QED
  BY <1>6, <1>8, <1>9 DEF OnItsWay, KeptOnItsWay

LEMMA OperatorOnItsWay ==
  ASSUME AuthInv, PromptsHaveTimers,
         \/ \E b \in BOOLEAN : ProcessAuthResponse(b)
         \/ \E r \in dialogs, b \in BOOLEAN : AnswerDialog(r, b)
         \/ \E r \in Requests : TimerExpires(r)
  PROVE  OnItsWay
<1>1. TypeOK /\ Ledger /\ Flight
  BY DEF AuthInv
<1>2. ASSUME NEW b \in BOOLEAN, ProcessAuthResponse(b) PROVE OnItsWay
  <2> DEFINE d == Latest
             p == prompts[Latest]
  <2>1. d \in Devices /\ p \in Requests
    BY <1>1, <1>2, LatestIsShown DEF ProcessAuthResponse, TypeOK
  <2>2. /\ RespondToAuthRequest(d, b)
        /\ prompts' = [prompts EXCEPT ![d] = 0] /\ armed' = armed \ {p}
        /\ UNCHANGED <<owner, sending, queue, fired, dialogs>> /\ p = prompts[d]
    BY <1>2 DEF ProcessAuthResponse
  <2> HIDE DEF d, p
  <2>3. p # 0 /\ owner[p] = d
    BY <1>1, <2>1, <2>2 DEF Flight, Requests
  <2>4. \A r \in armed \cup fired : r \in armed' \cup fired' \/ owner[r] = d
    BY <2>2, <2>3
  <2> QED
    BY <2>1, <2>2, <2>4, DecidedOnItsWay
<1>3. ASSUME NEW r \in dialogs, NEW b \in BOOLEAN, AnswerDialog(r, b) PROVE OnItsWay
  <2>1. r \in Requests /\ owner[r] \in Devices
    BY <1>1, Numbered DEF TypeOK, Flight, Flying
  <2>2. /\ RespondToAuthRequest(owner[r], b) /\ dialogs' = dialogs \ {r}
        /\ UNCHANGED <<owner, sending, queue, prompts, armed, fired>>
    BY <1>3 DEF AnswerDialog
  <2> QED
    BY <2>1, <2>2, DecidedOnItsWay
<1>4. ASSUME NEW r \in Requests, TimerExpires(r) PROVE OnItsWay
  <2> DEFINE d == owner[r]
             p == prompts[d]
  <2>1. d \in Devices /\ p \in {0} \cup Requests
    BY <1>1, <1>4, Numbered DEF TimerExpires, Ledger, TypeOK
  <2>2. fired' = fired \ {r} /\ UNCHANGED <<owner, sending, queue, armed, dialogs>>
    BY <1>4 DEF TimerExpires
  <2>3. \A x \in armed \cup fired : x \in armed' \cup fired' \/ owner[x] = d
    BY <2>2
  <2>4. CASE p # 0
    <3>1. RespondToAuthRequest(d, FALSE) /\ prompts' = [prompts EXCEPT ![d] = 0]
      BY <1>4, <2>4 DEF TimerExpires
    <3>2. p \in Requests /\ p = prompts[d] /\ FALSE \in BOOLEAN
      BY <2>1, <2>4
    <3> HIDE DEF d, p
    <3> QED
      BY <2>1, <2>2, <2>3, <3>1, <3>2, DecidedOnItsWay
  <2>5. CASE p = 0
    <3>1. UNCHANGED <<decision, prompts>>
      BY <1>4, <2>5 DEF TimerExpires
    <3>2. \A e \in Devices : prompts[e] # 0 => prompts[e] # r
      BY <1>1, <2>5 DEF Flight
    <3>3. PromptsHaveTimers'
      BY <2>2, <3>1, <3>2 DEF PromptsHaveTimers
    <3>4. Shown' = Shown /\ Range(queue)' = Range(queue)
      BY <2>2, <3>1 DEF Shown
    <3>5. Flying \subseteq Flying'
      BY <2>2, <3>4 DEF Flying
    <3> QED
      BY <3>3, <3>5 DEF OnItsWay, KeptOnItsWay
  <2> QED
    BY <2>4, <2>5
<1> QED
  BY <1>2, <1>3, <1>4

LEMMA StepOnItsWay ==
  ASSUME AuthInv, PromptsHaveTimers, [Next]_vars
  PROVE  OnItsWay
<1>1. ASSUME UNCHANGED vars PROVE OnItsWay
  BY <1>1, AsideOfTheWay DEF vars, hostVars
<1>2. ASSUME NEW c \in Clients,
             \/ HandleAuthRequest(c) \/ HandleAuthCheck(c) \/ CheckResult(c)
             \/ PollResult(c) \/ PollTimeout(c)
      PROVE  OnItsWay
  <2>1. UNCHANGED <<queue, hostVars, sending>>
    BY <1>2 DEF HandleAuthRequest, HandleAuthCheck, Handle, CheckResult, PollResult, PollTimeout
  <2> QED
    BY <2>1, AsideOfTheWay DEF hostVars
<1>3. ASSUME NEW c \in Clients, RequestAuthorization(c) PROVE OnItsWay
  <2>1. UNCHANGED <<queue, hostVars>> /\ sending \subseteq sending'
    BY <1>3 DEF RequestAuthorization
  <2> QED
    BY <2>1, AsideOfTheWay DEF hostVars
<1>4. ASSUME \/ \E i \in IPs : WindowEnds(i)
             \/ \E d \in Devices : RevokeDevice(d)
      PROVE  OnItsWay
  <2>1. UNCHANGED <<queue, hostVars, sending>>
    BY <1>4 DEF WindowEnds, RevokeDevice
  <2> QED
    BY <2>1, AsideOfTheWay DEF hostVars
<1> QED
  BY <1>1, <1>2, <1>3, <1>4, SentOnItsWay, ShownOnItsWay, FiredOnItsWay, OperatorOnItsWay
     DEF Next, Expire

(* A request on the console's screen has its own timer, running or fired:    *)
(* as soon as timers run and fire, the operator or the timer decides it.     *)
THEOREM ScreensHaveTimers == Spec => []PromptsHaveTimers
<1>1. Init => PromptsHaveTimers
  BY DEF Init, PromptsHaveTimers
<1>2. AuthInv /\ PromptsHaveTimers /\ [Next]_vars => PromptsHaveTimers'
  BY StepOnItsWay DEF OnItsWay
<1> QED
  BY AuthInvariant, <1>1, <1>2, PTL DEF Spec

(* A request leaves its way to the operator by a decision on it, or in front *)
(* of a full channel: those are the ones that block their device for ever.   *)
THEOREM LostInFrontOfFullChannels == Spec => LostOnlyWhenFull
<1>1. AuthInv /\ PromptsHaveTimers /\ [Next]_vars =>
        \A r \in Requests : InFlight(r) /\ ~InFlight(r)' =>
          \/ decision'[r] # "none"
          \/ r \in sending /\ Len(queue) = ChanCap
  <2> SUFFICES ASSUME AuthInv, PromptsHaveTimers, [Next]_vars, NEW r \in Requests,
                      InFlight(r), ~InFlight(r)'
               PROVE  decision'[r] # "none" \/ (r \in sending /\ Len(queue) = ChanCap)
    OBVIOUS
  <2>1. r \in Flying
    BY FlyingIs
  <2>2. r \in Flying' => InFlight(r)'
    <3>1. /\ Stages'[1] = sending' /\ Stages'[2] = Range(queue)'
          /\ Stages'[3] = Shown' /\ Stages'[4] = dialogs'
      BY DEF Stages
    <3>2. 1 \in 1..4 /\ 2 \in 1..4 /\ 3 \in 1..4 /\ 4 \in 1..4
      OBVIOUS
    <3> QED
      BY <3>1, <3>2 DEF InFlight, Flying
  <2> QED
    BY <2>1, <2>2, StepOnItsWay DEF OnItsWay, KeptOnItsWay
<1>2. AuthInv /\ PromptsHaveTimers /\ [Next]_vars =>
        [\A r \in Requests : InFlight(r) /\ ~InFlight(r)' =>
          \/ decision'[r] # "none"
          \/ r \in sending /\ Len(queue) = ChanCap]_vars
  BY <1>1
<1> QED
  BY AuthInvariant, ScreensHaveTimers, <1>2, PTL DEF Spec, LostOnlyWhenFull
=============================================================================
