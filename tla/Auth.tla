-------------------------------- MODULE Auth --------------------------------
(***************************************************************************)
(* Device authorization on the host:                                       *)
(*   LinqoraHost/internal/auth/auth.go, handler.go, console_auth.go        *)
(*   LinqoraHost/cmd/linqora_gui.go (watchAuth and the Devices tab)        *)
(* without a shared secret (the challenge is not part of this module).     *)
(*                                                                         *)
(* Threads: the read pump of every connection (auth_request, auth_check),  *)
(* a sender goroutine per request, a poller goroutine per pending answer,  *)
(* the goroutine that shows requests, the operator, and the expiry timers. *)
(* A step is what a thread does under am.mu, or under requestsMutex with   *)
(* the am.mu section nested in it.  Clock readings become choices: a timer *)
(* may fire, and a minute may end, at any moment.                          *)
(*                                                                         *)
(* A request is its number; numbers grow with RequestTime.                 *)
(***************************************************************************)
EXTENDS Naturals, Sequences, Functions

CONSTANTS
  Clients,      \* connections
  Devices,      \* device ids
  IPs,          \* remote addresses
  DeviceOf,     \* the device id a connection authenticates with
  IpOf,         \* the address a connection comes from
  ChanCap,      \* capacity of authChan (10 in the code)
  MaxAttempts,  \* maxAuthAttemptsPerMinute (5 in the code)
  MaxRequests,  \* bound: authorization requests ever made
  Messages      \* bound: how many auth messages each connection may send

ASSUME ConstantsAssumption ==
  /\ DeviceOf \in [Clients -> Devices]
  /\ IpOf \in [Clients -> IPs]
  /\ ChanCap \in Nat \ {0}
  /\ MaxAttempts \in Nat
  /\ MaxRequests \in Nat
  /\ Messages \subseteq [Clients -> Nat]

VARIABLES
  gui,            \* the host runs the GUI (dialogs) or the console (y/n, timers)
  authorized,     \* keys of config.AuthorizedDevs
  pendingAuth,    \* pendingAuth: device -> its request, 0 for none
  pendingResult,  \* pendingResult: device -> "none", "approved", "rejected"
  attempts,       \* authAttempts: requests counted in the current minute, per IP
  owner,          \* the device of every request made so far
  sending,        \* requests whose sender goroutine has not delivered
  queue,          \* authChan
  prompts,        \* console: authRequests (and authTimers): device -> request, 0
  armed, fired,   \* console: expiry timers running; fired and waiting for the mutex
  dialogs,        \* GUI: requests whose dialog is open
  pc,             \* read pump: "idle", "requesting", "checking"
  pollers,        \* running checkAuthResultPeriodically goroutines, per client
  budget,         \* messages each connection may still send
  decision,       \* history: what was decided on a request
  withdrawn,      \* history: requests whose approval a revocation undid
  waiting,        \* history: the request a client was last told is pending
  told            \* history: the last answer a client got

hostVars == <<prompts, armed, fired, dialogs>>
histVars == <<decision, withdrawn, waiting, told>>
vars == <<gui, authorized, pendingAuth, pendingResult, attempts, owner, sending,
          queue, hostVars, pc, pollers, budget, histVars>>

Requests == 1..MaxRequests
Results == {"none", "approved", "rejected"}
Answers == Results \cup {"pending", "authorized", "timeout", "failed"}

TypeOK ==
  /\ gui \in BOOLEAN
  /\ authorized \in SUBSET Devices
  /\ pendingAuth \in [Devices -> {0} \cup Requests]
  /\ pendingResult \in [Devices -> Results]
  /\ attempts \in [IPs -> 0..MaxAttempts]
  /\ owner \in Seq(Devices) /\ Len(owner) <= MaxRequests
  /\ sending \in SUBSET Requests
  /\ queue \in Seq(Requests) /\ Len(queue) <= ChanCap
  /\ prompts \in [Devices -> {0} \cup Requests]
  /\ armed \in SUBSET Requests /\ fired \in SUBSET Requests
  /\ dialogs \in SUBSET Requests
  /\ pc \in [Clients -> {"idle", "requesting", "checking"}]
  /\ pollers \in [Clients -> Nat]
  /\ budget \in [Clients -> Nat]
  /\ decision \in [Requests -> Results]
  /\ withdrawn \in SUBSET Requests
  /\ waiting \in [Clients -> {0} \cup Requests]
  /\ told \in [Clients -> Answers]

Init ==
  /\ gui \in BOOLEAN
  /\ authorized = {}
  /\ pendingAuth = [d \in Devices |-> 0]
  /\ pendingResult = [d \in Devices |-> "none"]
  /\ attempts = [i \in IPs |-> 0]
  /\ owner = <<>>
  /\ sending = {} /\ queue = <<>>
  /\ prompts = [d \in Devices |-> 0]
  /\ armed = {} /\ fired = {} /\ dialogs = {}
  /\ pc = [c \in Clients |-> "idle"]
  /\ pollers = [c \in Clients |-> 0]
  /\ budget \in Messages
  /\ decision = [r \in Requests |-> "none"]
  /\ withdrawn = {}
  /\ waiting = [c \in Clients |-> 0]
  /\ told = [c \in Clients |-> "none"]

-----------------------------------------------------------------------------
Answer(c, a) == told' = [told EXCEPT ![c] = a]

(* IsAuthorized for an auth_request or auth_check; when it fails, the handler*)
(* goes on to its second am.mu section.                                      *)
Handle(c, next) ==
  /\ pc[c] = "idle"
  /\ budget[c] > 0
  /\ budget' = [budget EXCEPT ![c] = @ - 1]
  /\ IF DeviceOf[c] \in authorized
       THEN Answer(c, "authorized") /\ UNCHANGED pc
       ELSE pc' = [pc EXCEPT ![c] = next] /\ UNCHANGED told
  /\ UNCHANGED <<gui, authorized, pendingAuth, pendingResult, attempts, owner,
                 sending, queue, hostVars, pollers, decision, withdrawn,
                 waiting>>

(* HandleAuthRequest, up to IsAuthorized. *)
HandleAuthRequest(c) == Handle(c, "requesting")

(* HandleAuthCheck, likewise; before any auth_request the connection has no  *)
(* device id, and is only told so.                                           *)
HandleAuthCheck(c) == told[c] # "none" /\ Handle(c, "checking")

(* Mutant of NothingToAsk: a pending request does not stop another. *)
TrustedOnly(d) == d \in authorized

(* The device is trusted, or its request is pending: no new request. *)
NothingToAsk(d) == d \in authorized \/ pendingAuth[d] # 0

(* The pending answer and the poller both callers of RequestAuthorization    *)
(* start when it returns true.                                               *)
AnswerPending(c, r) ==
  /\ Answer(c, "pending")
  /\ waiting' = [waiting EXCEPT ![c] = r]
  /\ pollers' = [pollers EXCEPT ![c] = @ + 1]

(* RequestAuthorization, all of it under am.mu.  The rate limit comes first, *)
(* so it also refuses a device that is trusted or pending.                   *)
RequestAuthorization(c) ==
  LET d == DeviceOf[c]
      r == Len(owner) + 1
  IN
  /\ pc[c] = "requesting"
  /\ pc' = [pc EXCEPT ![c] = "idle"]
  /\ \/ /\ attempts[IpOf[c]] >= MaxAttempts
        /\ Answer(c, "failed")
        /\ UNCHANGED <<pendingAuth, attempts, owner, sending, pollers, waiting>>
     \/ /\ attempts[IpOf[c]] < MaxAttempts
        /\ NothingToAsk(d)
        /\ AnswerPending(c, IF d \in authorized THEN waiting[c] ELSE pendingAuth[d])
        /\ UNCHANGED <<pendingAuth, attempts, owner, sending>>
     \/ /\ attempts[IpOf[c]] < MaxAttempts
        /\ ~NothingToAsk(d)
        /\ r <= MaxRequests
        /\ attempts' = [attempts EXCEPT ![IpOf[c]] = @ + 1]
        /\ owner' = Append(owner, d)
        /\ pendingAuth' = [pendingAuth EXCEPT ![d] = r]
        /\ sending' = sending \cup {r}
        /\ AnswerPending(c, r)
  /\ UNCHANGED <<gui, authorized, pendingResult, queue, hostVars, budget, decision,
                 withdrawn>>

(* A minute has passed since the first attempt of this address: the record   *)
(* is dropped by cleanupAttempts or restarted by the next request.           *)
WindowEnds(i) ==
  /\ attempts[i] > 0
  /\ attempts' = [attempts EXCEPT ![i] = 0]
  /\ UNCHANGED <<gui, authorized, pendingAuth, pendingResult, owner, sending,
                 queue, hostVars, pc, pollers, budget, histVars>>

(* Mutant of SendRequest: the sender never gives up, and the channel has no  *)
(* capacity.                                                                 *)
SendUnbounded(r) ==
  /\ r \in sending
  /\ sending' = sending \ {r}
  /\ queue' = Append(queue, r)
  /\ UNCHANGED <<gui, authorized, pendingAuth, pendingResult, attempts, owner,
                 hostVars, pc, pollers, budget, histVars>>

(* The sender goroutine: the channel takes the request, or one second passes *)
(* while it is full and the request is dropped.                              *)
SendRequest(r) ==
  /\ r \in sending
  /\ sending' = sending \ {r}
  /\ IF Len(queue) < ChanCap
       THEN queue' = Append(queue, r)
       ELSE UNCHANGED queue
  /\ UNCHANGED <<gui, authorized, pendingAuth, pendingResult, attempts, owner,
                 hostVars, pc, pollers, budget, histVars>>

-----------------------------------------------------------------------------
(* Mutant of TakeResult: "not there" is read as the zero value, false. *)
TakeZeroValue(c) ==
  /\ Answer(c, IF pendingResult[DeviceOf[c]] = "approved" THEN "approved" ELSE "rejected")
  /\ pendingResult' = [pendingResult EXCEPT ![DeviceOf[c]] = "none"]

(* CheckPendingResult takes the result out; the caller passes it on. *)
TakeResult(c) ==
  /\ pendingResult[DeviceOf[c]] # "none"
  /\ Answer(c, pendingResult[DeviceOf[c]])
  /\ pendingResult' = [pendingResult EXCEPT ![DeviceOf[c]] = "none"]

(* Second section of HandleAuthCheck. *)
CheckResult(c) ==
  /\ pc[c] = "checking"
  /\ pc' = [pc EXCEPT ![c] = "idle"]
  /\ \/ TakeResult(c)
     \/ /\ pendingResult[DeviceOf[c]] = "none"
        /\ Answer(c, "pending")
        /\ UNCHANGED pendingResult
  /\ UNCHANGED <<gui, authorized, pendingAuth, attempts, owner, sending, queue,
                 hostVars, pollers, budget, decision, withdrawn,
                 waiting>>

(* A tick of checkAuthResultPeriodically that finds a result (one that finds *)
(* none changes nothing).                                                    *)
PollResult(c) ==
  /\ pollers[c] > 0
  /\ pollers' = [pollers EXCEPT ![c] = @ - 1]
  /\ TakeResult(c)
  /\ UNCHANGED <<gui, authorized, pendingAuth, attempts, owner, sending, queue,
                 hostVars, pc, budget, decision, withdrawn,
                 waiting>>

(* Its 30 s are over. *)
PollTimeout(c) ==
  /\ pollers[c] > 0
  /\ pollers' = [pollers EXCEPT ![c] = @ - 1]
  /\ Answer(c, "timeout")
  /\ UNCHANGED <<gui, authorized, pendingAuth, pendingResult, attempts, owner,
                 sending, queue, hostVars, pc, budget, decision, withdrawn,
                 waiting>>

-----------------------------------------------------------------------------
(* Mutant of RespondToAuthRequest: the device is stored without looking at   *)
(* the decision.                                                             *)
RespondAlwaysTrusts(d, approved) ==
  /\ pendingAuth[d] # 0
  /\ pendingAuth' = [pendingAuth EXCEPT ![d] = 0]
  /\ pendingResult' = [pendingResult EXCEPT ![d] = IF approved THEN "approved" ELSE "rejected"]
  /\ authorized' = authorized \cup {d}
  /\ decision' = [decision EXCEPT ![pendingAuth[d]] = IF approved THEN "approved" ELSE "rejected"]

(* RespondToAuthRequest: a no-op unless the device has a pending request.    *)
RespondToAuthRequest(d, approved) ==
  IF pendingAuth[d] = 0
    THEN UNCHANGED <<authorized, pendingAuth, pendingResult, decision>>
    ELSE LET result == IF approved THEN "approved" ELSE "rejected" IN
         /\ pendingAuth' = [pendingAuth EXCEPT ![d] = 0]
         /\ pendingResult' = [pendingResult EXCEPT ![d] = result]
         /\ authorized' = IF approved THEN authorized \cup {d} ELSE authorized
         /\ decision' = [decision EXCEPT ![pendingAuth[d]] = result]

(* ProcessAuthRequests shows the next request and arms its timer; in the GUI *)
(* watchAuth opens a dialog.                                                 *)
ShowRequest ==
  /\ queue # <<>>
  /\ queue' = Tail(queue)
  /\ LET r == Head(queue) IN
       IF gui
         THEN dialogs' = dialogs \cup {r} /\ UNCHANGED <<prompts, armed>>
         ELSE /\ prompts' = [prompts EXCEPT ![owner[r]] = r]
              /\ armed' = armed \cup {r}
              /\ UNCHANGED dialogs
  /\ UNCHANGED <<gui, authorized, pendingAuth, pendingResult, attempts, owner,
                 sending, fired, pc, pollers, budget, histVars>>

(* The operator types y or n: ProcessAuthResponse answers the request with   *)
(* the latest RequestTime and stops its timer, if it has not fired.          *)
Latest == CHOOSE d \in Devices :
  prompts[d] # 0 /\ \A e \in Devices : prompts[e] <= prompts[d]

ProcessAuthResponse(approved) ==
  /\ \E d \in Devices : prompts[d] # 0
  /\ RespondToAuthRequest(Latest, approved)
  /\ prompts' = [prompts EXCEPT ![Latest] = 0]
  /\ armed' = armed \ {prompts[Latest]}
  /\ UNCHANGED gui
  /\ UNCHANGED <<attempts, owner, sending, queue, fired, dialogs, pc, pollers,
                 budget, withdrawn, waiting, told>>

(* The runtime starts the function of an expired timer... *)
TimerFires(r) ==
  /\ r \in armed
  /\ armed' = armed \ {r}
  /\ fired' = fired \cup {r}
  /\ UNCHANGED <<gui, authorized, pendingAuth, pendingResult, attempts, owner,
                 sending, queue, prompts, dialogs, pc, pollers, budget, histVars>>

(* Mutant of TimerExpires: the expired request is only taken off the screen. *)
TimerForgets(r) ==
  /\ r \in fired
  /\ fired' = fired \ {r}
  /\ prompts' = [prompts EXCEPT ![owner[r]] = 0]
  /\ UNCHANGED <<gui, authorized, pendingAuth, pendingResult, attempts, owner,
                 sending, queue, armed, dialogs, pc, pollers, budget, histVars>>

(* ... which gets requestsMutex, and rejects whatever the device has on the  *)
(* screen by then.                                                           *)
TimerExpires(r) ==
  LET d == owner[r] IN
  /\ r \in fired
  /\ fired' = fired \ {r}
  /\ IF prompts[d] # 0
       THEN /\ RespondToAuthRequest(d, FALSE)
            /\ prompts' = [prompts EXCEPT ![d] = 0]
       ELSE UNCHANGED <<authorized, pendingAuth, pendingResult, decision, prompts>>
  /\ UNCHANGED <<gui, attempts, owner, sending, queue, armed, dialogs, pc,
                 pollers, budget, withdrawn, waiting, told>>

(* The operator answers one of the open dialogs. *)
AnswerDialog(r, approved) ==
  /\ r \in dialogs
  /\ dialogs' = dialogs \ {r}
  /\ RespondToAuthRequest(owner[r], approved)
  /\ UNCHANGED <<gui, attempts, owner, sending, queue, prompts, armed, fired, pc,
                 pollers, budget, withdrawn, waiting, told>>

ApprovalsOf(d) == {r \in 1..Len(owner) : owner[r] = d /\ decision[r] = "approved"}

(* Revoke Selected in the Devices tab edits the shared configuration.        *)
RevokeDevice(d) ==
  /\ gui
  /\ d \in authorized
  /\ authorized' = authorized \ {d}
  /\ withdrawn' = withdrawn \cup ApprovalsOf(d)
  /\ UNCHANGED <<gui, pendingAuth, pendingResult, attempts, owner, sending, queue,
                 hostVars, pc, pollers, budget, decision, waiting, told>>

-----------------------------------------------------------------------------
Expire == \E r \in Requests : TimerFires(r) \/ TimerExpires(r)

Next ==
  \/ \E c \in Clients :
       \/ HandleAuthRequest(c) \/ RequestAuthorization(c)
       \/ HandleAuthCheck(c) \/ CheckResult(c)
       \/ PollResult(c) \/ PollTimeout(c)
  \/ \E i \in IPs : WindowEnds(i)
  \/ \E r \in sending : SendRequest(r)
  \/ ShowRequest
  \/ \E b \in BOOLEAN : ProcessAuthResponse(b)
  \/ Expire
  \/ \E r \in dialogs, b \in BOOLEAN : AnswerDialog(r, b)
  \/ \E d \in Devices : RevokeDevice(d)

Spec == Init /\ [][Next]_vars

(* Fairness: the goroutines run, and an armed timer fires; nothing is asked  *)
(* of the operator, of the clients or of the clock's minutes.                *)
Fairness ==
  /\ \A r \in Requests :
       WF_vars(SendRequest(r)) /\ WF_vars(TimerFires(r)) /\ WF_vars(TimerExpires(r))
  /\ WF_vars(ShowRequest)
  /\ \A c \in Clients : WF_vars(RequestAuthorization(c)) /\ WF_vars(PollTimeout(c))

FairSpec == Spec /\ Fairness

-----------------------------------------------------------------------------
(* A request on its way to the operator, or in front of one, is the pending  *)
(* request of its device, and is in one place only: an answer always finds   *)
(* the request it is meant for, and no device is asked about twice at once.  *)
Shown == {prompts[d] : d \in Devices} \ {0}
Stages == <<sending, Range(queue), Shown, dialogs>>

InFlight(r) == \E i \in 1..4 : r \in Stages[i]

InFlightIsPending ==
  /\ IsInjective(queue)
  /\ \A r \in Requests : InFlight(r) =>
       /\ r <= Len(owner) /\ pendingAuth[owner[r]] = r
       /\ decision[r] = "none"
       /\ \A i, j \in 1..4 : r \in Stages[i] \cap Stages[j] => i = j

(* A device is trusted exactly as long as the operator's approval of a       *)
(* request of that very device stands, that is, no revocation followed it:   *)
(* an expired or dropped request never counts, a late answer, timer or       *)
(* poller neither revives what was revoked nor takes a standing approval     *)
(* away, and a client that was told "timeout" meanwhile changes nothing.     *)
TrustIsApproved ==
  \A d \in Devices : d \in authorized <=> ApprovalsOf(d) \ withdrawn # {}

(* What a client is told was decided has been decided, for its own device,   *)
(* by the operator or by an expiry: no result crosses devices, none is made  *)
(* up, whichever poller picks it up.                                         *)
AnswersAreBacked ==
  \A c \in Clients : told[c] \in {"approved", "rejected"} =>
    \E r \in 1..Len(owner) : owner[r] = DeviceOf[c] /\ decision[r] = told[c]

(* A request on its way to the operator leaves it by a decision on that very *)
(* request, or because its sender gave up on a full channel: none is lost    *)
(* between channel, screen and dialog, or overwritten by a later one.        *)
LostOnlyWhenFull ==
  [][\A r \in Requests : InFlight(r) /\ ~InFlight(r)' =>
       \/ decision'[r] # "none"
       \/ r \in sending /\ Len(queue) = ChanCap]_vars

(* On the console a request on the screen has its own timer, running or      *)
(* fired, whatever late timers of earlier requests of the device do.         *)
PromptsHaveTimers ==
  \A d \in Devices : prompts[d] # 0 => prompts[d] \in armed \cup fired

(* On the console a request that reached the screen is decided: the answer   *)
(* or the timer, in whichever order they come, always gets there.            *)
PromptsAreDecided ==
  \A d \in Devices, r \in Requests :
    prompts[d] = r ~> decision[r] # "none"

-----------------------------------------------------------------------------
(* auth.go:58 promises of RequestAuthorization that "It returns true if the  *)
(* request was successfully queued or if the device is already trusted": a   *)
(* device counted as pending has a request that can still be answered.       *)
PendingIsQueued ==
  \A d \in Devices : pendingAuth[d] # 0 => InFlight(pendingAuth[d])

(* responses.go:26 says of AuthStatusRejected "Manual authorization was      *)
(* denied": a client told so had the request it waits for denied.            *)
RejectedWasDenied ==
  \A c \in Clients : told[c] = "rejected" => decision[waiting[c]] = "rejected"
=============================================================================
