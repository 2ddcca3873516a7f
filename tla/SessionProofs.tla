--------------------------- MODULE SessionProofs ---------------------------
(***************************************************************************)
(* Proofs about what a connection's messages meet: Limiter.tla, for every  *)
(* rate and burst, and Session.tla, for any connections and bounds; and    *)
(* about when scripts are triggered, for any clock (Schedule.tla):         *)
(*   - no window lets through more than a burst and what is refilled;      *)
(*   - the type invariant, and that every message is answered once;        *)
(*   - what is refused has not touched the host;                           *)
(*   - a challenge is accepted once, and only the newest of its device;    *)
(*   - a script is triggered in exactly the minutes that are due.          *)
(* What the tables of handlers may do is established once, in HandlersDo.  *)
(***************************************************************************)
EXTENDS Session, Limiter, Schedule, SequenceTheorems, TLAPS

USE SessionAssumption DEF SessionAssumption

-----------------------------------------------------------------------------
(* An outcome answers once, and says so if the host was touched.             *)
Done == {"200", "202", "500"}
Honest(o) == o.effect => \A i \in DOMAIN o.codes : o.codes[i] \in Done
Once(o) == o.codes # <<>> /\ Len(o.codes) = 1 /\ Honest(o)

LEMMA DidIs ==
  ASSUME NEW codes, NEW effect
  PROVE  Did(codes, effect).codes = codes /\ Did(codes, effect).effect = effect
BY DEF Did

LEMMA OneCode ==
  ASSUME NEW code
  PROVE  /\ <<code>> # <<>> /\ Len(<<code>>) = 1 /\ DOMAIN <<code>> = {1} /\ <<code>>[1] = code
<1>1. Len(<<code>>) = 1 /\ Len(<<>>) = 0 /\ <<code>>[1] = code
  OBVIOUS
<1>2. <<code>> # <<>>
  BY <1>1, Zenon
<1>3. DOMAIN <<code>> = 1..1
  OBVIOUS
<1> QED
  BY <1>1, <1>2, <1>3

LEMMA Pieces ==
  /\ \A code : \A o \in Answering(code) : Once(o)
  /\ \A o \in Ask : Once(o)
  /\ \A o \in Look : Once(o)
  /\ Once(Did(<<"200">>, TRUE)) /\ Once(Did(<<"500">>, TRUE)) /\ Once(Did(<<"202">>, TRUE))
<1>1. ASSUME NEW code PROVE Once(Did(<<code>>, FALSE))
  <2>1. Did(<<code>>, FALSE).codes = <<code>> /\ Did(<<code>>, FALSE).effect = FALSE
    BY DidIs, Zenon
  <2> QED
    BY <2>1, OneCode, Zenon DEF Once, Honest
<1>2. ASSUME NEW code \in Done PROVE Once(Did(<<code>>, TRUE))
  <2>1. Did(<<code>>, TRUE).codes = <<code>>
    BY DidIs, Zenon
  <2>2. \A i \in {1} : <<code>>[i] \in Done
    BY <1>2, OneCode
  <2> QED
    BY <2>1, <2>2, OneCode, Zenon DEF Once, Honest
<1> QED
  BY <1>1, <1>2 DEF Answering, Ask, Look, Done

LEMMA UnlessOnce ==
  ASSUME NEW invalid, NEW S, \A o \in S : Once(o)
  PROVE  \A o \in Unless(invalid, S) : Once(o)
BY Pieces DEF Unless

(* The tables of handlers: every command is answered once, a movement of the *)
(* mouse not at all or with an error.                                        *)
LEMMA HandlersDo ==
  ASSUME NEW type \in Commands, NEW inside \in BOOLEAN, NEW d \in Data,
         NEW o \in HandlerAnswers(type, inside, d)
  PROVE  Once(o) \/ (type = "mouse" /\ d = "move" /\ o = Did(<<>>, TRUE))
<1>1. CASE type \in {"host_info", "platform_caps", "script_list", "monitor_list", "file_list",
                     "file_read", "process_list", "startup_list"}
  BY <1>1, Pieces
     DEF HandlerAnswers, HandleHostInfoMessage, HandlePlatformCaps, HandleScriptList,
         HandleMonitorList, HandleFileList, HandleFileRead, HandleProcessList, HandleStartupList
<1>2. CASE type \in {"script_add", "script_update", "script_delete", "script_stop"}
  BY <1>2, Pieces, UnlessOnce
     DEF HandlerAnswers, HandleScriptAdd, HandleScriptUpdate, HandleScriptDelete, HandleScriptStop
<1>3. CASE type \in {"monitor_cmd", "monitor_set_resolution", "monitor_set_primary", "display_cmd"}
  BY <1>3, Pieces, UnlessOnce
     DEF HandlerAnswers, HandleMonitorCommand, HandleMonitorSetResolution,
         HandleMonitorSetPrimary, HandleDisplayCommand
<1>4. CASE type \in {"file_write", "keyboard", "keyboard_type", "clipboard_set"}
  BY <1>4, Pieces, UnlessOnce
     DEF HandlerAnswers, HandleFileWrite, HandleKeyboardCommand, HandleKeyboardTypeCommand,
         HandleClipboardSet
<1>5. CASE type \in {"process_kill", "startup_set", "battery_alert_config", "media", "power"}
  BY <1>5, Pieces, UnlessOnce
     DEF HandlerAnswers, HandleProcessKill, HandleStartupSet, HandleBatteryAlertConfig,
         HandleMediaCommand, HandlePowerAnswer
<1>6. CASE type = "mouse"
  <2>1. o \in HandleMouseCommand(d)
    BY <1>6 DEF HandlerAnswers
  <2> QED
    BY <1>6, <2>1, Pieces DEF HandleMouseCommand, Unless
<1> QED
  BY <1>1, <1>2, <1>3, <1>4, <1>5, <1>6 DEF Commands

(* What a step may have done: a promise and an answer, or neither.           *)
Kept(promises, o) == (promises = 1 /\ Len(o.codes) = 1) \/ (promises = 0 /\ Len(o.codes) = 0)

LEMMA OutcomesDo ==
  ASSUME NEW inside \in BOOLEAN, NEW o \in Outcomes[inside]
  PROVE  Honest(o) /\ Kept(o.promises, o)
<1>1. PICK type \in Commands, d \in Data : \E h \in HandlerAnswers(type, inside, d) :
        o = [codes |-> h.codes, effect |-> h.effect,
             promises |-> IF h.codes # <<>> \/ ~(type = "mouse" /\ d = "move") THEN 1 ELSE 0]
  BY DEF Outcomes
<1>2. PICK h \in HandlerAnswers(type, inside, d) :
        o = [codes |-> h.codes, effect |-> h.effect,
             promises |-> IF h.codes # <<>> \/ ~(type = "mouse" /\ d = "move") THEN 1 ELSE 0]
  BY <1>1
<1>3. /\ o.codes = h.codes /\ o.effect = h.effect
      /\ o.promises = IF h.codes # <<>> \/ ~(type = "mouse" /\ d = "move") THEN 1 ELSE 0
  BY <1>2, Zenon
<1>4. CASE Once(h)
  <2>1. o.promises = 1
    BY <1>3, <1>4, Zenon DEF Once
  <2>2. Honest(o)
    BY <1>3, <1>4, Zenon DEF Once, Honest
  <2> QED
    BY <1>3, <1>4, <2>1, <2>2, Zenon DEF Once, Kept
<1>5. CASE type = "mouse" /\ d = "move" /\ h = Did(<<>>, TRUE)
  <2>1. h.codes = <<>>
    BY <1>5, DidIs
  <2>2. o.promises = 0
    BY <1>3, <1>5, <2>1, Zenon
  <2>3. Len(o.codes) = 0 /\ DOMAIN o.codes = {}
    BY <1>3, <2>1
  <2> QED
    BY <2>2, <2>3 DEF Kept, Honest
<1> QED
  BY <1>2, <1>4, <1>5, HandlersDo

LEMMA RestDoes ==
  ASSUME NEW protected \in BOOLEAN, NEW o \in RestOutcomes[protected]
  PROVE  o.effect => o.allowed /\ \A i \in DOMAIN o.codes : o.codes[i] \in Done
<1>1. PICK path \in Gets \cup Posts, method \in {"GET", "POST"}, bearer \in BOOLEAN, d \in Data :
        \E h \in Rest(path, method, RestAuth(protected, bearer), d) :
          o = [codes |-> h.codes, effect |-> h.effect, allowed |-> RestAuth(protected, bearer)]
  BY DEF RestOutcomes
<1>2. PICK h \in Rest(path, method, RestAuth(protected, bearer), d) :
        o = [codes |-> h.codes, effect |-> h.effect, allowed |-> RestAuth(protected, bearer)]
  BY <1>1
<1>3. o.codes = h.codes /\ o.effect = h.effect /\ o.allowed = RestAuth(protected, bearer)
  BY <1>2, Zenon
<1>4. CASE ~RestAuth(protected, bearer)
  <2>1. h = Did(<<"401">>, FALSE)
    BY <1>4 DEF Rest, Answering
  <2>2. h.effect = FALSE
    BY <2>1, DidIs, Zenon
  <2> QED
    BY <1>3, <2>2
<1>5. CASE RestAuth(protected, bearer)
  <2>1. \A x \in Answering("405") \cup RestAnswers(path, d) : Once(x)
    BY Pieces, UnlessOnce
       DEF RestAnswers, Gets, Posts, Accepted, RestInfo, RestQR, RestMetrics, RestScripts,
           RestProcesses, RestKillProcess, RestScriptExecute, RestMedia, RestPowerAnswer,
           RestKeyboardType
  <2>2. h \in Answering("405") \cup RestAnswers(path, d)
    BY <1>5 DEF Rest
  <2>3. Once(h)
    BY <2>1, <2>2
  <2> QED
    BY <1>3, <1>5, <2>3, Zenon DEF Once, Honest
<1> QED
  BY <1>4, <1>5

-----------------------------------------------------------------------------
(* An unspent token is the one that is kept for its device.                  *)
Tracked == \A t \in Tokens : t \notin spent <=> challenge[issued[t]] = t

SessionInv == SessionTypeOK /\ AnswersOwed /\ RefusedIsUntouched /\ Tracked

LEMMA SessionInitially == SessionInit => SessionInv
<1> SUFFICES ASSUME SessionInit PROVE SessionInv
  OBVIOUS
<1>1. issued = <<>> /\ Len(issued) = 0 /\ Tokens = {} /\ issued \in Seq(DeviceIds)
  BY DEF SessionInit, Tokens
<1>2. SessionTypeOK
  BY <1>1 DEF SessionInit, SessionTypeOK
<1>3. last.effect = FALSE
  BY Zenon DEF SessionInit
<1> QED
  BY <1>1, <1>2, <1>3 DEF SessionInit, SessionInv, AnswersOwed, RefusedIsUntouched, Tracked

(* A message handled: the promises of the other connections are as before.   *)
LEMMA HandledDoes ==
  ASSUME SessionInv, NEW c \in Connections, NEW promises, NEW o, Handled(c, promises, o),
         Honest(o), o.effect => IsAuthorized(c)
  PROVE  /\ RefusedIsUntouched' /\ last'.codes = o.codes
         /\ Kept(promises, o) => owed' = owed
         /\ promises = Len(o.codes) + 1 /\ Len(o.codes) \in Nat => owed' = [owed EXCEPT ![c] = @ + 1]
<1>1. /\ last'.codes = o.codes /\ last'.effect = o.effect /\ last'.allowed = IsAuthorized(c)
      /\ owed' = [owed EXCEPT ![c] = @ + promises - Len(o.codes)]
  BY Zenon DEF Handled
<1>2. last'.effect => last'.allowed
  BY <1>1, Zenon
<1>3. last'.effect => \A i \in DOMAIN last'.codes : last'.codes[i] \in Done
  BY <1>1, Zenon DEF Honest
<1>4. RefusedIsUntouched'
  BY <1>2, <1>3 DEF RefusedIsUntouched, Done
<1>5. owed \in [Connections -> Nat] /\ owed[c] \in Nat
  BY DEF SessionInv, SessionTypeOK
<1>6. ASSUME Kept(promises, o) PROVE owed' = owed
  <2>1. promises = Len(o.codes) /\ promises \in {0, 1}
    BY <1>6, Zenon DEF Kept
  <2> QED
    BY <1>1, <1>5, <2>1
<1>7. ASSUME promises = Len(o.codes) + 1, Len(o.codes) \in Nat
      PROVE  owed' = [owed EXCEPT ![c] = @ + 1]
  BY <1>1, <1>5, <1>7
<1> QED
  BY <1>1, <1>4, <1>6, <1>7

LEMMA AnswerDoes ==
  ASSUME SessionInv, NEW c \in Connections, NEW code, Handled(c, 1, Did(<<code>>, FALSE))
  PROVE  RefusedIsUntouched' /\ owed' = owed /\ last'.codes = <<code>>
<1> DEFINE o == Did(<<code>>, FALSE)
<1>1. o.codes = <<code>> /\ o.effect = FALSE
  BY DidIs, Zenon
<1>2. Handled(c, 1, o)
  OBVIOUS
<1> HIDE DEF o
<1>3. Honest(o)
  BY <1>1 DEF Honest
<1>4. Kept(1, o)
  BY <1>1, OneCode DEF Kept
<1>5. o.effect => IsAuthorized(c)
  BY <1>1
<1> QED
  BY <1>1, <1>2, <1>3, <1>4, <1>5, HandledDoes

-----------------------------------------------------------------------------
(* Steps that leave jobs and challenges alone.                               *)
LEMMA SameKeeps ==
  ASSUME SessionInv, SameJobs, SameChallenges, UNCHANGED owed, RefusedIsUntouched',
         inMedia' \subseteq Connections, trusted' \subseteq DeviceIds
  PROVE  SessionInv'
<1>1. UNCHANGED <<secret, jobs, device, issued, held, challenge, expired, spent, owed>>
  BY DEF SameJobs, SameChallenges
<1>2. Tokens' = Tokens
  BY <1>1 DEF Tokens
<1>3. SessionTypeOK'
  BY <1>1, <1>2 DEF SessionInv, SessionTypeOK
<1>4. AnswersOwed' /\ Tracked'
  BY <1>1, <1>2 DEF SessionInv, AnswersOwed, Tracked
<1> QED
  BY <1>3, <1>4 DEF SessionInv

LEMMA AnswerKeeps ==
  ASSUME SessionInv, NEW c \in Connections, NEW promises, NEW o, Handled(c, promises, o),
         Honest(o), o.effect => IsAuthorized(c), Kept(promises, o),
         SameJobs, SameChallenges, inMedia' \subseteq Connections, UNCHANGED trusted
  PROVE  SessionInv'
<1>1. trusted' \subseteq DeviceIds
  BY DEF SessionInv, SessionTypeOK
<1> QED
  BY <1>1, HandledDoes, SameKeeps

LEMMA CodeKeeps ==
  ASSUME SessionInv, NEW c \in Connections, NEW code, Handled(c, 1, Did(<<code>>, FALSE)),
         SameJobs, SameChallenges, UNCHANGED <<inMedia, trusted>>
  PROVE  SessionInv'
<1>1. inMedia' \subseteq Connections /\ trusted' \subseteq DeviceIds
  BY DEF SessionInv, SessionTypeOK
<1> QED
  BY <1>1, AnswerDoes, SameKeeps

LEMMA SilentKeeps ==
  ASSUME SessionInv, NEW c \in Connections, Handled(c, 0, Did(<<>>, FALSE)),
         SameJobs, SameChallenges, inMedia' \subseteq Connections, UNCHANGED trusted
  PROVE  SessionInv'
<1> DEFINE o == Did(<<>>, FALSE)
<1>1. o.codes = <<>> /\ o.effect = FALSE
  BY DidIs, Zenon
<1>2. Handled(c, 0, o)
  OBVIOUS
<1> HIDE DEF o
<1>3. Honest(o) /\ Kept(0, o)
  BY <1>1 DEF Honest, Kept
<1>4. o.effect => IsAuthorized(c)
  BY <1>1
<1> QED
  BY <1>2, <1>3, <1>4, AnswerKeeps

LEMMA CommandKeeps ==
  ASSUME SessionInv, NEW c \in Connections, IsAuthorized(c), RunCommand(c)
  PROVE  SessionInv'
<1>1. PICK o \in Outcomes[(c \in inMedia)] : Handled(c, o.promises, o)
  BY DEF RunCommand
<1> DEFINE inside == c \in inMedia
<1>2. Honest(o) /\ Kept(o.promises, o)
  <2>1. inside \in BOOLEAN
    OBVIOUS
  <2>2. o \in Outcomes[inside]
    BY <1>1
  <2> HIDE DEF inside
  <2> QED
    BY <2>1, <2>2, OutcomesDo
<1>3. SameJobs /\ SameChallenges /\ UNCHANGED <<inMedia, trusted>>
  BY DEF RunCommand
<1>4. inMedia' \subseteq Connections
  BY <1>3 DEF SessionInv, SessionTypeOK
<1> QED
  BY <1>1, <1>2, <1>3, <1>4, AnswerKeeps

(* Jobs: an answer is owed as long as the goroutine is under way.            *)
Accounts ==
  /\ jobs \in [Connections -> 0..MaxJobs] /\ owed \in [Connections -> Nat]
  /\ AnswersOwed /\ RefusedIsUntouched

LEMMA SameAccounts ==
  ASSUME SessionInv, UNCHANGED <<jobs, owed>>, RefusedIsUntouched'
  PROVE  Accounts'
BY DEF SessionInv, SessionTypeOK, AnswersOwed, Accounts

LEMMA JobBegins ==
  ASSUME SessionInv, NEW c \in Connections, NEW promises, NEW o, Handled(c, promises, o),
         Honest(o), o.effect => IsAuthorized(c), promises = Len(o.codes) + 1, Len(o.codes) \in Nat,
         jobs[c] < MaxJobs, jobs' = [jobs EXCEPT ![c] = @ + 1]
  PROVE  Accounts' /\ last'.codes = o.codes
<1>1. /\ RefusedIsUntouched' /\ last'.codes = o.codes
      /\ owed' = [owed EXCEPT ![c] = @ + 1]
  BY HandledDoes
<1>2. /\ jobs \in [Connections -> 0..MaxJobs] /\ owed \in [Connections -> Nat]
      /\ \A b \in Connections : owed[b] = jobs[b]
  BY DEF SessionInv, SessionTypeOK, AnswersOwed
<1>3. jobs' \in [Connections -> 0..MaxJobs] /\ owed' \in [Connections -> Nat]
  BY <1>1, <1>2
<1>4. AnswersOwed'
  BY <1>1, <1>2 DEF AnswersOwed
<1> QED
  BY <1>1, <1>3, <1>4 DEF Accounts

LEMMA LaunchKeeps ==
  ASSUME SessionInv, NEW c \in Connections, IsAuthorized(c), NEW invalid, Launch(c, invalid)
  PROVE  SessionInv'
<1>1. SameChallenges /\ UNCHANGED <<inMedia, trusted>>
  BY DEF Launch
<1>2. CASE Handled(c, 1, Did(<<"400">>, FALSE)) /\ SameJobs
  BY <1>1, <1>2, CodeKeeps
<1>3. CASE /\ jobs[c] < MaxJobs
           /\ jobs' = [jobs EXCEPT ![c] = @ + 1]
           /\ Handled(c, 1, Did(<<>>, TRUE))
  <2> DEFINE o == Did(<<>>, TRUE)
  <2>1. o.codes = <<>>
    BY DidIs, Zenon
  <2>2. Handled(c, 1, o)
    BY <1>3
  <2> HIDE DEF o
  <2>3. Honest(o) /\ 1 = Len(o.codes) + 1 /\ Len(o.codes) \in Nat
    BY <2>1 DEF Honest
  <2>4. Accounts'
    BY <1>3, <2>2, <2>3, JobBegins
  <2>5. UNCHANGED <<secret, device, issued, held, challenge, expired, spent>> /\ Tokens' = Tokens
    BY <1>1 DEF SameChallenges, Tokens
  <2>6. SessionTypeOK'
    BY <1>1, <2>4, <2>5 DEF SessionInv, SessionTypeOK, Accounts
  <2>7. Tracked'
    BY <2>5 DEF SessionInv, Tracked
  <2> QED
    BY <2>4, <2>6, <2>7 DEF SessionInv, Accounts
<1> QED
  BY <1>2, <1>3 DEF Launch

(* A device that is not trusted is told "failed", or "pending" and owed more. *)
LEMMA SettleDoes ==
  ASSUME SessionInv, NEW c \in Connections, NEW d, Settle(c, d)
  PROVE  Accounts' /\ \E code \in {"authorized", "failed", "pending"} : last'.codes = <<code>>
<1>1. ASSUME NEW code \in {"authorized", "failed"}, AuthAnswer(c, code), SameJobs
      PROVE  Accounts' /\ last'.codes = <<code>>
  <2>1. RefusedIsUntouched' /\ owed' = owed /\ last'.codes = <<code>>
    BY <1>1, AnswerDoes DEF AuthAnswer
  <2> QED
    BY <1>1, <2>1, SameAccounts DEF SameJobs
<1>2. ASSUME jobs[c] < MaxJobs, jobs' = [jobs EXCEPT ![c] = @ + 1],
             Handled(c, 2, Did(<<"pending">>, FALSE))
      PROVE  Accounts' /\ last'.codes = <<"pending">>
  <2> DEFINE o == Did(<<"pending">>, FALSE)
  <2>1. o.codes = <<"pending">> /\ o.effect = FALSE
    BY DidIs, Zenon
  <2>2. Handled(c, 2, o)
    BY <1>2
  <2> HIDE DEF o
  <2>3. Honest(o) /\ Len(o.codes) = 1 /\ (o.effect => IsAuthorized(c))
    BY <2>1, OneCode DEF Honest
  <2>4. 2 = Len(o.codes) + 1 /\ Len(o.codes) \in Nat
    BY <2>3
  <2> QED
    BY <1>2, <2>1, <2>2, <2>3, <2>4, JobBegins
<1> QED
  BY <1>1, <1>2 DEF Settle

LEMMA JobEndsKeeps ==
  ASSUME SessionInv, NEW c \in Connections, JobEnds(c)
  PROVE  SessionInv'
<1>1. /\ jobs[c] > 0 /\ jobs' = [jobs EXCEPT ![c] = @ - 1] /\ owed' = [owed EXCEPT ![c] = @ - 1]
      /\ UNCHANGED <<secret, device, issued, held, challenge, expired, spent, inMedia, trusted, last>>
  BY DEF JobEnds, SameChallenges
<1>2. Tokens' = Tokens
  BY <1>1 DEF Tokens
<1>3. owed[c] = jobs[c]
  BY DEF SessionInv, AnswersOwed
<1>4. SessionTypeOK'
  BY <1>1, <1>2, <1>3 DEF SessionInv, SessionTypeOK
<1>5. AnswersOwed'
  BY <1>1 DEF SessionInv, SessionTypeOK, AnswersOwed
<1>6. RefusedIsUntouched' /\ Tracked'
  BY <1>1, <1>2 DEF SessionInv, RefusedIsUntouched, Tracked
<1> QED
  BY <1>4, <1>5, <1>6 DEF SessionInv

-----------------------------------------------------------------------------
(* Challenges.                                                               *)
LEMMA TokenTypes ==
  ASSUME SessionInv, NEW t \in Tokens
  PROVE  /\ t \in Nat \ {0} /\ issued[t] \in DeviceIds
         /\ t \notin spent <=> challenge[issued[t]] = t
<1>1. issued \in Seq(DeviceIds) /\ Tracked
  BY DEF SessionInv, SessionTypeOK
<1>2. t \in 1..Len(issued) /\ Len(issued) \in Nat
  BY <1>1 DEF Tokens
<1>3. t \in Nat \ {0} /\ issued[t] \in DeviceIds
  BY <1>1, <1>2
<1> QED
  BY <1>1, <1>3 DEF Tracked

(* A token that is kept is not spent, and is of the device it is kept for.   *)
LEMMA KeptIsUnspent ==
  ASSUME SessionInv, NEW d \in DeviceIds, challenge[d] # 0
  PROVE  challenge[d] \in Tokens /\ challenge[d] \notin spent /\ issued[challenge[d]] = d
<1>1. issued[challenge[d]] = d /\ challenge[d] \in 0..Len(issued)
  BY DEF SessionInv, SessionTypeOK
<1>2. challenge[d] \in Tokens
  BY <1>1 DEF Tokens, SessionInv, SessionTypeOK
<1> QED
  BY <1>1, <1>2, TokenTypes

LEMMA GenerateKeeps ==
  ASSUME SessionInv, NEW c \in Connections, NEW d \in DeviceIds, Generate(c, d),
         UNCHANGED <<secret, jobs, inMedia, trusted, owed>>, RefusedIsUntouched',
         device' = [device EXCEPT ![c] = d]
  PROVE  SessionInv'
<1> DEFINE n == Len(issued) + 1
<1>1. SessionTypeOK
  BY DEF SessionInv
<1>2. /\ issued' = Append(issued, d) /\ Len(issued) < MaxTokens
      /\ spent' = spent \cup {t \in Tokens : issued[t] = d} /\ UNCHANGED expired
  BY DEF Generate
<1>3. /\ issued' \in Seq(DeviceIds) /\ Len(issued') = n /\ n \in Nat \ {0} /\ n <= MaxTokens
      /\ issued'[n] = d /\ \A t \in 1..Len(issued) : issued'[t] = issued[t]
  BY <1>1, <1>2 DEF SessionTypeOK
<1>4. held' = [held EXCEPT ![c] = n] /\ challenge' = [challenge EXCEPT ![d] = n]
  BY <1>3 DEF Generate
<1>5. Tokens = 1..Len(issued) /\ Tokens' = 1..n /\ Tokens' = Tokens \cup {n} /\ n \notin Tokens
  BY <1>1, <1>3 DEF Tokens, SessionTypeOK
<1> HIDE DEF n
<1>6. 0..Len(issued) \subseteq 0..n /\ n \in 0..n
  BY <1>1, <1>3 DEF SessionTypeOK, n
<1>7. held' \in [Connections -> 0..n]
  BY <1>1, <1>4, <1>6 DEF SessionTypeOK
<1>8. challenge' \in [DeviceIds -> 0..n]
  BY <1>1, <1>4, <1>6 DEF SessionTypeOK
<1>9. ASSUME NEW e \in DeviceIds, challenge'[e] # 0 PROVE issued'[challenge'[e]] = e
  <2>1. CASE e = d
    BY <1>1, <1>3, <1>4, <2>1 DEF SessionTypeOK
  <2>2. CASE e # d
    <3>1. challenge'[e] = challenge[e]
      BY <1>1, <1>4, <2>2 DEF SessionTypeOK
    <3>2. challenge[e] \in Tokens /\ issued[challenge[e]] = e
      BY <1>9, <3>1, KeptIsUnspent
    <3> QED
      BY <1>3, <1>5, <3>1, <3>2
  <2> QED
    BY <2>1, <2>2
<1>10. SessionTypeOK'
  BY <1>1, <1>2, <1>3, <1>5, <1>7, <1>8, <1>9 DEF SessionTypeOK
<1>11. ASSUME NEW t \in Tokens' PROVE t \notin spent' <=> challenge'[issued'[t]] = t
  <2>1. CASE t = n
    BY <1>1, <1>2, <1>3, <1>4, <1>5, <2>1 DEF SessionTypeOK
  <2>2. CASE t \in Tokens
    <3>1. issued'[t] = issued[t] /\ issued[t] \in DeviceIds /\ (t \notin spent <=> challenge[issued[t]] = t)
      BY <1>3, <1>5, <2>2, TokenTypes
    <3>2. CASE issued[t] = d
      BY <1>1, <1>2, <1>4, <1>5, <2>2, <3>1, <3>2 DEF SessionTypeOK
    <3>3. CASE issued[t] # d
      BY <1>1, <1>2, <1>4, <2>2, <3>1, <3>3 DEF SessionTypeOK
    <3> QED
      BY <3>2, <3>3
  <2> QED
    BY <1>5, <2>1, <2>2
<1>12. AnswersOwed'
  BY DEF SessionInv, AnswersOwed
<1> QED
  BY <1>10, <1>11, <1>12 DEF SessionInv, Tracked

LEMMA AuthRequestKeeps ==
  ASSUME SessionInv, NEW c \in Connections, NEW d \in DeviceIds, AnswerAuthRequest(c, d)
  PROVE  SessionInv'
<1>1. device' = [device EXCEPT ![c] = d] /\ UNCHANGED <<secret, inMedia, trusted>>
  BY DEF AnswerAuthRequest
<1>2. ASSUME NEW code, AuthAnswer(c, code), SameJobs
      PROVE  RefusedIsUntouched' /\ UNCHANGED <<jobs, owed>>
  BY <1>2, AnswerDoes DEF AuthAnswer, SameJobs
<1>3. CASE Generate(c, d) /\ AuthAnswer(c, "challenge") /\ SameJobs
  BY <1>1, <1>2, <1>3, GenerateKeeps
<1>4. CASE Accounts' /\ UNCHANGED <<issued, held, challenge, expired, spent>>
  <2>1. Tokens' = Tokens
    BY <1>4 DEF Tokens
  <2>2. SessionTypeOK'
    BY <1>1, <1>4, <2>1 DEF SessionInv, SessionTypeOK, Accounts
  <2>3. Tracked'
    BY <1>4, <2>1 DEF SessionInv, Tracked
  <2> QED
    BY <1>4, <2>2, <2>3 DEF SessionInv, Accounts
<1>5. CASE AuthAnswer(c, "failed") /\ SameJobs /\ UNCHANGED <<issued, held, challenge, expired, spent>>
  BY <1>2, <1>4, <1>5, SameAccounts
<1>6. CASE Settle(c, d) /\ UNCHANGED <<issued, held, challenge, expired, spent>>
  BY <1>4, <1>6, SettleDoes
<1> QED
  BY <1>3, <1>5, <1>6 DEF AnswerAuthRequest

(* A response is answered by the device's standing, or refused.              *)
LEMMA ResponseDoes ==
  ASSUME SessionInv, NEW c \in Connections, NEW right \in BOOLEAN,
         HandleChallengeResponse(c, right)
  PROVE  /\ Accounts'
         /\ \E code \in IF Verified(device[c], held[c], right)
                        THEN {"authorized", "failed", "pending"} ELSE {"challenge_invalid"} :
              last'.codes = <<code>>
<1>1. CASE Verified(device[c], held[c], right) /\ Settle(c, device[c])
  BY <1>1, SettleDoes
<1>2. CASE ~Verified(device[c], held[c], right) /\ AuthAnswer(c, "challenge_invalid") /\ SameJobs
  <2>1. RefusedIsUntouched' /\ owed' = owed /\ last'.codes = <<"challenge_invalid">>
    BY <1>2, AnswerDoes DEF AuthAnswer
  <2> QED
    BY <1>2, <2>1, SameAccounts DEF SameJobs
<1> QED
  BY <1>1, <1>2 DEF HandleChallengeResponse

LEMMA ResponseKeeps ==
  ASSUME SessionInv, NEW c \in Connections, NEW right \in BOOLEAN,
         HandleChallengeResponse(c, right)
  PROVE  SessionInv'
<1> DEFINE d == device[c]
<1>1. SessionTypeOK /\ AnswersOwed
  BY DEF SessionInv
<1>2. d \in DeviceIds
  BY <1>1 DEF HandleChallengeResponse, SessionTypeOK
<1>3. /\ challenge' = [challenge EXCEPT ![d] = 0]
      /\ spent' = spent \cup ({challenge[d]} \ {0})
      /\ UNCHANGED <<secret, device, issued, held, expired, inMedia, trusted>>
  BY DEF HandleChallengeResponse, Consume
<1>4. Accounts'
  BY ResponseDoes
<1>5. Tokens' = Tokens
  BY <1>3 DEF Tokens
<1> HIDE DEF d
<1>6. spent' \subseteq Tokens
  BY <1>1, <1>2, <1>3, KeptIsUnspent DEF SessionTypeOK
<1>7. /\ challenge' \in [DeviceIds -> 0..Len(issued)]
      /\ \A e \in DeviceIds : challenge'[e] = IF e = d THEN 0 ELSE challenge[e]
  <2>1. challenge \in [DeviceIds -> 0..Len(issued)] /\ 0 \in 0..Len(issued)
    BY <1>1 DEF SessionTypeOK
  <2> QED
    BY <1>3, <2>1
<1>8. SessionTypeOK'
  BY <1>1, <1>3, <1>4, <1>5, <1>6, <1>7 DEF SessionTypeOK, Accounts
<1>9. ASSUME NEW t \in Tokens PROVE t \notin spent' <=> challenge'[issued[t]] = t
  <2>1. t # 0 /\ issued[t] \in DeviceIds /\ (t \notin spent <=> challenge[issued[t]] = t)
    BY TokenTypes
  <2>2. CASE issued[t] = d
    BY <1>3, <1>7, <2>1, <2>2
  <2>3. CASE issued[t] # d
    <3>1. t # challenge[d]
      BY <1>2, <2>1, <2>3, KeptIsUnspent
    <3> QED
      BY <1>3, <1>7, <2>1, <2>3, <3>1
  <2> QED
    BY <2>2, <2>3
<1>10. Tracked'
  BY <1>3, <1>5, <1>9 DEF Tracked
<1> QED
  BY <1>4, <1>8, <1>10 DEF SessionInv, Accounts

-----------------------------------------------------------------------------
(* The other steps.                                                          *)
LEMMA ReceiveKeeps ==
  ASSUME SessionInv, NEW c \in Connections, Receive(c)
  PROVE  SessionInv'
<1>1. ASSUME OverLimit(c) \/ Unauthorized(c) PROVE SessionInv'
  <2>1. \E code : Refuse(c, code)
    BY <1>1 DEF OverLimit, Unauthorized
  <2> QED
    BY <2>1, CodeKeeps DEF Refuse
<1>2. ASSUME IsAuthorized(c), RunCommand(c) PROVE SessionInv'
  BY <1>2, CommandKeeps
<1>3. ASSUME ChangeRoom(c) \/ Ignore(c) PROVE SessionInv'
  <2>1. inMedia' \subseteq Connections
    BY <1>3 DEF ChangeRoom, Ignore, SessionInv, SessionTypeOK
  <2>2. Handled(c, 0, Did(<<>>, FALSE)) /\ SameJobs /\ SameChallenges /\ UNCHANGED trusted
    BY <1>3 DEF ChangeRoom, Ignore
  <2> QED
    BY <2>1, <2>2, SilentKeeps
<1>4. ASSUME IsAuthorized(c), NEW d \in Data, HandleScriptExecute(c, d) \/ HandleShellExec(c, d)
      PROVE  SessionInv'
  BY <1>4, LaunchKeeps DEF HandleScriptExecute, HandleShellExec
<1>5. ASSUME AnswerPing(c) PROVE SessionInv'
  <2>1. Handled(c, 1, Did(<<"200">>, FALSE)) /\ SameJobs /\ SameChallenges /\ UNCHANGED <<inMedia, trusted>>
    BY <1>5 DEF AnswerPing, HandlePingMessage, Answering
  <2> QED
    BY <2>1, CodeKeeps
<1>6. ASSUME AuthRequestRefused(c) \/ AnswerAuthCheck(c) \/ ChallengeResponseRefused(c)
      PROVE  SessionInv'
  <2>1. \E code : AuthAnswer(c, code)
    BY <1>6 DEF AuthRequestRefused, AnswerAuthCheck, ChallengeResponseRefused
  <2>2. SameJobs /\ SameChallenges /\ UNCHANGED <<inMedia, trusted>>
    BY <1>6 DEF AuthRequestRefused, AnswerAuthCheck, ChallengeResponseRefused
  <2> QED
    BY <2>1, <2>2, CodeKeeps DEF AuthAnswer
<1>7. ASSUME NEW d \in DeviceIds, AnswerAuthRequest(c, d) PROVE SessionInv'
  BY <1>7, AuthRequestKeeps
<1>8. ASSUME NEW right \in BOOLEAN, HandleChallengeResponse(c, right) PROVE SessionInv'
  BY <1>8, ResponseKeeps
<1> QED
  BY <1>1, <1>2, <1>3, <1>4, <1>5, <1>6, <1>7, <1>8 DEF Receive

LEMMA OthersKeep ==
  ASSUME SessionInv, HandleRest \/ ChallengeExpires \/ Decide \/ SetSecret
  PROVE  SessionInv'
<1>1. SessionTypeOK /\ RefusedIsUntouched
  BY DEF SessionInv
<1>2. CASE HandleRest
  <2>1. last' \in RestOutcomes[secret] /\ secret \in BOOLEAN
    BY <1>1, <1>2 DEF HandleRest, SessionTypeOK
  <2>2. RefusedIsUntouched'
    BY <2>1, RestDoes DEF RefusedIsUntouched, Done
  <2>3. /\ SameJobs /\ SameChallenges /\ UNCHANGED owed
        /\ inMedia' \subseteq Connections /\ trusted' \subseteq DeviceIds
    BY <1>1, <1>2 DEF HandleRest, SessionTypeOK
  <2> QED
    BY <2>2, <2>3, SameKeeps
<1>3. CASE ChallengeExpires
  <2>1. UNCHANGED <<secret, device, inMedia, trusted, issued, held, challenge, jobs, owed, spent, last>>
    BY <1>3 DEF ChallengeExpires
  <2>2. Tokens' = Tokens
    BY <2>1 DEF Tokens
  <2>3. expired' \subseteq Tokens
    BY <1>1, <1>3 DEF ChallengeExpires, SessionTypeOK, Tokens
  <2>4. SessionTypeOK'
    BY <1>1, <2>1, <2>2, <2>3 DEF SessionTypeOK
  <2> QED
    BY <2>1, <2>2, <2>4 DEF SessionInv, AnswersOwed, RefusedIsUntouched, Tracked
<1>4. CASE Decide
  <2>1. RefusedIsUntouched'
    BY <1>1, <1>4 DEF Decide, RefusedIsUntouched
  <2>2. /\ SameJobs /\ SameChallenges /\ UNCHANGED owed
        /\ inMedia' \subseteq Connections /\ trusted' \subseteq DeviceIds
    BY <1>1, <1>4 DEF Decide, SessionTypeOK
  <2> QED
    BY <2>1, <2>2, SameKeeps
<1>5. CASE SetSecret
  <2>1. /\ secret' \in BOOLEAN
        /\ UNCHANGED <<device, inMedia, trusted, issued, held, challenge, expired, jobs, owed, spent, last>>
    BY <1>5 DEF SetSecret
  <2>2. Tokens' = Tokens
    BY <2>1 DEF Tokens
  <2> QED
    BY <2>1, <2>2 DEF SessionInv, SessionTypeOK, AnswersOwed, RefusedIsUntouched, Tracked
<1> QED
  BY <1>2, <1>3, <1>4, <1>5

LEMMA SessionStep == SessionInv /\ [SessionNext]_sessionVars => SessionInv'
<1>1. SessionInv /\ UNCHANGED sessionVars => SessionInv'
  <2> SUFFICES ASSUME SessionInv, UNCHANGED sessionVars PROVE SessionInv'
    OBVIOUS
  <2>1. UNCHANGED <<secret, device, inMedia, trusted, issued, held, challenge, expired, jobs, owed, spent, last>>
    BY DEF sessionVars
  <2>2. Tokens' = Tokens
    BY <2>1 DEF Tokens
  <2> QED
    BY <2>1, <2>2 DEF SessionInv, SessionTypeOK, AnswersOwed, RefusedIsUntouched, Tracked
<1> QED
  BY <1>1, ReceiveKeeps, JobEndsKeeps, OthersKeep DEF SessionNext

LEMMA SessionInvariant == SessionSpec => []SessionInv
BY SessionInitially, SessionStep, PTL DEF SessionSpec

-----------------------------------------------------------------------------
(* The type invariant; among it, a token is kept for the device it was       *)
(* issued to.                                                                *)
THEOREM SessionTypes == SessionSpec => []SessionTypeOK
<1>1. SessionInv => SessionTypeOK
  BY DEF SessionInv
<1> QED
  BY SessionInvariant, <1>1, PTL

(* Every message gets the answers it is due, one, none or, when its request   *)
(* is pending, two; what is outstanding is owed by a goroutine under way.    *)
THEOREM EveryMessageIsAnswered == SessionSpec => []AnswersOwed
<1>1. SessionInv => AnswersOwed
  BY DEF SessionInv
<1> QED
  BY SessionInvariant, <1>1, PTL

(* What is refused has not touched the host, on any path to a handler.       *)
THEOREM RefusalsTouchNothing == SessionSpec => []RefusedIsUntouched
<1>1. SessionInv => RefusedIsUntouched
  BY DEF SessionInv
<1> QED
  BY SessionInvariant, <1>1, PTL

(* The answer to a challenge response says whether it was verified.          *)
LEMMA ResponseIsVerified ==
  ASSUME SessionInv, NEW c \in Connections, NEW right \in BOOLEAN,
         HandleChallengeResponse(c, right)
  PROVE  last'.codes # <<"challenge_invalid">> <=> Verified(device[c], held[c], right)
<1>1. PICK code \in IF Verified(device[c], held[c], right)
                    THEN {"authorized", "failed", "pending"} ELSE {"challenge_invalid"} :
        last'.codes = <<code>>
  BY ResponseDoes
<1>2. code = "challenge_invalid" <=> ~Verified(device[c], held[c], right)
  BY <1>1
<1>3. <<code>>[1] = code /\ <<"challenge_invalid">>[1] = "challenge_invalid"
  BY OneCode
<1> QED
  BY <1>1, <1>2, <1>3, Zenon

(* A challenge is accepted from the first answer to it only, and only while  *)
(* it is the newest of its device.                                           *)
THEOREM ChallengesServeOnce == SessionSpec => ChallengesAreOneTime
<1>1. ASSUME SessionInv, NEW c \in Connections, NEW right \in BOOLEAN,
             HandleChallengeResponse(c, right)
      PROVE  LET t == held[c]
             IN  (last'.codes # <<"challenge_invalid">>) <=>
                   /\ right /\ t # 0 /\ t \notin expired \cup spent
                   /\ issued[t] = device[c]
  <2> DEFINE t == held[c]
  <2>1. t \in 0..Len(issued) /\ device[c] \in DeviceIds
    BY <1>1 DEF SessionInv, SessionTypeOK, HandleChallengeResponse
  <2>2. t # 0 => t \in Tokens
    BY <1>1, <2>1 DEF Tokens, SessionInv, SessionTypeOK
  <2>3. t # 0 => (challenge[device[c]] = t <=> t \notin spent /\ issued[t] = device[c])
    BY <1>1, <2>1, <2>2, TokenTypes, KeptIsUnspent
  <2>4. Verified(device[c], t, right) <=>
          right /\ t # 0 /\ t \notin expired \cup spent /\ issued[t] = device[c]
    BY <2>1, <2>3 DEF Verified
  <2> QED
    BY <1>1, <2>4, ResponseIsVerified
<1>2. SessionInv => [\A c \in Connections, right \in BOOLEAN :
         HandleChallengeResponse(c, right) =>
           LET t == held[c]
           IN  (last'.codes # <<"challenge_invalid">>) <=>
                 /\ right /\ t # 0 /\ t \notin expired \cup spent
                 /\ issued[t] = device[c]]_sessionVars
  BY <1>1
<1> QED
  BY SessionInvariant, <1>2, PTL DEF ChallengesAreOneTime

-----------------------------------------------------------------------------
(* The token bucket, for every Capacity, Rate and Cost.                      *)
(* What a caller could still spend at once, added to what has passed, never  *)
(* exceeds the burst and what the rate has added since the window opened:    *)
(* the bound alone says nothing of the tokens that are left.                 *)
Budget == passed * Cost + Refilled <= Capacity + Rate * (clock - from)

LimiterInv == LimiterTypeOK /\ Budget

LEMMA Elapsed == \A now \in Nat : \A then \in 0..now : now - then \in Nat
OBVIOUS

LEMMA RefilledBounds ==
  ASSUME LimiterTypeOK
  PROVE  /\ Refilled \in 0..Capacity
         /\ tokens <= Refilled
         /\ Refilled <= tokens + Rate * (clock - lastTime)
<1> USE LimiterAssumption DEF LimiterAssumption
<1>1. clock - lastTime \in Nat
  BY Elapsed DEF LimiterTypeOK
<1>2. Rate * (clock - lastTime) \in Nat
  BY <1>1
<1> QED
  BY <1>2 DEF LimiterTypeOK, Refilled

(* The next state's value, spelled out. *)
LEMMA RefilledNext ==
  Refilled' = IF tokens' + Rate * (clock' - lastTime') > Capacity
              THEN Capacity ELSE tokens' + Rate * (clock' - lastTime')
BY Zenon DEF Refilled

LEMMA LimiterInitially == LimiterInit => LimiterInv
<1> SUFFICES ASSUME LimiterInit PROVE LimiterInv
  OBVIOUS
<1> USE LimiterAssumption DEF LimiterAssumption
<1>1. LimiterTypeOK
  <2>1. refused \in BOOLEAN
    BY Zenon DEF LimiterInit
  <2> QED
    BY <2>1 DEF LimiterInit, LimiterTypeOK
<1>2. Refilled <= Capacity
  BY <1>1, RefilledBounds
<1>3. passed * Cost = 0 /\ Rate * (clock - from) = 0
  BY DEF LimiterInit
<1> QED
  BY <1>1, <1>2, <1>3, RefilledBounds DEF LimiterInv, Budget

LEMMA LimiterKeepsTypes ==
  LimiterTypeOK /\ [LimiterNext]_limiterVars => LimiterTypeOK'
<1> SUFFICES ASSUME LimiterTypeOK, [LimiterNext]_limiterVars PROVE LimiterTypeOK'
  OBVIOUS
<1> USE LimiterAssumption DEF LimiterAssumption
<1>1. CASE Allow
  BY <1>1, RefilledBounds DEF LimiterTypeOK, Allow
<1>2. CASE Tick
  BY <1>2 DEF LimiterTypeOK, Tick
<1>3. CASE OpenWindow
  BY <1>3 DEF LimiterTypeOK, OpenWindow
<1>4. CASE UNCHANGED limiterVars
  BY <1>4 DEF LimiterTypeOK, limiterVars
<1> QED
  BY <1>1, <1>2, <1>3, <1>4 DEF LimiterNext

LEMMA LimiterKeepsBudget ==
  LimiterInv /\ [LimiterNext]_limiterVars => Budget'
<1> SUFFICES ASSUME LimiterInv, [LimiterNext]_limiterVars PROVE Budget'
  OBVIOUS
<1> USE LimiterAssumption DEF LimiterAssumption
<1>1. LimiterTypeOK /\ LimiterTypeOK' /\ Budget
  BY LimiterKeepsTypes DEF LimiterInv
<1>2. Refilled \in 0..Capacity /\ Refilled' \in 0..Capacity
  <2>1. ASSUME LimiterTypeOK' PROVE Refilled' \in 0..Capacity
    <3>1. tokens' \in 0..Capacity
      BY <2>1 DEF LimiterTypeOK
    <3>2. clock' \in Nat /\ lastTime' \in 0..clock'
      BY <2>1 DEF LimiterTypeOK
    <3>3. clock' - lastTime' \in Nat
      BY <3>2, Elapsed
    <3>4. Rate * (clock' - lastTime') \in Nat
      BY <3>3
    <3> QED
      BY <3>1, <3>4, RefilledNext
  <2> QED
    BY <1>1, <2>1, RefilledBounds
<1>3. CASE Allow
  <2>1. Refilled' = tokens'
    <3>1. Rate * (clock' - lastTime') = 0
      BY <1>1, <1>3 DEF Allow, LimiterTypeOK
    <3>2. tokens' \in 0..Capacity
      BY <1>1 DEF LimiterTypeOK
    <3> QED
      BY <3>1, <3>2, RefilledNext
  <2>2. Rate * (clock' - from') = Rate * (clock - from)
    BY <1>3 DEF Allow
  <2>3. CASE Refilled < Cost
    BY <1>1, <1>3, <2>1, <2>2, <2>3 DEF Allow, Budget
  <2>4. CASE ~(Refilled < Cost)
    <3>1. passed' = passed + 1 /\ tokens' = Refilled - Cost
      BY <1>3, <2>4 DEF Allow
    <3>2. passed' * Cost = passed * Cost + Cost
      BY <1>1, <3>1 DEF LimiterTypeOK
    <3>3. passed * Cost \in Int /\ Rate * (clock - from) \in Int
      BY <1>1 DEF LimiterTypeOK
    <3> QED
      BY <1>1, <1>2, <2>1, <2>2, <3>1, <3>2, <3>3 DEF Budget
  <2> QED
    BY <2>3, <2>4
<1>4. CASE Tick
  <2>1. UNCHANGED <<tokens, lastTime, from, passed>> /\ clock' = clock + 1
    BY <1>4 DEF Tick
  <2>2. Rate * (clock' - from') = Rate * (clock - from) + Rate
    BY <1>1, <2>1 DEF LimiterTypeOK
  <2>3. Rate * (clock' - lastTime') = Rate * (clock - lastTime) + Rate
    BY <1>1, <2>1 DEF LimiterTypeOK
  <2>4. /\ Rate * (clock - lastTime) \in Int /\ Rate * (clock - from) \in Int
        /\ passed * Cost \in Int
    BY <1>1 DEF LimiterTypeOK
  <2>5. Refilled' <= Refilled + Rate
    BY <1>1, <2>1, <2>3, <2>4, RefilledNext DEF Refilled, LimiterTypeOK
  <2> QED
    BY <1>1, <1>2, <2>1, <2>2, <2>4, <2>5 DEF Budget
<1>5. CASE OpenWindow
  <2>1. passed' * Cost = 0 /\ Rate * (clock' - from') = 0
    BY <1>1, <1>5 DEF OpenWindow, LimiterTypeOK
  <2> QED
    BY <1>2, <2>1 DEF Budget
<1>6. CASE UNCHANGED limiterVars
  BY <1>1, <1>6 DEF Budget, Refilled, limiterVars
<1> QED
  BY <1>3, <1>4, <1>5, <1>6 DEF LimiterNext

LEMMA LimiterInvariant == LimiterSpec => []LimiterInv
<1>1. LimiterInv /\ [LimiterNext]_limiterVars => LimiterInv'
  BY LimiterKeepsTypes, LimiterKeepsBudget DEF LimiterInv
<1> QED
  BY LimiterInitially, <1>1, PTL DEF LimiterSpec

-----------------------------------------------------------------------------
(* The type invariant: the bucket never holds more than rateLimitBurst, nor  *)
(* a debt.                                                                   *)
THEOREM BucketIsBounded == LimiterSpec => []LimiterTypeOK
<1>1. LimiterInv => LimiterTypeOK
  BY DEF LimiterInv
<1> QED
  BY LimiterInvariant, <1>1, PTL

(* The promise of ratelimiter.go:19, for every rate, burst and cost.         *)
THEOREM WindowsAreBounded == LimiterSpec => []WindowBound
<1> USE LimiterAssumption DEF LimiterAssumption
<1>1. LimiterInv => WindowBound
  <2> SUFFICES ASSUME LimiterInv PROVE WindowBound
    OBVIOUS
  <2>1. Refilled >= 0 /\ Refilled \in Int
    BY RefilledBounds DEF LimiterInv
  <2>2. passed * Cost \in Int /\ Capacity + Rate * (clock - from) \in Int
    BY DEF LimiterInv, LimiterTypeOK
  <2> QED
    BY <2>1, <2>2 DEF LimiterInv, Budget, WindowBound
<1> QED
  BY LimiterInvariant, <1>1, PTL

(* A connection that waits for the time of one message is let through.       *)
THEOREM WaitingIsEnough == LimiterSpec => WaitIsEnough
<1> USE LimiterAssumption DEF LimiterAssumption
<1>1. LimiterTypeOK /\ [LimiterNext]_limiterVars =>
        [Allow /\ Rate * (clock - lastTime) >= Cost => ~refused']_limiterVars
  <2> SUFFICES ASSUME LimiterTypeOK, Allow, Rate * (clock - lastTime) >= Cost
               PROVE  ~refused'
    OBVIOUS
  <2>1. Rate * (clock - lastTime) \in Int
    BY DEF LimiterTypeOK
  <2>2. Refilled >= Cost
    BY <2>1 DEF LimiterTypeOK, Refilled
  <2>3. Refilled \in Int
    BY RefilledBounds
  <2>4. ~(Refilled < Cost)
    BY <2>2, <2>3
  <2> QED
    BY <2>4, Zenon DEF Allow
<1> QED
  BY BucketIsBounded, <1>1, PTL DEF LimiterSpec, WaitIsEnough

-----------------------------------------------------------------------------
(* Schedule.tla.  Whole numbers divided: quotient and remainder, and that    *)
(* there are no others.                                                      *)
LEMMA Division ==
  ASSUME NEW n \in Nat, NEW d \in Nat \ {0}
  PROVE  n \div d \in Nat /\ n % d \in 0..(d - 1) /\ n = d * (n \div d) + (n % d)
OBVIOUS

LEMMA Products ==
  ASSUME NEW d \in Nat, NEW p \in Nat, NEW q \in Nat, p < q
  PROVE  d * p \in Nat /\ d * q \in Nat /\ d * q >= d * p + d
<1>1. PICK k \in Nat : q = p + 1 + k
  <2>1. q - p - 1 \in Nat /\ q = p + 1 + (q - p - 1)
    OBVIOUS
  <2> QED
    BY <2>1
<1>2. d * k \in Nat /\ d * p \in Nat
  OBVIOUS
<1>3. d * (p + 1 + k) = d * p + d + d * k
  OBVIOUS
<1> QED
  BY <1>1, <1>2, <1>3

LEMMA Divided ==
  ASSUME NEW d \in Nat \ {0}, NEW p \in Nat, NEW r \in 0..(d - 1),
         NEW q \in Nat, NEW s \in 0..(d - 1), d * p + r = d * q + s
  PROVE  p = q /\ r = s
<1>1. CASE p < q
  BY <1>1, Products
<1>2. CASE q < p
  BY <1>2, Products
<1>3. CASE p = q
  <2>1. d * p \in Nat
    OBVIOUS
  <2> QED
    BY <1>3, <2>1
<1> QED
  BY <1>1, <1>2, <1>3

LEMMA Quotient ==
  ASSUME NEW d \in Nat \ {0}, NEW q \in Nat, NEW r \in 0..(d - 1),
         NEW n \in Nat, n = d * q + r
  PROVE  n \div d = q /\ n % d = r
BY Division, Divided

(* An hour is a number of minutes, and a day of hours: the minute of the day *)
(* is the hour of the day and the minute of the hour.                        *)
LEMMA DayIsHours ==
  ASSUME NEW x \in Nat, NEW a \in Nat \ {0}, NEW b \in Nat \ {0}
  PROVE  /\ (x \div a) % b \in 0..(b - 1) /\ x % a \in 0..(a - 1)
         /\ x % (a * b) = ((x \div a) % b) * a + (x % a)
<1>1. PICK q \in Nat, r \in 0..(a - 1) : q = x \div a /\ r = x % a /\ x = a * q + r
  BY Division
<1>2. PICK p \in Nat, h \in 0..(b - 1) : p = q \div b /\ h = q % b /\ q = b * p + h
  BY Division
<1>3. a * b \in Nat \ {0} /\ h * a + r \in Nat
  <2>1. a >= 1 /\ b >= 1
    OBVIOUS
  <2>2. a * b >= 1
    BY <2>1
  <2> QED
    BY <2>2
<1>4. h * a + r \in 0..(a * b - 1)
  <2>1. h < b /\ h \in Nat
    OBVIOUS
  <2>2. a * b >= a * h + a
    BY <2>1, Products
  <2>3. a * h = h * a /\ a * h \in Nat /\ a * b \in Nat
    BY <2>1
  <2> QED
    BY <1>3, <2>2, <2>3
<1>5. x = (a * b) * p + (h * a + r)
  <2>1. a \in Int /\ b \in Int /\ p \in Int /\ h \in Int
    OBVIOUS
  <2>2. a * (b * p + h) = (a * b) * p + h * a
    BY <2>1
  <2>3. (a * b) * p \in Int /\ h * a \in Int /\ r \in Int
    BY <2>1
  <2>4. x = a * (b * p + h) + r
    BY <1>1, <1>2, Zenon
  <2>5. PICK u \in Int, v \in Int, w \in Int :
          u = a * (b * p + h) /\ v = (a * b) * p /\ w = h * a
    BY <2>1, <2>2, <2>3
  <2>6. x = v + (w + r)
    BY <2>2, <2>3, <2>4, <2>5
  <2> QED
    BY <2>5, <2>6, Zenon
<1>6. x % (a * b) = h * a + r
  <2>1. PICK d \in Nat \ {0} : d = a * b
    BY <1>3
  <2>2. PICK m \in 0..(d - 1) : m = h * a + r
    BY <1>4, <2>1
  <2>3. x = d * p + m
    BY <1>5, <2>1, <2>2
  <2>4. x % d = m
    BY <2>3, Quotient
  <2> QED
    BY <2>1, <2>2, <2>4, Zenon
<1> QED
  BY <1>1, <1>2, <1>6

LEMMA Multiples ==
  ASSUME NEW n \in Nat, NEW d \in Nat \ {0}
  PROVE  n % d = 0 <=> \E k \in 0..n : n = k * d
<1>1. ASSUME n % d = 0 PROVE \E k \in 0..n : n = k * d
  <2>1. n \div d \in Nat /\ n = d * (n \div d)
    BY <1>1, Division
  <2>2. PICK k \in Nat : n = d * k
    BY <2>1
  <2>3. n = k * d
    BY <2>2
  <2>4. k <= n
    <3>1. CASE k = 0
      BY <3>1
    <3>2. CASE k > 0
      <4>1. k * d >= k * 0 + k
        BY Products
      <4> QED
        BY <2>3, <4>1
    <3> QED
      BY <3>1, <3>2
  <2> QED
    BY <2>3, <2>4
<1>2. ASSUME NEW k \in 0..n, n = k * d PROVE n % d = 0
  <2>1. k \in Nat /\ 0 \in 0..(d - 1) /\ n = d * k + 0
    BY <1>2
  <2> QED
    BY <2>1, Quotient
<1> QED
  BY <1>1, <1>2

(* What a schedule is parsed to, valid or not. *)
LEMMA Parsed ==
  ASSUME NEW s \in Schedules
  PROVE  /\ s[1] = "daily" => ParseSchedule(s).kind = "daily"
         /\ s[1] = "hourly" => ParseSchedule(s).kind = "hourly"
         /\ s[1] = "every" /\ s[2] >= TicksPerMinute =>
              /\ ParseSchedule(s).kind = "every"
              /\ ParseSchedule(s).interval = s[2] \div TicksPerMinute
         /\ s[1] = "every" /\ ~(s[2] >= TicksPerMinute) => ParseSchedule(s).kind = "none"
         /\ s[1] = "at" /\ s[2] \in 0..(HoursPerDay - 1) /\ s[3] \in 0..(MinutesPerHour - 1) =>
              /\ ParseSchedule(s).kind = "at"
              /\ ParseSchedule(s).hour = s[2] /\ ParseSchedule(s).minute = s[3]
         /\ s[1] = "at" /\ ~(s[2] \in 0..(HoursPerDay - 1) /\ s[3] \in 0..(MinutesPerHour - 1)) =>
              ParseSchedule(s).kind = "none"
         /\ s[1] \notin {"daily", "hourly", "every", "at"} => ParseSchedule(s).kind = "none"
<1>1. None.kind = "none"
  BY DEF None
<1>2. s[1] = "daily" => ParseSchedule(s).kind = "daily"
  BY DEF ParseSchedule
<1>3. s[1] = "hourly" => ParseSchedule(s).kind = "hourly"
  BY DEF ParseSchedule
<1>4. s[1] = "every" /\ s[2] >= TicksPerMinute =>
        /\ ParseSchedule(s).kind = "every"
        /\ ParseSchedule(s).interval = s[2] \div TicksPerMinute
  BY DEF ParseSchedule
<1>5. s[1] = "every" /\ ~(s[2] >= TicksPerMinute) => ParseSchedule(s).kind = "none"
  BY <1>1 DEF ParseSchedule
<1>6. s[1] = "at" /\ s[2] \in 0..(HoursPerDay - 1) /\ s[3] \in 0..(MinutesPerHour - 1) =>
        /\ ParseSchedule(s).kind = "at"
        /\ ParseSchedule(s).hour = s[2] /\ ParseSchedule(s).minute = s[3]
  BY DEF ParseSchedule
<1>7. s[1] = "at" /\ ~(s[2] \in 0..(HoursPerDay - 1) /\ s[3] \in 0..(MinutesPerHour - 1)) =>
        ParseSchedule(s).kind = "none"
  BY <1>1 DEF ParseSchedule
<1>8. s[1] \notin {"daily", "hourly", "every", "at"} => ParseSchedule(s).kind = "none"
  BY <1>1 DEF ParseSchedule
<1> QED
  BY <1>2, <1>3, <1>4, <1>5, <1>6, <1>7, <1>8

LEMMA Minutes ==
  ASSUME ScheduleTypeOK
  PROVE  /\ time \in Nat /\ Minute \in Nat
         /\ time = TicksPerMinute * Minute + (time % TicksPerMinute)
         /\ time % TicksPerMinute \in 0..(TicksPerMinute - 1)
<1>1. time \in Nat /\ TicksPerMinute \in Nat \ {0}
  BY ScheduleAssumption DEF ScheduleTypeOK, ScheduleAssumption
<1> QED
  BY <1>1, Division DEF Minute

(* The minute of the day, in its two forms. *)
LEMMA Today ==
  ASSUME ScheduleTypeOK
  PROVE  /\ LocalHour \in 0..(HoursPerDay - 1) /\ LocalMinute \in 0..(MinutesPerHour - 1)
         /\ (Minute + Zone) % MinutesPerDay = LocalHour * MinutesPerHour + LocalMinute
<1>1. PICK x \in Nat : x = Minute + Zone
  BY Minutes, ScheduleAssumption DEF ScheduleAssumption
<1>2. MinutesPerHour \in Nat \ {0} /\ HoursPerDay \in Nat \ {0}
  BY ScheduleAssumption DEF ScheduleAssumption
<1>3. /\ (x \div MinutesPerHour) % HoursPerDay \in 0..(HoursPerDay - 1)
      /\ x % MinutesPerHour \in 0..(MinutesPerHour - 1)
      /\ x % (MinutesPerHour * HoursPerDay) =
           ((x \div MinutesPerHour) % HoursPerDay) * MinutesPerHour + (x % MinutesPerHour)
  BY <1>2, DayIsHours
<1> QED
  BY <1>1, <1>3, Zenon DEF LocalHour, LocalMinute, MinutesPerDay

(* An hour and a minute of a day, in one way. *)
LEMMA OneTimeOfDay ==
  ASSUME NEW a \in Nat \ {0}, NEW h \in Nat, NEW m \in 0..(a - 1),
         NEW k \in Int, NEW n \in 0..(a - 1)
  PROVE  h * a + m = k * a + n <=> h = k /\ m = n
<1>1. CASE k \in Nat
  <2>1. a * h + m = a * k + n => h = k /\ m = n
    BY <1>1, Divided
  <2>2. a * h = h * a /\ a * k = k * a
    OBVIOUS
  <2> QED
    BY <2>1, <2>2
<1>2. CASE k \notin Nat
  <2>1. -k \in Nat /\ -k > 0
    BY <1>2
  <2>2. a * (-k) >= a * 0 + a
    BY <2>1, Products
  <2>3. a * (-k) = -(k * a) /\ k * a \in Int /\ h * a \in Nat
    OBVIOUS
  <2>4. k * a <= -a
    BY <2>2, <2>3
  <2> QED
    BY <1>2, <2>3, <2>4
<1> QED
  BY <1>1, <1>2

(* shouldFire does what the schedule means to the user, in every minute but  *)
(* the first of the epoch, which is a multiple even of no interval at all.   *)
LEMMA FiresWhenDue ==
  ASSUME ScheduleTypeOK, Minute >= 1
  PROVE  Due(Minute) <=> ShouldFire(ParseSchedule(schedule))
<1>1. PICK s \in Schedules : s = schedule
  BY DEF ScheduleTypeOK
<1>2. PICK ps : ps = ParseSchedule(s)
  OBVIOUS
<1>3. PICK M \in Nat : M = Minute /\ M >= 1
  BY Minutes
<1>4. PICK a \in Nat \ {0}, b \in Nat \ {0} : a = MinutesPerHour /\ b = HoursPerDay
  BY ScheduleAssumption DEF ScheduleAssumption
<1>5. PICK h \in 0..(b - 1), m \in 0..(a - 1) :
        h = LocalHour /\ m = LocalMinute /\ (M + Zone) % MinutesPerDay = h * a + m
  BY <1>3, <1>4, Today
<1>6. Due(Minute) <=>
        \/ s[1] = "daily" /\ h * a + m = 0
        \/ s[1] = "hourly" /\ \E k \in 0..(b - 1) : h * a + m = k * a
        \/ s[1] = "at" /\ s[3] \in 0..(a - 1) /\ h * a + m = s[2] * a + s[3]
        \/ s[1] = "every" /\ \E k \in 0..M : M = k * (s[2] \div TicksPerMinute)
  BY <1>1, <1>3, <1>4, <1>5, Zenon DEF Due
<1>7. ShouldFire(ParseSchedule(schedule)) <=>
        \/ ps.kind = "daily" /\ h = 0 /\ m = 0
        \/ ps.kind = "hourly" /\ m = 0
        \/ ps.kind = "every" /\ M % ps.interval = 0
        \/ ps.kind = "at" /\ h = ps.hour /\ m = ps.minute
  BY <1>1, <1>2, <1>3, <1>5, Zenon DEF ShouldFire
<1>8. CASE s[1] = "daily"
  <2>1. h * a + m = 0 <=> h = 0 /\ m = 0
    <3>1. h * a + m = 0 * a + 0 <=> h = 0 /\ m = 0
      BY OneTimeOfDay
    <3> QED
      BY <3>1
  <2>2. ps.kind = "daily"
    BY <1>2, <1>8, Parsed
  <2> QED
    BY <1>6, <1>7, <1>8, <2>1, <2>2
<1>9. CASE s[1] = "hourly"
  <2>1. (\E k \in 0..(b - 1) : h * a + m = k * a) <=> m = 0
    <3>1. \A k \in 0..(b - 1) : h * a + m = k * a + 0 <=> h = k /\ m = 0
      BY OneTimeOfDay
    <3>2. \A k \in 0..(b - 1) : k * a + 0 = k * a
      OBVIOUS
    <3> QED
      BY <3>1, <3>2
  <2>2. ps.kind = "hourly"
    BY <1>2, <1>9, Parsed
  <2> QED
    BY <1>6, <1>7, <1>9, <2>1, <2>2
<1>10. CASE s[1] = "at"
  <2>1. s[2] \in Int /\ s[3] \in Int
    BY <1>10, SchedulesAreNumbers DEF SchedulesAreNumbers
  <2>2. s[3] \in 0..(a - 1) => (h * a + m = s[2] * a + s[3] <=> h = s[2] /\ m = s[3])
    BY <2>1, OneTimeOfDay
  <2>3. CASE s[2] \in 0..(b - 1) /\ s[3] \in 0..(a - 1)
    <3>1. ps.kind = "at" /\ ps.hour = s[2] /\ ps.minute = s[3]
      BY <1>2, <1>4, <1>10, <2>3, Parsed
    <3> QED
      BY <1>6, <1>7, <1>10, <2>2, <2>3, <3>1
  <2>4. CASE ~(s[2] \in 0..(b - 1) /\ s[3] \in 0..(a - 1))
    <3>1. ps.kind = "none"
      BY <1>2, <1>4, <1>10, <2>4, Parsed
    <3> QED
      BY <1>6, <1>7, <1>10, <2>2, <2>4, <3>1
  <2> QED
    BY <2>3, <2>4
<1>11. CASE s[1] = "every"
  <2>1. s[2] \in Int /\ TicksPerMinute \in Nat \ {0}
    BY <1>11, SchedulesAreNumbers, ScheduleAssumption DEF SchedulesAreNumbers, ScheduleAssumption
  <2>2. PICK d : d = s[2] \div TicksPerMinute
    OBVIOUS
  <2>3. CASE s[2] >= TicksPerMinute
    <3>1. ps.kind = "every" /\ ps.interval = d
      BY <1>2, <1>11, <2>2, <2>3, Parsed
    <3>2. d \in Nat \ {0}
      <4>1. PICK n \in Nat : n = s[2]
        BY <2>1, <2>3
      <4>2. d = n \div TicksPerMinute
        BY <2>2, <4>1
      <4>3. /\ n = TicksPerMinute * d + (n % TicksPerMinute)
            /\ n % TicksPerMinute \in 0..(TicksPerMinute - 1) /\ d \in Nat
        BY <2>1, <4>2, Division
      <4>4. d = 0 => TicksPerMinute * d = 0
        BY <2>1
      <4> QED
        BY <2>1, <2>3, <4>1, <4>3, <4>4
    <3>3. M % d = 0 <=> \E k \in 0..M : M = k * d
      BY <3>2, Multiples
    <3> QED
      BY <1>6, <1>7, <1>11, <2>2, <3>1, <3>3
  <2>4. CASE ~(s[2] >= TicksPerMinute)
    <3>1. ps.kind = "none"
      BY <1>2, <1>11, <2>4, Parsed
    <3>2. d \in Int /\ d <= 0
      BY <2>1, <2>2, <2>4
    <3>3. ASSUME NEW k \in 0..M PROVE k * d <= 0 /\ k * d \in Int
      BY <3>2
    <3>4. ~\E k \in 0..M : M = k * d
      BY <1>3, <3>3
    <3> QED
      BY <1>6, <1>7, <1>11, <2>2, <3>1, <3>4
  <2> QED
    BY <2>3, <2>4
<1>12. CASE s[1] \notin {"daily", "hourly", "every", "at"}
  <2>1. ps.kind = "none"
    BY <1>2, <1>12, Parsed
  <2> QED
    BY <1>6, <1>7, <1>12, <2>1
<1> QED
  BY <1>8, <1>9, <1>10, <1>11, <1>12

(* Where the loop is: it sleeps until the end of the minute it looked at, or *)
(* of one before; minutes that ended while it should have been awake are     *)
(* late; and what has been triggered was triggered before, in order.         *)
InTime ==
  /\ since >= 1 /\ late < Minute
  /\ cron = "off" => Minute = 0 /\ fires = <<>> /\ time < TicksPerMinute
  /\ cron # "off" => next \in 1..(Minute + 1)
  /\ cron = "sleeps" /\ next < Minute => late = Minute - 1
  /\ \A i \in DOMAIN fires : fires[i] < next
  /\ \A i, j \in DOMAIN fires : i < j => fires[i] < fires[j]

FiredWhenDue ==
  cron = "sleeps" =>
    \A m \in since..(next - 1) :
      m > late => (Due(m) <=> \E i \in DOMAIN fires : fires[i] = m)

ScheduleInv == ScheduleTypeOK /\ InTime /\ FiredWhenDue

LEMMA FiresAre ==
  ASSUME ScheduleTypeOK
  PROVE  fires \in Seq(Nat) /\ Len(fires) \in Nat /\ DOMAIN fires = 1..Len(fires)
         /\ \A i \in DOMAIN fires : fires[i] \in Nat
BY LenProperties, ElementOfSeq DEF ScheduleTypeOK

(* A tick later. *)
LEMMA Ticks ==
  ASSUME ScheduleTypeOK, time' = time + 1
  PROVE  Minute' = IF time' % TicksPerMinute = 0 THEN Minute + 1 ELSE Minute
<1>1. PICK d \in Nat \ {0} : d = TicksPerMinute
  BY ScheduleAssumption DEF ScheduleAssumption
<1>2. PICK r \in 0..(d - 1) : r = time % d /\ time = d * Minute + r /\ time \in Nat /\ Minute \in Nat
  BY <1>1, Minutes
<1>3. PICK M \in Nat : M = Minute
  BY <1>2
<1>4. PICK w \in Nat : w = d * M /\ time = w + r
  BY <1>2, <1>3
<1>5. PICK n \in Nat : n = time' /\ n = w + r + 1
  BY <1>2, <1>4
<1>6. CASE r + 1 < d
  <2>1. r + 1 \in 0..(d - 1) /\ n = w + (r + 1)
    BY <1>5, <1>6
  <2>2. n \div d = M /\ n % d = r + 1
    BY <1>4, <2>1, Quotient
  <2> QED
    BY <1>1, <1>3, <1>5, <2>1, <2>2 DEF Minute
<1>7. CASE r + 1 = d
  <2>1. d * (M + 1) = w + d
    BY <1>4
  <2>2. 0 \in 0..(d - 1) /\ n = d * (M + 1) + 0 /\ M + 1 \in Nat
    BY <1>5, <1>7, <2>1
  <2>3. n \div d = M + 1 /\ n % d = 0
    BY <2>2, Quotient
  <2> QED
    BY <1>1, <1>3, <1>5, <2>3 DEF Minute
<1> QED
  BY <1>6, <1>7

LEMMA ScheduleInitially == ScheduleInit => ScheduleInv
<1> SUFFICES ASSUME ScheduleInit PROVE ScheduleInv
  OBVIOUS
<1>1. /\ time \in 0..(TicksPerMinute - 1) /\ TicksPerMinute \in Nat \ {0}
      /\ MaxTicks \in Nat /\ MaxTicks >= TicksPerMinute
      /\ cron = "off" /\ since = 1 /\ late = -1 /\ next = 0 /\ schedule \in Schedules
  BY ScheduleAssumption DEF ScheduleInit, ScheduleAssumption
<1>2. fires = <<>> /\ DOMAIN fires = {} /\ fires \in Seq(Nat)
  BY DEF ScheduleInit
<1>3. Minute = 0
  <2>1. time = TicksPerMinute * 0 + time /\ time \in Nat
    BY <1>1
  <2> QED
    BY <1>1, <2>1, Quotient DEF Minute
<1>4. ScheduleTypeOK
  BY <1>1, <1>2 DEF ScheduleTypeOK
<1>5. InTime
  BY <1>1, <1>2, <1>3 DEF InTime
<1> QED
  BY <1>1, <1>4, <1>5 DEF ScheduleInv, FiredWhenDue

(* A check: of the minutes since the last one, those before this are late.   *)
LEMMA CheckKeeps == ASSUME ScheduleInv, CheckSchedules PROVE ScheduleInv'
<1>1. ScheduleTypeOK /\ InTime /\ FiredWhenDue
  BY DEF ScheduleInv
<1>2. PICK M \in Nat : M = Minute
  BY <1>1, Minutes
<1>3. /\ cron = "sleeps" /\ M >= next /\ next' = M + 1
      /\ time' = time /\ schedule' = schedule /\ cron' = cron /\ since' = since /\ late' = late
  BY <1>2 DEF CheckSchedules, NextMinute
<1>4. next \in 1..(M + 1) /\ next \in Nat /\ since \in Nat /\ since >= 1 /\ late \in Int /\ late < M
  BY <1>1, <1>2, <1>3 DEF InTime, ScheduleTypeOK
<1>5. Minute' = Minute
  BY <1>3 DEF Minute
<1>6. PICK fired : fired = fires'
  OBVIOUS
<1>7. /\ fired \in Seq(Nat)
      /\ \A i \in DOMAIN fired : fired[i] <= M
      /\ \A i, j \in DOMAIN fired : i < j => fired[i] < fired[j]
      /\ \A m \in 0..(M - 1) : (\E i \in DOMAIN fired : fired[i] = m) <=> \E i \in DOMAIN fires : fires[i] = m
      /\ (\E i \in DOMAIN fired : fired[i] = M) <=> Due(M)
  <2>1. /\ fires \in Seq(Nat) /\ Len(fires) \in Nat /\ DOMAIN fires = 1..Len(fires)
        /\ \A i \in DOMAIN fires : fires[i] \in Nat /\ fires[i] < next
        /\ \A i, j \in DOMAIN fires : i < j => fires[i] < fires[j]
    BY <1>1, FiresAre DEF InTime
  <2>2. \A i \in DOMAIN fires : fires[i] < M
    BY <1>3, <1>4, <2>1
  <2>3. Due(M) <=> ShouldFire(ParseSchedule(schedule))
    BY <1>1, <1>2, <1>3, <1>4, FiresWhenDue
  <2>4. CASE ShouldFire(ParseSchedule(schedule))
    <3>1. fired = Append(fires, M)
      BY <1>2, <1>6, <2>4 DEF CheckSchedules
    <3>2. PICK n \in Nat : n = Len(fires)
      BY <2>1
    <3>3. /\ fired \in Seq(Nat) /\ DOMAIN fired = 1..(n + 1) /\ fired[n + 1] = M
          /\ \A i \in 1..n : fired[i] = fires[i]
      BY <2>1, <3>1, <3>2, AppendProperties, LenProperties
    <3>4. \A i \in 1..n : fired[i] \in Nat /\ fired[i] < M
      BY <2>1, <2>2, <3>2, <3>3
    <3>5. \A i \in DOMAIN fired : fired[i] <= M
      BY <3>3, <3>4
    <3>6. \A i, j \in DOMAIN fired : i < j => fired[i] < fired[j]
      <4> SUFFICES ASSUME NEW i \in 1..(n + 1), NEW j \in 1..(n + 1), i < j PROVE fired[i] < fired[j]
        BY <3>3
      <4>1. CASE j = n + 1
        BY <3>3, <3>4, <4>1
      <4>2. CASE j \in 1..n
        <5>1. i \in 1..n /\ i \in DOMAIN fires /\ j \in DOMAIN fires
          BY <2>1, <3>2, <4>2
        <5> QED
          BY <2>1, <3>3, <4>2, <5>1
      <4> QED
        BY <4>1, <4>2
    <3>7. ASSUME NEW m \in 0..(M - 1)
          PROVE  (\E i \in DOMAIN fired : fired[i] = m) <=> \E i \in DOMAIN fires : fires[i] = m
      <4>1. ASSUME NEW i \in 1..(n + 1), fired[i] = m PROVE i \in 1..n /\ fires[i] = m
        BY <3>3, <4>1
      <4>2. ASSUME NEW i \in 1..n, fires[i] = m PROVE i \in 1..(n + 1) /\ fired[i] = m
        BY <3>3, <4>2
      <4> QED
        BY <2>1, <3>2, <3>3, <4>1, <4>2
    <3>8. \E i \in DOMAIN fired : fired[i] = M
      BY <3>3
    <3> QED
      BY <2>3, <2>4, <3>3, <3>5, <3>6, <3>7, <3>8
  <2>5. CASE ~ShouldFire(ParseSchedule(schedule))
    <3>1. fired = fires
      BY <1>6, <2>5 DEF CheckSchedules
    <3>2. ~\E i \in DOMAIN fires : fires[i] = M
      BY <2>1, <2>2
    <3>3. \A i \in DOMAIN fires : fires[i] <= M
      BY <2>1, <2>2
    <3> QED
      BY <2>1, <2>3, <2>5, <3>1, <3>2, <3>3
  <2> QED
    BY <2>4, <2>5
<1>8. ScheduleTypeOK'
  BY <1>1, <1>3, <1>6, <1>7 DEF ScheduleTypeOK
<1>9. InTime'
  <2>1. \A i \in DOMAIN fired : fired[i] \in Nat /\ fired[i] < M + 1
    BY <1>7, LenProperties, ElementOfSeq
  <2>2. /\ since' >= 1 /\ late' < Minute' /\ cron' = "sleeps" /\ next' \in 1..(Minute' + 1)
        /\ ~(next' < Minute')
    BY <1>2, <1>3, <1>4, <1>5
  <2>3. /\ \A i \in DOMAIN fires' : fires'[i] < next'
        /\ \A i, j \in DOMAIN fires' : i < j => fires'[i] < fires'[j]
    BY <1>3, <1>6, <1>7, <2>1
  <2> QED
    BY <2>2, <2>3 DEF InTime
<1>10. FiredWhenDue'
  <2>1. ASSUME NEW m \in Nat PROVE Due(m)' <=> Due(m)
    BY <1>3 DEF Due
  <2>2. ASSUME NEW m \in since..M, m > late
        PROVE  Due(m) <=> \E i \in DOMAIN fired : fired[i] = m
    <3>1. CASE m = M
      BY <1>7, <3>1
    <3>2. CASE m \in since..(next - 1)
      <4>1. Due(m) <=> \E i \in DOMAIN fires : fires[i] = m
        BY <1>1, <1>3, <2>2, <3>2 DEF FiredWhenDue
      <4>2. m \in 0..(M - 1)
        BY <1>3, <1>4, <3>2
      <4> QED
        BY <1>7, <4>1, <4>2
    <3>3. CASE m \in next..(M - 1)
      <4>1. next < M
        BY <1>4, <3>3
      <4>2. late = M - 1
        BY <1>1, <1>2, <1>3, <4>1 DEF InTime
      <4> QED
        BY <2>2, <1>4, <3>3, <4>2
    <3>4. m = M \/ m \in since..(next - 1) \/ m \in next..(M - 1)
      BY <1>3, <1>4
    <3> QED
      BY <3>1, <3>2, <3>3, <3>4
  <2>3. \A m \in since'..(next' - 1) : m \in since..M /\ m \in Nat
    BY <1>3, <1>4
  <2>4. \A m \in since'..(next' - 1) : m > late' =>
          (Due(m)' <=> \E i \in DOMAIN fires' : fires'[i] = m)
    BY <1>3, <1>6, <2>1, <2>2, <2>3
  <2> QED
    BY <2>4 DEF FiredWhenDue
<1> QED
  BY <1>8, <1>9, <1>10 DEF ScheduleInv

LEMMA ScheduleStep == ScheduleInv /\ [ScheduleNext]_cronVars => ScheduleInv'
<1> SUFFICES ASSUME ScheduleInv, [ScheduleNext]_cronVars PROVE ScheduleInv'
  OBVIOUS
<1>1. ScheduleTypeOK /\ InTime /\ FiredWhenDue
  BY DEF ScheduleInv
<1>2. PICK M \in Nat : M = Minute
  BY <1>1, Minutes
<1>3. CASE StartCronLoop
  <2>1. /\ cron = "off" /\ cron' = "sleeps" /\ next' = M + 1
        /\ time' = time /\ schedule' = schedule /\ since' = since /\ late' = late /\ fires' = fires
    BY <1>2, <1>3 DEF StartCronLoop, NextMinute
  <2>2. M = 0 /\ Minute' = Minute /\ since \in Nat /\ since >= 1 /\ DOMAIN fires = {}
    BY <1>1, <1>2, <2>1 DEF InTime, Minute, ScheduleTypeOK
  <2>3. ScheduleTypeOK'
    BY <1>1, <2>1, <2>2 DEF ScheduleTypeOK
  <2>4. InTime'
    <3>1. /\ since' >= 1 /\ cron' = "sleeps" /\ next' \in 1..(Minute' + 1) /\ late' < Minute'
          /\ ~(next' < Minute')
      <4>1. late < Minute
        BY <1>1 DEF InTime
      <4>2. Minute' = 0 /\ Minute = 0
        BY <1>2, <2>2
      <4>3. next' = 1
        BY <2>1, <2>2
      <4> QED
        BY <2>1, <2>2, <4>1, <4>2, <4>3
    <3>2. DOMAIN fires' = {}
      BY <2>1, <2>2
    <3> QED
      BY <3>1, <3>2 DEF InTime
  <2>5. ~\E m \in since'..(next' - 1) : TRUE
    BY <2>1, <2>2
  <2> QED
    BY <2>3, <2>4, <2>5 DEF ScheduleInv, FiredWhenDue
<1>4. CASE CheckSchedules
  BY <1>4, CheckKeeps
<1>5. CASE StopCronLoop
  <2>1. /\ cron = "sleeps" /\ cron' = "ended" /\ next' = next
        /\ time' = time /\ schedule' = schedule /\ since' = since /\ late' = late /\ fires' = fires
    BY <1>5 DEF StopCronLoop
  <2>2. Minute' = Minute
    BY <2>1 DEF Minute
  <2> QED
    BY <1>1, <2>1, <2>2 DEF ScheduleInv, ScheduleTypeOK, InTime, FiredWhenDue
<1>6. ASSUME NEW s \in Schedules, Reschedule(s) PROVE ScheduleInv'
  <2>1. /\ schedule' = s /\ since' = M + 1 /\ time' = time /\ cron' = cron /\ next' = next
        /\ late' = late /\ fires' = fires
    BY <1>2, <1>6 DEF Reschedule
  <2>2. Minute' = Minute
    BY <2>1 DEF Minute
  <2>3. ScheduleTypeOK'
    BY <1>1, <2>1 DEF ScheduleTypeOK
  <2>4. InTime'
    BY <1>1, <1>2, <2>1, <2>2 DEF InTime
  <2>5. cron = "sleeps" => ~\E m \in since'..(next' - 1) : TRUE
    BY <1>1, <1>2, <2>1 DEF InTime
  <2> QED
    BY <2>1, <2>3, <2>4, <2>5 DEF ScheduleInv, FiredWhenDue
<1>7. CASE TimePasses
  <2>1. /\ time < MaxTicks /\ cron # "off" /\ time' = time + 1
        /\ schedule' = schedule /\ cron' = cron /\ next' = next /\ since' = since /\ fires' = fires
        /\ late' = IF time' % TicksPerMinute = 0 /\ next <= M THEN M ELSE late
    BY <1>2, <1>7 DEF TimePasses
  <2>2. Minute' = IF time' % TicksPerMinute = 0 THEN M + 1 ELSE M
    BY <1>1, <1>2, <2>1, Ticks
  <2>3. /\ next \in Nat /\ next \in 1..(M + 1) /\ late \in Int /\ late < M /\ since \in Nat
        /\ late \in {-1} \cup Nat
    BY <1>1, <1>2, <2>1 DEF InTime, ScheduleTypeOK
  <2>4. late' \in {late, M} /\ late' >= late /\ late' \in {-1} \cup Nat
    BY <2>1, <2>3
  <2>5. ScheduleTypeOK'
    BY <1>1, <2>1, <2>4, ScheduleAssumption DEF ScheduleTypeOK, ScheduleAssumption
  <2>6. late' < Minute' /\ next \in 1..(Minute' + 1)
    BY <2>1, <2>2, <2>3
  <2>7. cron = "sleeps" /\ next < Minute' => late' = Minute' - 1
    <3>1. CASE time' % TicksPerMinute = 0
      BY <2>1, <2>2, <2>3, <3>1
    <3>2. CASE time' % TicksPerMinute # 0
      BY <1>1, <1>2, <2>1, <2>2, <3>2 DEF InTime
    <3> QED
      BY <3>1, <3>2
  <2>8. InTime'
    <3>1. since' >= 1 /\ cron' # "off" /\ next' \in 1..(Minute' + 1) /\ late' < Minute'
      BY <1>1, <2>1, <2>6 DEF InTime
    <3>2. cron' = "sleeps" /\ next' < Minute' => late' = Minute' - 1
      BY <2>1, <2>7
    <3>3. /\ \A i \in DOMAIN fires' : fires'[i] < next'
          /\ \A i, j \in DOMAIN fires' : i < j => fires'[i] < fires'[j]
      BY <1>1, <2>1 DEF InTime
    <3> QED
      BY <3>1, <3>2, <3>3 DEF InTime
  <2>9. ASSUME NEW m \in Nat PROVE Due(m)' <=> Due(m)
    BY <2>1 DEF Due
  <2>10. FiredWhenDue'
    <3> SUFFICES ASSUME cron = "sleeps", NEW m \in since..(next - 1), m > late'
                 PROVE  Due(m)' <=> \E i \in DOMAIN fires : fires[i] = m
      BY <2>1 DEF FiredWhenDue
    <3>1. m \in Nat /\ m > late
      BY <2>3, <2>4
    <3>2. Due(m) <=> \E i \in DOMAIN fires : fires[i] = m
      BY <1>1, <3>1 DEF FiredWhenDue
    <3> QED
      BY <2>9, <3>1, <3>2
  <2> QED
    BY <2>5, <2>8, <2>10 DEF ScheduleInv
<1>8. CASE UNCHANGED cronVars
  <2>1. /\ time' = time /\ schedule' = schedule /\ cron' = cron /\ next' = next
        /\ since' = since /\ late' = late /\ fires' = fires
    BY <1>8 DEF cronVars
  <2>2. Minute' = Minute
    BY <2>1 DEF Minute
  <2>3. ScheduleTypeOK' /\ InTime'
    BY <1>1, <2>1, <2>2 DEF ScheduleTypeOK, InTime
  <2>4. ASSUME NEW m \in Nat PROVE Due(m)' <=> Due(m)
    BY <2>1 DEF Due
  <2>5. \A m \in since..(next - 1) : m \in Nat
    BY <1>1 DEF ScheduleTypeOK
  <2>6. FiredWhenDue'
    BY <1>1, <2>1, <2>4, <2>5 DEF FiredWhenDue
  <2> QED
    BY <2>3, <2>6 DEF ScheduleInv
<1> QED
  BY <1>3, <1>4, <1>5, <1>6, <1>7, <1>8 DEF ScheduleNext

LEMMA ScheduleInvariant == ScheduleSpec => []ScheduleInv
BY ScheduleInitially, ScheduleStep, PTL DEF ScheduleSpec

(* The type invariant. *)
THEOREM ScheduleTypes == ScheduleSpec => []ScheduleTypeOK
<1>1. ScheduleInv => ScheduleTypeOK
  BY DEF ScheduleInv
<1> QED
  BY ScheduleInvariant, <1>1, PTL

(* However late the loop wakes up, a script runs once in a minute at most;   *)
(* and when it was on time, in exactly the minutes its schedule is due in,   *)
(* for clocks with any numbers of ticks, minutes and hours, in any zone.     *)
THEOREM ScriptsRunWhenDue == ScheduleSpec => []RunsWhenDue
<1>1. ScheduleInv => RunsWhenDue
  BY DEF ScheduleInv, InTime, FiredWhenDue, RunsWhenDue
<1> QED
  BY ScheduleInvariant, <1>1, PTL
=============================================================================
