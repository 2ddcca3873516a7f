------------------------------ MODULE Session ------------------------------
(***************************************************************************)
(* What the host does with a message and with an HTTP request:             *)
(*   LinqoraHost/internal/ws/client.go     (StartReadPump)                 *)
(*   LinqoraHost/internal/ws/server.go     (handleClientMessage, handlers, *)
(*                                          REST API)                      *)
(*   LinqoraHost/internal/ws/crypto.go                                     *)
(*   LinqoraHost/internal/auth/challenge.go, handler.go                    *)
(*                                                                         *)
(* A read pump carries out one message after the other, so a message is    *)
(* one step; what a handler starts with "go", a script, a shell command or *)
(* the poller of a pending request, is a job that answers later.           *)
(* Data is one of five classes, see Data.  What the operating system and   *)
(* the limiter (Limiter.tla) say is a free choice, and so is what the      *)
(* operator decides (Auth.tla).                                            *)
(***************************************************************************)
EXTENDS Naturals, Sequences, FiniteSets

CONSTANTS
  Connections,  \* none of them used twice
  DeviceIds,    \* device ids
  NoDevice,     \* the empty id
  MaxTokens,    \* bound: challenges issued
  MaxJobs       \* bound: jobs under way

ASSUME SessionAssumption ==
  /\ NoDevice \notin DeviceIds
  /\ MaxTokens \in Nat /\ MaxJobs \in Nat

VARIABLES
  secret,     \* config.SharedSecret is set
  device,     \* client.DeviceID
  inMedia,    \* the clients in room "media"
  trusted,    \* config.AuthorizedDevs
  issued,     \* the tokens issued: a sequence of devices, the token is its index
  held,       \* the last token a client was sent, 0 before
  challenge,  \* ChallengeStore.challenges: token of each device, 0 for none
  expired,    \* tokens older than challengeTTL
  jobs,       \* goroutines under way for a client
  owed,       \* history: answers promised to a client and not sent yet
  spent,      \* history: tokens answered, or replaced by a newer one
  last        \* history: what the last step of a pump or HTTP handler did

sessionVars ==
  <<secret, device, inMedia, trusted, issued, held, challenge, expired, jobs, owed, spent, last>>

(* "malformed" does not unmarshal, "empty" lacks what is required, "bad" is  *)
(* an unknown action or key, out of range or too long, "move" is a movement  *)
(* of the mouse, "good" the rest.                                            *)
Data == {"malformed", "empty", "bad", "move", "good"}
Tokens == 1..Len(issued)

SessionTypeOK ==
  /\ secret \in BOOLEAN
  /\ device \in [Connections -> DeviceIds \cup {NoDevice}]
  /\ inMedia \subseteq Connections /\ trusted \subseteq DeviceIds
  /\ issued \in Seq(DeviceIds) /\ Len(issued) <= MaxTokens
  /\ held \in [Connections -> 0..Len(issued)]
  /\ challenge \in [DeviceIds -> 0..Len(issued)]
  /\ \A d \in DeviceIds : challenge[d] # 0 => issued[challenge[d]] = d
  /\ expired \subseteq Tokens /\ spent \subseteq Tokens
  /\ jobs \in [Connections -> 0..MaxJobs]
  /\ owed \in [Connections -> Nat]

SessionInit ==
  /\ secret \in BOOLEAN
  /\ device = [c \in Connections |-> NoDevice]
  /\ inMedia = {} /\ trusted \in SUBSET DeviceIds
  /\ issued = <<>> /\ held = [c \in Connections |-> 0]
  /\ challenge = [d \in DeviceIds |-> 0]
  /\ expired = {} /\ spent = {}
  /\ jobs = [c \in Connections |-> 0]
  /\ owed = [c \in Connections |-> 0]
  /\ last = [codes |-> <<>>, effect |-> FALSE, allowed |-> FALSE]

-----------------------------------------------------------------------------
(* What a handler may do: the codes it answers with, in order, and whether   *)
(* the host was touched before.  200 is any success.                         *)
Did(codes, effect) == [codes |-> codes, effect |-> effect]
Answering(code) == {Did(<<code>>, FALSE)}
Ask == {Did(<<"200">>, TRUE), Did(<<"500">>, TRUE)}   \* the system does it, or fails
Look == Answering("200") \cup Answering("500")              \* the same for a question
Unless(refused, outcomes) == IF refused THEN Answering("400") ELSE outcomes

Malformed == {"malformed"}
Incomplete == {"malformed", "empty"}
Unusable == {"malformed", "empty", "bad"}

(* NewSuccessResponse to the caller whatever the data is. *)
HandlePingMessage == Answering("200")
HandleHostInfoMessage == Answering("200")
HandlePlatformCaps == Answering("200")
HandleScriptList == Answering("200")

HandleScriptAdd(d) == Unless(d \in Malformed, Ask)
HandleScriptUpdate(d) == Unless(d \in Malformed, Ask)
HandleScriptDelete(d) == Unless(d \in Incomplete, Ask)
HandleScriptStop(d) == Unless(d \in Incomplete, {Did(<<"200">>, TRUE)})

HandleMonitorList == Look
HandleMonitorCommand(d) == Unless(d \in Unusable, Ask)
HandleMonitorSetResolution(d) == Unless(d \in Malformed, Ask)
HandleMonitorSetPrimary(d) == Unless(d \in Malformed, Ask)
HandleDisplayCommand(d) == Unless(d \in Unusable, Ask)

(* The path is read from whatever could be unmarshalled: without one the     *)
(* home directory is listed, and reading it as a file fails.                 *)
HandleFileList == Look
HandleFileRead(d) == IF d \in Incomplete THEN Answering("500") ELSE Look
HandleFileWrite(d) == Unless(d \in Malformed, Ask)

(* A movement is not answered unless it fails. *)
HandleMouseCommand(d) ==
  Unless(d \in Malformed,
         IF d = "move" THEN {Did(<<>>, TRUE), Did(<<"500">>, TRUE)} ELSE Ask)

HandleKeyboardCommand(d) == Unless(d \in Unusable, Ask)
HandleKeyboardTypeCommand(d) == Unless(d \in Unusable, Ask)
HandleClipboardSet(d) == Unless(d \in Malformed, Ask)

HandleProcessList == Look
HandleProcessKill(d) == Unless(d \in Incomplete, Ask)
HandleStartupList == Look
HandleStartupSet(d) == Unless(d \in Incomplete, Ask)

HandleBatteryAlertConfig(d) == Unless(d \in {"malformed", "bad"}, {Did(<<"200">>, TRUE)})

HandleMediaCommand(inside, d) ==
  IF ~inside THEN Answering("403") ELSE Unless(d \in Incomplete, Ask)

(* Whether the lock lets the command through is in Power.tla. *)
HandlePowerAnswer(d) ==
  Unless(d \in Malformed, {Did(<<"200">>, TRUE)} \cup Answering("200") \cup Answering("403"))

(* The handlers whose answer depends on nothing but the data. *)
HandlerAnswers(type, inside, d) ==
  CASE type = "host_info" -> HandleHostInfoMessage
    [] type = "platform_caps" -> HandlePlatformCaps
    [] type = "script_list" -> HandleScriptList
    [] type = "script_add" -> HandleScriptAdd(d)
    [] type = "script_update" -> HandleScriptUpdate(d)
    [] type = "script_delete" -> HandleScriptDelete(d)
    [] type = "script_stop" -> HandleScriptStop(d)
    [] type = "monitor_list" -> HandleMonitorList
    [] type = "monitor_cmd" -> HandleMonitorCommand(d)
    [] type = "monitor_set_resolution" -> HandleMonitorSetResolution(d)
    [] type = "monitor_set_primary" -> HandleMonitorSetPrimary(d)
    [] type = "display_cmd" -> HandleDisplayCommand(d)
    [] type = "file_list" -> HandleFileList
    [] type = "file_read" -> HandleFileRead(d)
    [] type = "file_write" -> HandleFileWrite(d)
    [] type = "mouse" -> HandleMouseCommand(d)
    [] type = "keyboard" -> HandleKeyboardCommand(d)
    [] type = "keyboard_type" -> HandleKeyboardTypeCommand(d)
    [] type = "clipboard_set" -> HandleClipboardSet(d)
    [] type = "process_list" -> HandleProcessList
    [] type = "process_kill" -> HandleProcessKill(d)
    [] type = "startup_list" -> HandleStartupList
    [] type = "startup_set" -> HandleStartupSet(d)
    [] type = "battery_alert_config" -> HandleBatteryAlertConfig(d)
    [] type = "media" -> HandleMediaCommand(inside, d)
    [] type = "power" -> HandlePowerAnswer(d)

Commands ==
  {"host_info", "platform_caps", "script_list", "script_add", "script_update",
   "script_delete", "script_stop", "monitor_list", "monitor_cmd",
   "monitor_set_resolution", "monitor_set_primary", "display_cmd", "file_list",
   "file_read", "file_write", "mouse", "keyboard", "keyboard_type",
   "clipboard_set", "process_list", "process_kill", "startup_list",
   "startup_set", "battery_alert_config", "media", "power"}

(* All that commands may do: a command waits for one answer, but for a       *)
(* movement that succeeds.                                                   *)
Outcomes == [inside \in BOOLEAN |->
  UNION {{[codes |-> o.codes, effect |-> o.effect,
           promises |-> IF o.codes # <<>> \/ ~(type = "mouse" /\ d = "move") THEN 1 ELSE 0] :
             o \in HandlerAnswers(type, inside, d)} : type \in Commands, d \in Data}]

-----------------------------------------------------------------------------
IsAuthorized(c) == device[c] \in trusted

(* A message of c was handled: the answers it is promised, less those given. *)
Handled(c, promises, outcome) ==
  /\ last' = [codes |-> outcome.codes, effect |-> outcome.effect, allowed |-> IsAuthorized(c)]
  /\ owed' = [owed EXCEPT ![c] = @ + promises - Len(outcome.codes)]

SameJobs == UNCHANGED jobs
SameChallenges == UNCHANGED <<secret, device, issued, held, challenge, expired, spent>>

(* What the read pump and handleClientMessage refuse before any handler is    *)
(* reached: the limiter, which only "ping" is exempt from, and the test of   *)
(* authorization, from which the messages that bring it about are.           *)
Refuse(c, code) ==
  /\ Handled(c, 1, Did(<<code>>, FALSE))
  /\ SameJobs /\ SameChallenges /\ UNCHANGED <<inMedia, trusted>>

OverLimit(c) == Refuse(c, "429")
Unauthorized(c) == ~IsAuthorized(c) /\ Refuse(c, "401")

RunCommand(c) ==
  /\ \E o \in Outcomes[(c \in inMedia)] : Handled(c, o.promises, o)
  /\ SameJobs /\ SameChallenges /\ UNCHANGED <<inMedia, trusted>>

(* handleJoinRoomMessage and handleLeaveRoomMessage; Rooms.tla has the rest. *)
ChangeRoom(c) ==
  /\ inMedia' \in {inMedia \cup {c}, inMedia \ {c}}
  /\ Handled(c, 0, Did(<<>>, FALSE))
  /\ SameJobs /\ SameChallenges /\ UNCHANGED trusted

(* An unknown type.  "encrypted" is one: the pump puts the message inside an *)
(* envelope in its place if the connection has a key and the envelope        *)
(* decrypts and parses, and leaves it as it is otherwise.                    *)
Ignore(c) ==
  /\ Handled(c, 0, Did(<<>>, FALSE))
  /\ SameJobs /\ SameChallenges /\ UNCHANGED <<inMedia, trusted>>

(* handleScriptExecute and handleShellExec refuse what they cannot read, and *)
(* leave the rest, an empty shell command included, to a goroutine.          *)
Launch(c, refused) ==
  /\ SameChallenges /\ UNCHANGED <<inMedia, trusted>>
  /\ \/ refused /\ Handled(c, 1, Did(<<"400">>, FALSE)) /\ SameJobs
     \/ /\ ~refused /\ jobs[c] < MaxJobs
        /\ jobs' = [jobs EXCEPT ![c] = @ + 1]
        /\ Handled(c, 1, Did(<<>>, TRUE))

HandleScriptExecute(c, d) == Launch(c, d \in Incomplete)
HandleShellExec(c, d) == Launch(c, d \in Malformed)

(* A job ends with one answer, for a script after the chunks of its output:  *)
(* 200 with the result or 404 with the error that Execute returns; for the   *)
(* shell 200 whatever the command did, or 400 if there was none; for a       *)
(* poller, whose connection keeps its device id, the decision once there is  *)
(* one (Auth.tla), else the timeout.                                         *)
JobEnds(c) ==
  /\ jobs[c] > 0
  /\ jobs' = [jobs EXCEPT ![c] = @ - 1]
  /\ owed' = [owed EXCEPT ![c] = @ - 1]
  /\ SameChallenges /\ UNCHANGED <<inMedia, trusted, last>>

-----------------------------------------------------------------------------
(* sendResponse: the code of an AuthResponse, in a success message. *)
AuthAnswer(c, code) == Handled(c, 1, Did(<<code>>, FALSE))

(* Mutant of Settle: no goroutine waits for the decision. *)
SettleUnwatched(c, d) ==
  /\ SameJobs
  /\ \/ d \in trusted /\ AuthAnswer(c, "authorized")
     \/ d \notin trusted /\ (AuthAnswer(c, "failed") \/ Handled(c, 2, Did(<<"pending">>, FALSE)))

(* A device that is trusted is told so at once.  Else a request is made      *)
(* (Auth.tla), which fails, or is pending: then a second answer follows, from *)
(* the goroutine that is started, checkAuthResultPeriodically.               *)
Settle(c, d) ==
  \/ d \in trusted /\ AuthAnswer(c, "authorized") /\ SameJobs
  \/ d \notin trusted /\ AuthAnswer(c, "failed") /\ SameJobs
  \/ /\ d \notin trusted /\ jobs[c] < MaxJobs
     /\ jobs' = [jobs EXCEPT ![c] = @ + 1]
     /\ Handled(c, 2, Did(<<"pending">>, FALSE))

(* ChallengeStore.Generate replaces the token of the device, whichever       *)
(* connection asked for it.                                                  *)
Generate(c, d) ==
  /\ Len(issued) < MaxTokens
  /\ issued' = Append(issued, d)
  /\ held' = [held EXCEPT ![c] = Len(issued')]
  /\ challenge' = [challenge EXCEPT ![d] = Len(issued')]
  /\ spent' = spent \cup {t \in Tokens : issued[t] = d}
  /\ UNCHANGED expired

(* AnswerAuthRequest: a request that is no use is refused before the device  *)
(* id is set; with a secret a challenge is sent, which may fail; without one *)
(* the device's standing is answered.                                        *)
AuthRequestRefused(c) ==
  /\ \E code \in {"invalid_format", "missing_device_id", "unsupported_version"} : AuthAnswer(c, code)
  /\ SameJobs /\ SameChallenges /\ UNCHANGED <<inMedia, trusted>>

AnswerAuthRequest(c, d) ==
  /\ device' = [device EXCEPT ![c] = d]
  /\ UNCHANGED <<secret, inMedia, trusted>>
  /\ \/ secret /\ Generate(c, d) /\ AuthAnswer(c, "challenge") /\ SameJobs
     \/ /\ secret /\ AuthAnswer(c, "failed") /\ SameJobs
        /\ UNCHANGED <<issued, held, challenge, expired, spent>>
     \/ /\ ~secret /\ Settle(c, d)
        /\ UNCHANGED <<issued, held, challenge, expired, spent>>

(* The question starts no goroutine, whatever is answered. *)
AnswerAuthCheck(c) ==
  /\ \E code \in IF device[c] = NoDevice THEN {"not_authorized"}
                 ELSE IF IsAuthorized(c) THEN {"authorized"}
                 ELSE {"approved", "rejected", "pending"} : AuthAnswer(c, code)
  /\ SameJobs /\ SameChallenges /\ UNCHANGED <<inMedia, trusted>>

(* Mutant of Consume: the entry outlives an answer. *)
ConsumeNothing(d) == UNCHANGED challenge /\ spent' = spent \cup ({challenge[d]} \ {0})

(* ChallengeStore.Verify: the entry is deleted whatever comes of it. *)
Verified(d, token, right) ==
  challenge[d] # 0 /\ challenge[d] = token /\ token \notin expired /\ right
Consume(d) ==
  /\ challenge' = [challenge EXCEPT ![d] = 0]
  /\ spent' = spent \cup ({challenge[d]} \ {0})

(* HandleChallengeResponse, with the last token c was sent and a right or    *)
(* wrong HMAC; without a device or in the wrong format it is refused before. *)
HandleChallengeResponse(c, right) ==
  LET d == device[c]
      t == held[c]
  IN  /\ d # NoDevice
      /\ Consume(d)
      /\ IF Verified(d, t, right) THEN Settle(c, d)
         ELSE AuthAnswer(c, "challenge_invalid") /\ SameJobs
      /\ UNCHANGED <<secret, device, issued, held, expired, inMedia, trusted>>

ChallengeResponseRefused(c) ==
  /\ AuthAnswer(c, "invalid_format") \/ (device[c] = NoDevice /\ AuthAnswer(c, "missing_device_id"))
  /\ SameJobs /\ SameChallenges /\ UNCHANGED <<inMedia, trusted>>

AnswerPing(c) ==
  /\ \E o \in HandlePingMessage : Handled(c, 1, o)
  /\ SameJobs /\ SameChallenges /\ UNCHANGED <<inMedia, trusted>>

(* One turn of the pump.  What is not text or does not parse is dropped      *)
(* without a step.                                                           *)
Receive(c) ==
  \/ OverLimit(c)
  \/ Unauthorized(c)
  \/ /\ IsAuthorized(c)
     /\ \/ RunCommand(c) \/ ChangeRoom(c) \/ Ignore(c)
        \/ \E d \in Data : HandleScriptExecute(c, d) \/ HandleShellExec(c, d)
  \/ AnswerPing(c)
  \/ AuthRequestRefused(c)
  \/ \E d \in DeviceIds : AnswerAuthRequest(c, d)
  \/ AnswerAuthCheck(c)
  \/ ChallengeResponseRefused(c)
  \/ \E right \in BOOLEAN : HandleChallengeResponse(c, right)

-----------------------------------------------------------------------------
(* The REST API: every handler tests the header and the method before it     *)
(* reads the body.  restPower leaves the action to a goroutine (Power.tla),  *)
(* restScriptExecute answers when the script has ended.                      *)
Accepted == {Did(<<"202">>, TRUE)}

RestInfo == Answering("200")
RestQR == Answering("200")
RestMetrics == Answering("200")
RestScripts == Answering("200")
RestProcesses == Look
RestKillProcess(d) == Unless(d \in Incomplete, Ask)
RestScriptExecute(d) == Unless(d \in Incomplete, Ask)
RestMedia(d) == Unless(d \in Malformed, Ask)
RestPowerAnswer(d) == Unless(d \in Unusable, Accepted)
RestKeyboardType(d) == Unless(d \in Unusable, Ask)

Gets == {"info", "qr", "metrics", "scripts", "processes"}
Posts == {"kill", "execute", "media", "power", "type"}

RestAnswers(path, d) ==
  CASE path = "info" -> RestInfo
    [] path = "qr" -> RestQR
    [] path = "metrics" -> RestMetrics
    [] path = "scripts" -> RestScripts
    [] path = "processes" -> RestProcesses
    [] path = "kill" -> RestKillProcess(d)
    [] path = "execute" -> RestScriptExecute(d)
    [] path = "media" -> RestMedia(d)
    [] path = "power" -> RestPowerAnswer(d)
    [] path = "type" -> RestKeyboardType(d)

(* restAuth: without a shared secret everybody is let in. *)
RestAuth(protected, bearer) == ~protected \/ bearer

Rest(path, method, allowed, d) ==
  IF ~allowed THEN Answering("401")
  ELSE IF method # (IF path \in Gets THEN "GET" ELSE "POST") THEN Answering("405")
  ELSE RestAnswers(path, d)

RestOutcomes == [protected \in BOOLEAN |->
  UNION {{[codes |-> o.codes, effect |-> o.effect, allowed |-> RestAuth(protected, bearer)] :
            o \in Rest(path, method, RestAuth(protected, bearer), d)} :
              path \in Gets \cup Posts, method \in {"GET", "POST"}, bearer \in BOOLEAN, d \in Data}]

HandleRest ==
  /\ last' \in RestOutcomes[secret]
  /\ UNCHANGED <<owed, inMedia, trusted>> /\ SameJobs /\ SameChallenges

-----------------------------------------------------------------------------
(* The clock, and the operator, who approves and revokes devices, and in the *)
(* settings sets or clears the secret of the host that runs.                 *)
ChallengeExpires ==
  /\ \E t \in Tokens : expired' = expired \cup 1..t
  /\ UNCHANGED <<secret, device, inMedia, trusted, issued, held, challenge, jobs, owed, spent, last>>

Decide ==
  /\ \E d \in DeviceIds : trusted' \in {trusted \cup {d}, trusted \ {d}}
  /\ UNCHANGED <<inMedia, owed, last>> /\ SameJobs /\ SameChallenges

SetSecret ==
  /\ secret' \in BOOLEAN
  /\ UNCHANGED <<device, inMedia, trusted, issued, held, challenge, expired, jobs, owed, spent, last>>

SessionNext ==
  \/ \E c \in Connections : Receive(c) \/ JobEnds(c)
  \/ HandleRest
  \/ ChallengeExpires
  \/ Decide
  \/ SetSecret

SessionSpec == SessionInit /\ [][SessionNext]_sessionVars

-----------------------------------------------------------------------------
(* docs/API.md:5, "The server always replies": what the code leaves without  *)
(* an answer apart (see Outcomes, ChangeRoom and Ignore), each message gets  *)
(* exactly one, now or from a goroutine that is still under way, and exactly *)
(* one more, the decision or a timeout, if it made a request that is         *)
(* pending; none is forgotten on an early return and none is given twice.    *)
AnswersOwed ==
  \A c \in Connections : owed[c] = jobs[c]

(* Whatever is refused has not touched the host, and nothing touches it for  *)
(* a connection whose device is not trusted, or for an HTTP client without   *)
(* the secret: the gates come first, on every path to a handler.             *)
RefusedIsUntouched ==
  last.effect => /\ last.allowed
                 /\ \A i \in DOMAIN last.codes : last.codes[i] \in {"200", "202", "500"}

(* challenge.go:53, "Each challenge is consumed on the first Verify call":   *)
(* with two connections of one device, which answer and ask in any order, an *)
(* answer is accepted exactly if it is right, in time, to the newest token   *)
(* of its device, and the first to it.                                       *)
ChallengesAreOneTime ==
  [][\A c \in Connections, right \in BOOLEAN :
       HandleChallengeResponse(c, right) =>
         LET t == held[c]
         IN  (last'.codes # <<"challenge_invalid">>) <=>
               /\ right /\ t # 0 /\ t \notin expired \cup spent
               /\ issued[t] = device[c]]_sessionVars
=============================================================================
