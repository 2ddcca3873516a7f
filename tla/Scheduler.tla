------------------------------ MODULE Scheduler ------------------------------
(***************************************************************************)
(* The host's scripts: the list, its file, and the runs.                   *)
(*   LinqoraHost/internal/scheduler/scheduler.go                           *)
(*   LinqoraHost/internal/ws/server.go (script handlers, cron trigger)     *)
(*                                                                         *)
(* Threads: the goroutines that change the list (the read pumps, and the   *)
(* main goroutine while the server starts), and one per Execute, which a   *)
(* client or the cron loop starts.  A step is a section under m.mu, one    *)
(* operation on the file, or one read of a script's fields, which Execute  *)
(* does through a pointer after it has released m.mu.  The slice is        *)
(* modelled with its backing arrays, since that pointer outlives changes   *)
(* of the list.                                                            *)
(***************************************************************************)
EXTENDS Naturals, Sequences, FiniteSets

CONSTANTS
  Ids,         \* script ids
  Defaults,    \* DefaultScripts, by id
  Writers,     \* goroutines that change the list while the server is up
  Main,        \* the one that starts the server
  NoFile,      \* scripts.json does not exist
  Bad,         \* scripts.json does not parse: empty, or cut short
  Unused,      \* an element beyond the length of a slice
  MaxCalls     \* bound: changes of the list, calls of Execute, and crashes

ASSUME ConstantsAssumption ==
  /\ Defaults \in Seq(Ids)
  /\ Main \notin Writers
  /\ MaxCalls \in Nat
  /\ NoFile # Bad

(* DefaultScripts returns some, on every system. *)
ASSUME SomeDefaults == Defaults # <<>>

VARIABLES
  server,   \* "down", "seeding" or "up"
  file,     \* scripts.json
  heap,     \* the backing arrays m.scripts has had; it points to the last
  count,    \* len(m.scripts)
  seeds,    \* what is left of SeedDefaults
  stage,    \* of a change: "idle", "save", "open", "write"
  data,     \* the marshalled list of a save
  runs,     \* the calls of Execute, in order
  running,  \* m.running: the call that holds the id, or 0
  calls,    \* calls and crashes so far
  saved,    \* history: the last save succeeded
  stops     \* history: how often a script's run was stopped

listVars == <<heap, count>>
saveVars == <<stage, data, saved>>
runVars == <<runs, running, stops>>
vars == <<server, file, listVars, seeds, saveVars, runVars, calls>>

Threads == Writers \cup {Main}

(* A script: its id, and its body (command, arguments, directory), told      *)
(* apart by the number of the call that set it; 0 is what the file began     *)
(* with, or a default's.                                                     *)
Bodies == 0..MaxCalls
Scripts == [id : Ids, body : Bodies]
Slots == Scripts \cup {Unused}

(* m.scripts, and a thread's pointer into one of its arrays. *)
Array == heap[Len(heap)]
List == SubSeq(Array, 1, count)
Places(id) == {i \in 1..count : Array[i].id = id}

(* A call of Execute.  may: the bodies its script has had since it was       *)
(* found; moved: an element up to its own was deleted from its array.        *)
Run == [id : Ids,
        pc : {"found", "registered", "read", "process", "return", "done"},
        array : Nat, index : Nat, command : Bodies, args : Bodies,
        cancelled : BOOLEAN, may : SUBSET Bodies, moved : BOOLEAN]

(* A call that is still to read through its pointer. *)
Reads(r) == runs[r].pc \in {"found", "registered", "read"}

(* What its pointer points to now. *)
Pointed(r) == heap[runs[r].array][runs[r].index]

(* The types of the list, of the calls and of the rest.  A call that is yet  *)
(* to read its script points to a script.                                    *)
ListOK ==
  /\ heap \in Seq(Seq(Slots)) /\ heap # <<>>
  /\ count \in 0..Len(Array)
  /\ \A i \in 1..count : Array[i] \in Scripts

PointersOK ==
  \A r \in DOMAIN runs :
    Reads(r) => /\ runs[r].array \in DOMAIN heap
                /\ runs[r].index \in DOMAIN heap[runs[r].array]
                /\ Pointed(r) \in Scripts

RunsOK ==
  /\ runs \in Seq(Run) /\ (server # "up" => runs = <<>>)
  /\ PointersOK
  /\ running \in [Ids -> 0..Len(runs)]
  /\ stops \in [Ids -> Nat]

RestOK ==
  /\ server \in {"down", "seeding", "up"}
  /\ file \in {NoFile, Bad} \/ file \in Seq(Scripts)
  /\ seeds \in Seq(Ids)
  /\ stage \in [Threads -> {"idle", "save", "open", "write"}]
  /\ data \in [Threads -> Seq(Scripts)]
  /\ calls \in 0..MaxCalls
  /\ saved \in BOOLEAN

TypeOK == ListOK /\ RunsOK /\ RestOK

Init ==
  /\ server = "down"
  /\ file \in {NoFile} \cup {<<[id |-> i, body |-> 0]>> : i \in Ids}
  /\ heap = <<(<<>>)>> /\ count = 0
  /\ seeds = <<>>
  /\ stage = [t \in Threads |-> "idle"]
  /\ data = [t \in Threads |-> <<>>]
  /\ runs = <<>>
  /\ running = [i \in Ids |-> 0]
  /\ calls = 0
  /\ saved = TRUE
  /\ stops = [i \in Ids |-> 0]

-----------------------------------------------------------------------------
(* append grows a full array to the next power of two and copies it. *)
Grown(a) == a \o [i \in 1..(IF a = <<>> THEN 1 ELSE Len(a)) |-> Unused]

(* json.Unmarshal fills the slice, with some capacity to spare. *)
Loaded(l, spare) == l \o [i \in 1..spare |-> Unused]

(* NewManager loads the file; one that does not parse counts as no scripts.  *)
(* SeedDefaults then looks whether the list is empty.                        *)
Load ==
  /\ server = "down"
  /\ server' = "seeding"
  /\ LET l == IF file \in {NoFile, Bad} THEN <<>> ELSE file
     IN  /\ \E spare \in 0..Len(l) : heap' = <<Loaded(l, spare)>>
         /\ count' = Len(l)
         /\ seeds' = IF l = <<>> THEN Defaults ELSE <<>>
         /\ saved' = (file # Bad)
  /\ UNCHANGED <<file, stage, data, runVars, calls>>

(* The rest of NewWSServer. *)
Serve ==
  /\ server = "seeding"
  /\ seeds = <<>> /\ stage[Main] = "idle"
  /\ server' = "up"
  /\ UNCHANGED <<file, listVars, seeds, saveVars, runVars, calls>>

(* The process ends, at any point; what it had in memory is gone. *)
Crash ==
  /\ server # "down" /\ calls < MaxCalls
  /\ calls' = calls + 1
  /\ server' = "down"
  /\ heap' = <<(<<>>)>> /\ count' = 0
  /\ seeds' = <<>>
  /\ stage' = [t \in Threads |-> "idle"]
  /\ data' = [t \in Threads |-> <<>>]
  /\ runs' = <<>>
  /\ running' = [i \in Ids |-> 0]
  /\ stops' = [i \in Ids |-> 0]
  /\ UNCHANGED <<file, saved>>

-----------------------------------------------------------------------------
(* A change of the list begins a save by the same thread. *)
BeginSave(t) == stage' = [stage EXCEPT ![t] = "save"]

(* Mutant of Append1: the new script comes first. *)
Prepend1(s) ==
  /\ count' = count + 1
  /\ heap' = LET a == IF count < Len(Array) THEN Array ELSE Grown(Array)
             IN  [heap EXCEPT ![Len(heap)] =
                   <<s>> \o SubSeq(a, 1, count) \o SubSeq(a, count + 2, Len(a))]

(* append: in place if the array has room, and otherwise in a new one. *)
Append1(s) ==
  /\ count' = count + 1
  /\ heap' = IF count < Len(Array)
             THEN [heap EXCEPT ![Len(heap)][count + 1] = s]
             ELSE Append(heap, [Grown(Array) EXCEPT ![count + 1] = s])

(* Add: refused if the id is there. *)
Add(w, id) ==
  /\ server = "up" /\ stage[w] = "idle" /\ calls < MaxCalls
  /\ Places(id) = {}
  /\ calls' = calls + 1
  /\ Append1([id |-> id, body |-> calls'])
  /\ BeginSave(w)
  /\ UNCHANGED <<server, file, seeds, data, saved, runVars>>

(* SeedDefaults adds one script after the other. *)
SeedDefault ==
  /\ server = "seeding"
  /\ seeds # <<>> /\ stage[Main] = "idle"
  /\ seeds' = Tail(seeds)
  /\ IF Places(Head(seeds)) = {}
     THEN /\ Append1([id |-> Head(seeds), body |-> 0])
          /\ BeginSave(Main)
     ELSE UNCHANGED <<listVars, stage>>
  /\ UNCHANGED <<server, file, data, saved, runVars, calls>>

(* Update: the element is replaced in place. *)
Update(w, id) ==
  /\ server = "up" /\ stage[w] = "idle" /\ calls < MaxCalls
  /\ calls' = calls + 1
  /\ \E i \in Places(id) :
       heap' = [heap EXCEPT ![Len(heap)][i] = [id |-> id, body |-> calls']]
  /\ runs' = [r \in DOMAIN runs |->
                IF runs[r].id = id /\ Reads(r) THEN [runs[r] EXCEPT !.may = @ \cup {calls'}]
                ELSE runs[r]]
  /\ BeginSave(w)
  /\ UNCHANGED <<server, file, count, seeds, data, saved, running, stops>>

(* Mutant of Without: the slice is cut, and nothing moves down. *)
WithoutShift(a, i, n) == a

(* append(s[:i], s[i+1:]...), for a slice of length n: the later elements    *)
(* move down in the same array; what was last stays behind the new end.      *)
Without(a, i, n) == SubSeq(a, 1, i - 1) \o SubSeq(a, i + 1, n) \o SubSeq(a, n, Len(a))

(* Mutant of Delete: nothing is saved. *)
DeleteUnsaved(w, id) ==
  /\ server = "up" /\ stage[w] = "idle" /\ calls < MaxCalls
  /\ calls' = calls + 1
  /\ \E i \in Places(id) :
       heap' = [heap EXCEPT ![Len(heap)] = Without(Array, i, count)]
  /\ count' = count - 1
  /\ UNCHANGED <<server, file, seeds, saveVars, runVars>>

(* Delete: the rest moves down. *)
Delete(w, id) ==
  /\ server = "up" /\ stage[w] = "idle" /\ calls < MaxCalls
  /\ calls' = calls + 1
  /\ \E i \in Places(id) :
       /\ heap' = [heap EXCEPT ![Len(heap)] = Without(Array, i, count)]
       /\ runs' = [r \in DOMAIN runs |->
                     IF Reads(r) /\ runs[r].array = Len(heap) /\ i <= runs[r].index
                     THEN [runs[r] EXCEPT !.moved = TRUE] ELSE runs[r]]
  /\ count' = count - 1
  /\ BeginSave(w)
  /\ UNCHANGED <<server, file, seeds, data, saved, running, stops>>

(* save: the list is marshalled under the read lock... *)
Marshal(t) ==
  /\ stage[t] = "save"
  /\ data' = [data EXCEPT ![t] = List]
  /\ stage' = [stage EXCEPT ![t] = "open"]
  /\ UNCHANGED <<server, file, listVars, seeds, saved, runVars, calls>>

(* ... the file opened and with that truncated... *)
Truncate(t) ==
  /\ stage[t] = "open"
  /\ file' = Bad
  /\ stage' = [stage EXCEPT ![t] = "write"]
  /\ UNCHANGED <<server, listVars, seeds, data, saved, runVars, calls>>

(* ... and written from its beginning: over what another thread has written  *)
(* since, the rest of a longer text stays.                                   *)
Write(t) ==
  /\ stage[t] = "write"
  /\ file' \in {data[t]} \cup (IF file \in {Bad, data[t]} THEN {} ELSE {Bad})
  /\ data' = [data EXCEPT ![t] = <<>>]
  /\ stage' = [stage EXCEPT ![t] = "idle"]
  /\ saved' = TRUE
  /\ UNCHANGED <<server, listVars, seeds, runVars, calls>>

(* The directory cannot be made, the file not opened or not written: the     *)
(* client is told, and the list in memory keeps the change.                  *)
SaveFails(t) ==
  /\ stage[t] \in {"open", "write"}
  /\ data' = [data EXCEPT ![t] = <<>>]
  /\ stage' = [stage EXCEPT ![t] = "idle"]
  /\ saved' = FALSE
  /\ UNCHANGED <<server, file, listVars, seeds, runVars, calls>>

-----------------------------------------------------------------------------
(* Execute, the search: the pointer is kept, the lock is not. *)
Find(id) ==
  /\ server = "up" /\ calls < MaxCalls
  /\ calls' = calls + 1
  /\ \E i \in Places(id) :
       runs' = Append(runs, [id |-> id, pc |-> "found", array |-> Len(heap),
                             index |-> i, command |-> 0, args |-> 0,
                             cancelled |-> FALSE, may |-> {Array[i].body},
                             moved |-> FALSE])
  /\ UNCHANGED <<server, file, listVars, seeds, saveVars, running, stops>>

(* A call that is over, without what no longer matters. *)
Over(r) == [runs EXCEPT ![r] = [@ EXCEPT !.pc = "done", !.array = 0, !.index = 0,
                                !.command = 0, !.args = 0, !.may = {},
                                !.cancelled = FALSE, !.moved = FALSE]]

(* Mutant of Register: an id is taken over, busy or not. *)
RegisterBusy(r) ==
  /\ r \in DOMAIN runs /\ runs[r].pc = "found"
  /\ running' = [running EXCEPT ![runs[r].id] = r]
  /\ runs' = [runs EXCEPT ![r].pc = "registered"]
  /\ UNCHANGED <<server, file, listVars, seeds, saveVars, stops, calls>>

(* ... m.running is tested and set. *)
Register(r) ==
  /\ r \in DOMAIN runs /\ runs[r].pc = "found"
  /\ IF running[runs[r].id] # 0
     THEN /\ runs' = Over(r)
          /\ UNCHANGED running
     ELSE /\ running' = [running EXCEPT ![runs[r].id] = r]
          /\ runs' = [runs EXCEPT ![r].pc = "registered"]
  /\ UNCHANGED <<server, file, listVars, seeds, saveVars, stops, calls>>

(* exec.CommandContext reads the command... *)
ReadCommand(r) ==
  /\ r \in DOMAIN runs /\ runs[r].pc = "registered"
  /\ runs' = [runs EXCEPT ![r].pc = "read", ![r].command = Pointed(r).body]
  /\ UNCHANGED <<server, file, listVars, seeds, saveVars, running, stops, calls>>

(* ... and then the arguments; Start fails if the context is cancelled, and  *)
(* may fail for a reason of its own.                                         *)
Start(r) ==
  /\ r \in DOMAIN runs /\ runs[r].pc = "read"
  /\ \E next \in {"return"} \cup (IF runs[r].cancelled THEN {} ELSE {"process"}) :
       runs' = [runs EXCEPT ![r].pc = next, ![r].args = Pointed(r).body]
  /\ UNCHANGED <<server, file, listVars, seeds, saveVars, running, stops, calls>>

(* The process ends by itself, and Wait returns. *)
Exit(r) ==
  /\ r \in DOMAIN runs /\ runs[r].pc = "process"
  /\ runs' = [runs EXCEPT ![r].pc = "return"]
  /\ UNCHANGED <<server, file, listVars, seeds, saveVars, running, stops, calls>>

(* A cancelled context kills it. *)
Kill(r) ==
  /\ r \in DOMAIN runs /\ runs[r].pc = "process" /\ runs[r].cancelled
  /\ runs' = [runs EXCEPT ![r].pc = "return"]
  /\ UNCHANGED <<server, file, listVars, seeds, saveVars, running, stops, calls>>

(* Mutant of Timeout: there is none. *)
NoTimeout(r) == FALSE /\ UNCHANGED vars

(* maxRuntime is over. *)
Timeout(r) ==
  /\ r \in DOMAIN runs /\ ~runs[r].cancelled
  /\ runs[r].pc \in {"registered", "read", "process"}
  /\ runs' = [runs EXCEPT ![r].cancelled = TRUE]
  /\ UNCHANGED <<server, file, listVars, seeds, saveVars, running, stops, calls>>

(* Mutant of Return: a cancelled call leaves its entry. *)
ReturnLeavesEntry(r) ==
  /\ r \in DOMAIN runs /\ runs[r].pc = "return"
  /\ running' = IF runs[r].cancelled THEN running ELSE [running EXCEPT ![runs[r].id] = 0]
  /\ runs' = Over(r)
  /\ UNCHANGED <<server, file, listVars, seeds, saveVars, stops, calls>>

(* The deferred function frees the id, whoever holds it by then. *)
Return(r) ==
  /\ r \in DOMAIN runs /\ runs[r].pc = "return"
  /\ running' = [running EXCEPT ![runs[r].id] = 0]
  /\ runs' = Over(r)
  /\ UNCHANGED <<server, file, listVars, seeds, saveVars, stops, calls>>

(* Stop: the holder is cancelled, and the id free at once. *)
Stop(id) ==
  /\ server = "up" /\ running[id] # 0
  /\ runs' = [runs EXCEPT ![running[id]].cancelled = TRUE]
  /\ running' = [running EXCEPT ![id] = 0]
  /\ stops' = [stops EXCEPT ![id] = @ + 1]
  /\ UNCHANGED <<server, file, listVars, seeds, saveVars, calls>>

-----------------------------------------------------------------------------
Next ==
  \/ Load \/ Serve \/ Crash \/ SeedDefault
  \/ \E w \in Writers, id \in Ids : Add(w, id) \/ Update(w, id) \/ Delete(w, id)
  \/ \E t \in Threads : Marshal(t) \/ Truncate(t) \/ Write(t) \/ SaveFails(t)
  \/ \E id \in Ids : Find(id) \/ Stop(id)
  \/ \E r \in 1..MaxCalls :
       \/ Register(r) \/ ReadCommand(r) \/ Start(r) \/ Exit(r) \/ Kill(r)
       \/ Timeout(r) \/ Return(r)

Spec == Init /\ [][Next]_vars

(* Fairness: Execute runs unless it waits for its process, a cancelled       *)
(* context kills, and time passes.  None for scripts: they may run for ever. *)
GoesOn(r) == Register(r) \/ ReadCommand(r) \/ Start(r) \/ Kill(r) \/ Return(r)

Fairness == \A r \in 1..MaxCalls : WF_vars(GoesOn(r)) /\ WF_vars(Timeout(r))

FairSpec == Spec /\ Fairness

-----------------------------------------------------------------------------
(* A call that has its script registered and has not yet removed it. *)
Under(r) == runs[r].pc \in {"registered", "read", "process", "return"}

(* An entry of m.running is always that of a call under way, for its own     *)
(* script: no script is busy for ever, or stopped in place of another.       *)
RunningIsLive ==
  \A id \in Ids :
    running[id] # 0 =>
      running[id] \in DOMAIN runs /\ runs[running[id]].id = id /\ Under(running[id])

(* Whatever Stop, time-outs and returns race, at any moment a script has at  *)
(* most one process that nobody stopped, besides one for every Stop.         *)
Unstopped(id) ==
  {r \in DOMAIN runs : runs[r].id = id /\ Under(r) /\ ~runs[r].cancelled}

StopsBoundRuns == \A id \in Ids : Cardinality(Unstopped(id)) <= 1 + stops[id]

(* An id names one script, in the list, in what is being saved and in the    *)
(* file: through deletions in place, growth of the array, writers that       *)
(* overlap, crashes and the seeding of a list that was lost.  What Execute,  *)
(* Update and Delete find by an id is the script.                            *)
OneEach(l) == \A i, j \in DOMAIN l : l[i].id = l[j].id => i = j

IdsAreUnique ==
  /\ OneEach(List)
  /\ \A t \in Threads : OneEach(data[t])
  /\ file \notin {NoFile, Bad} => OneEach(file)

(* The slice is a map from ids to scripts: whichever places and arrays the   *)
(* others are in, an addition, an update or a deletion changes the script of *)
(* its id and no other, seeding loses none, and while the server is up       *)
(* nothing else changes one: neither saves nor runs.                         *)
Held == {Array[i] : i \in 1..count}
Others(id) == {s \in Held : s.id # id}

ExactEdit ==
  /\ \A w \in Writers, id \in Ids :
       LET s == [id |-> id, body |-> calls']
       IN  /\ Add(w, id) => Held' = Held \cup {s}
           /\ Update(w, id) => Held' = Others(id) \cup {s}
           /\ Delete(w, id) => Held' = Others(id)
  /\ SeedDefault => Held \subseteq Held'
  /\ server = "up" /\ server' = "up" /\ Held' # Held =>
       \E w \in Writers, id \in Ids : Add(w, id) \/ Update(w, id) \/ Delete(w, id)

EditsAreExact == [][ExactEdit]_vars

(* As long as no run of a script has been stopped since the host started,    *)
(* its process is the holder of its id, and a Stop will find it: time-outs,  *)
(* runs refused while it is busy, returns and changes of the list never make *)
(* it unstoppable.                                                           *)
StoppableUntilStopped ==
  \A r \in DOMAIN runs :
    runs[r].pc = "process" /\ stops[runs[r].id] = 0 => running[runs[r].id] = r

(* Execute reads its script without the lock; what it reads has been the     *)
(* script's body since it was found, through appends, growth of the array    *)
(* and updates, unless an element up to its own was deleted meanwhile.       *)
RunsItsOwnScript ==
  \A r \in DOMAIN runs :
    runs[r].pc = "process" /\ ~runs[r].moved =>
      runs[r].command \in runs[r].may /\ runs[r].args \in runs[r].may

(* One change at a time, and the last save told successful: the file holds   *)
(* the list, through failed saves before it, crashes, restarts and seeding.  *)
SavedAtRest ==
  server = "up" /\ saved /\ (\A t \in Threads : stage[t] = "idle") => file = List

(* Every registered call returns and frees its script, though scripts may    *)
(* run for ever, unless the host crashes.                                    *)
EveryRunReturns ==
  \A r \in 1..MaxCalls :
    r \in DOMAIN runs ~> r \notin DOMAIN runs \/ runs[r].pc = "done"

(* server.go, above handleScriptStop: it "terminates a running script        *)
(* process"; it can, as long as every process is the holder of its id.       *)
StoppableRun ==
  \A r \in DOMAIN runs :
    runs[r].pc = "process" /\ ~runs[r].cancelled => running[runs[r].id] = r
=============================================================================
