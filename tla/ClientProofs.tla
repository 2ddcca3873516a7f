---------------------------- MODULE ClientProofs ----------------------------
(***************************************************************************)
(* Proofs about Client.tla, for any connections, broadcasters, capacity    *)
(* and number of messages:                                                 *)
(*   - the type invariant;                                                 *)
(*   - no connection outlives its read pump, or the shutdown that found it *)
(*     registered, and no broadcast is lost;                               *)
(*   - every step is one of Outbox.                                        *)
(* And about the two loops of the host that are composed with it for TLC:  *)
(*   - Power.tla, for every platform and number of commands;               *)
(*   - Battery.tla, for every system, capacity and set of thresholds.      *)
(***************************************************************************)
EXTENDS Client, Power, Battery, SequenceTheorems, TLAPS

USE ConstantsAssumption DEF ConstantsAssumption

Speakers == Clients \cup Senders

(* Messages are numbered within the bound, and a snapshot is walked only     *)
(* after a message was made for it.                                          *)
Numbered ==
  /\ \A s \in Speakers : sent[s] <= Sends[s]
  /\ \A s \in Senders : todo[s] # {} => sent[s] >= 1

Typed == TypeOK /\ Numbered

LEMMA NumbersArePackets ==
  ASSUME NEW s \in Speakers, NEW k \in 1..Sends[s]
  PROVE  <<s, k>> \in Packets
BY DEF Packets, Speakers

LEMMA SendTypes ==
  ASSUME TypeOK, NEW c \in Clients, NEW m \in Packets, SendMessage(c, m)
  PROVE  /\ chan' \in [Clients -> Seq(Packets)]
         /\ \A d \in Clients : Len(chan'[d]) <= Cap
         /\ accepted' \in [Clients -> Seq(Packets)]
         /\ closers' \in SUBSET Clients
<1>1. CASE closed[c]
  BY <1>1 DEF SendMessage, TypeOK
<1>2. CASE ~closed[c] /\ Len(chan[c]) < Cap
  <2>1. /\ chan' = [chan EXCEPT ![c] = Append(@, m)]
        /\ accepted' = [accepted EXCEPT ![c] = Append(@, m)]
        /\ closers' = closers
    BY <1>2 DEF SendMessage
  <2>2. /\ Append(chan[c], m) \in Seq(Packets) /\ Append(accepted[c], m) \in Seq(Packets)
        /\ Len(Append(chan[c], m)) = Len(chan[c]) + 1
    BY DEF TypeOK
  <2>3. Len(chan[c]) + 1 <= Cap
    BY <1>2 DEF TypeOK
  <2> QED
    BY <2>1, <2>2, <2>3 DEF TypeOK
<1>3. CASE ~closed[c] /\ Len(chan[c]) = Cap
  BY <1>3 DEF SendMessage, TypeOK
<1> QED
  BY <1>1, <1>2, <1>3 DEF SendMessage

LEMMA InitTyped == Init => Typed
<1> SUFFICES ASSUME Init PROVE Typed
  OBVIOUS
<1>1. <<>> \in Seq(Packets) /\ Len(<<>>) = 0
  OBVIOUS
<1> QED
  BY <1>1 DEF Init, Typed, TypeOK, Numbered, Speakers

LEMMA CloseTypes ==
  ASSUME TypeOK, NEW C, CloseAll(C)
  PROVE  /\ closed' \in [Clients -> BOOLEAN]
         /\ conn' \in [Clients -> {"none", "upgraded", "open", "closed"}]
<1>1. \A c \in Clients : (closed[c] \/ c \in C) \in BOOLEAN
  BY Zenon
<1>2. closed' \in [Clients -> BOOLEAN]
  BY <1>1, Zenon DEF CloseAll
<1>3. conn' \in [Clients -> {"none", "upgraded", "open", "closed"}]
  BY DEF CloseAll, TypeOK
<1> QED
  BY <1>2, <1>3

LEMMA StepTyped == Typed /\ [Next]_vars => Typed'
<1> SUFFICES ASSUME Typed, [Next]_vars PROVE Typed'
  OBVIOUS
<1> USE DEF Typed
<1>1. ASSUME NEW c \in Clients, Upgrade(c) PROVE Typed'
  BY <1>1 DEF Upgrade, TypeOK, Numbered, pumpVars, sendVars, monVars, histVars
<1>2. ASSUME NEW c \in Clients, Register(c) PROVE Typed'
  BY <1>2 DEF Register, TypeOK, Numbered, pumpVars, sendVars, monVars, histVars
<1>3. ASSUME NEW c \in Clients, Reply(c) PROVE Typed'
  <2>1. sent'[c] = sent[c] + 1 /\ sent'[c] \in 1..Sends[c]
    BY <1>3 DEF Reply, TypeOK
  <2>2. <<c, sent'[c]>> \in Packets
    BY <2>1, NumbersArePackets DEF Speakers
  <2>3. SendMessage(c, <<c, sent'[c]>>)
    BY <1>3 DEF Reply
  <2>4. sent' \in [Speakers -> Nat]
    BY <1>3 DEF Reply, TypeOK, Speakers
  <2>5. /\ chan' \in [Clients -> Seq(Packets)] /\ accepted' \in [Clients -> Seq(Packets)]
        /\ \A d \in Clients : Len(chan'[d]) <= Cap
        /\ closers' \in SUBSET Clients
    BY <2>2, <2>3, SendTypes
  <2>6. TypeOK'
    BY <1>3, <2>4, <2>5 DEF Reply, TypeOK, pumpVars, monVars, Speakers
  <2>7. Numbered'
    BY <1>3, <2>1 DEF Reply, TypeOK, Numbered, Speakers
  <2> QED
    BY <2>6, <2>7
<1>4. ASSUME NEW c \in Clients, CloseSlow(c) PROVE Typed'
  BY <1>4, CloseTypes DEF CloseSlow, TypeOK, Numbered, pumpVars, sendVars, monVars, histVars
<1>5. ASSUME NEW c \in Clients, WritePump(c) \/ PumpPing(c) PROVE Typed'
  <2>1. CASE PumpTake(c)
    <3>1. /\ <<Head(chan[c])>> \in Seq(Packets)
          /\ Tail(chan[c]) \in Seq(Packets) /\ Len(Tail(chan[c])) <= Cap
      BY <2>1 DEF PumpTake, TypeOK
    <3> QED
      BY <2>1, <3>1 DEF PumpTake, TypeOK, Numbered, sendVars, monVars, histVars
  <2>2. CASE PumpWrite(c)
    <3>1. <<>> \in Seq(Packets) /\ written[c] \o hand[c] \in Seq(Packets)
      BY DEF TypeOK
    <3>2. /\ hand' \in [Clients -> Seq(Packets)] /\ written' \in [Clients -> Seq(Packets)]
          /\ wp' \in [Clients -> {"off", "top", "enter", "select", "nil", "write", "done"}]
      <4>1. \/ written' = [written EXCEPT ![c] = @ \o hand[c]]
            \/ written' = written
        BY <2>2, Zenon DEF PumpWrite
      <4>2. written' \in [Clients -> Seq(Packets)]
        BY <3>1, <4>1 DEF TypeOK
      <4>3. hand' \in [Clients -> Seq(Packets)]
        BY <2>2, <3>1 DEF PumpWrite, TypeOK
      <4>4. wp' \in [Clients -> {"off", "top", "enter", "select", "nil", "write", "done"}]
        BY <2>2 DEF PumpWrite, TypeOK
      <4> QED
        BY <4>2, <4>3, <4>4
    <3> QED
      BY <2>2, <3>2 DEF PumpWrite, TypeOK, Numbered, sendVars, monVars
  <2>3. CASE PumpTop(c) \/ PumpEnter(c) \/ PumpStop(c) \/ PumpPing(c)
    BY <2>3 DEF PumpTop, PumpEnter, PumpStop, PumpPing, TypeOK, Numbered, sendVars,
                monVars, histVars
  <2> QED
    BY <1>5, <2>1, <2>2, <2>3 DEF WritePump
<1>6. ASSUME NEW c \in Clients, ReadFails(c) \/ FallSilent(c) \/ Ping(c) PROVE Typed'
  BY <1>6 DEF ReadFails, FallSilent, Ping, TypeOK, Numbered, pumpVars, sendVars, monVars,
              histVars
<1>7. ASSUME NEW c \in Clients, Cleanup(c) PROVE Typed'
  BY <1>7, CloseTypes DEF Cleanup, RemoveClient, TypeOK, Numbered, sendVars, monVars, histVars
<1>8. ASSUME NEW c \in Clients, EvictClose(c) PROVE Typed'
  BY <1>8 DEF EvictClose, TypeOK, Numbered, pumpVars, sendVars, histVars
<1>9. ASSUME NEW c \in Clients, EvictRemove(c) PROVE Typed'
  BY <1>9, CloseTypes DEF EvictRemove, RemoveClient, TypeOK, Numbered, pumpVars, sendVars,
                          histVars
<1>10. ASSUME NEW s \in Senders, Broadcast(s) PROVE Typed'
  <2>1. sent'[s] = sent[s] + 1 /\ sent'[s] \in 1..Sends[s]
    BY <1>10 DEF Broadcast, TypeOK
  <2>2. TypeOK'
    BY <1>10 DEF Broadcast, TypeOK, pumpVars, monVars, histVars
  <2>3. Numbered'
    BY <1>10, <2>1 DEF Broadcast, TypeOK, Numbered, Speakers
  <2> QED
    BY <2>2, <2>3
<1>11. ASSUME NEW s \in Senders, NEW c \in Clients, SendNext(s, c) PROVE Typed'
  <2>1. sent[s] \in 1..Sends[s]
    BY <1>11 DEF SendNext, TypeOK, Numbered, Speakers
  <2>2. <<s, sent[s]>> \in Packets
    BY <2>1, NumbersArePackets DEF Speakers
  <2>3. SendMessage(c, <<s, sent[s]>>)
    BY <1>11 DEF SendNext
  <2>4. TypeOK'
    BY <1>11, <2>2, <2>3, SendTypes DEF SendNext, TypeOK, pumpVars, monVars
  <2>5. Numbered'
    BY <1>11, <2>1 DEF SendNext, TypeOK, Numbered
  <2> QED
    BY <2>4, <2>5
<1>12. CASE CheckInactive
  BY <1>12 DEF CheckInactive, TypeOK, Numbered, pumpVars, sendVars, histVars
<1>13. CASE ShutdownClients \/ ShutdownListener \/ ShutdownEnd
  BY <1>13 DEF ShutdownClients, ShutdownListener, ShutdownEnd, TypeOK, Numbered, pumpVars,
               sendVars, monVars, histVars
<1>14. CASE UNCHANGED vars
  BY <1>14 DEF vars, TypeOK, Numbered, pumpVars, sendVars, monVars, histVars
<1> QED
  BY <1>1, <1>2, <1>3, <1>4, <1>5, <1>6, <1>7, <1>8, <1>9, <1>10, <1>11, <1>12, <1>13, <1>14
     DEF Next

(* Every variable keeps its type, and every channel its capacity, for any    *)
(* number of connections.                                                    *)
THEOREM ClientTypes == Spec => []TypeOK
<1>1. Typed => TypeOK
  BY DEF Typed
<1> QED
  BY <1>1, InitTyped, StepTyped, PTL DEF Spec

-----------------------------------------------------------------------------
(* The life of a connection.  Before it is registered nobody knows it; once  *)
(* its read pump runs it is in the registry or its connection is closed.     *)
Unborn(c) ==
  /\ wp[c] = "off" /\ accepted[c] = <<>>
  /\ c \notin registered /\ c \notin closers /\ c \notin victims /\ c \notin evicting
  /\ \A s \in Senders : c \notin todo[s]

Kept(c) ==
  /\ rp[c] = "off" <=> conn[c] \in {"none", "upgraded"}
  /\ rp[c] = "off" => Unborn(c)
  /\ closed[c] => conn[c] = "closed"
  /\ rp[c] # "off" /\ c \notin registered => conn[c] = "closed"
  /\ rp[c] = "done" => c \notin registered

Lives == \A c \in Clients : Kept(c)

LEMMA InitLives == Init => Lives
BY DEF Init, Lives, Kept, Unborn

(* What sendMessage does to others than its client, and to its client.       *)
LEMMA SendKeeps ==
  ASSUME Typed, Lives, NEW c \in Clients, NEW m \in Packets, SendMessage(c, m), rp[c] # "off",
         UNCHANGED <<conn, registered, closed, rp, wp, victims, evicting>>,
         \A s \in Senders : todo'[s] \subseteq todo[s]
  PROVE  Lives'
<1>1. \A d \in Clients : d # c => (d \in closers' <=> d \in closers) /\ accepted'[d] = accepted[d]
  BY DEF SendMessage, Typed, TypeOK
<1> QED
  BY <1>1 DEF Lives, Kept, Unborn

LEMMA CloseKeeps ==
  ASSUME Typed, Lives, NEW C \in SUBSET Clients, CloseAll(C), \A c \in C : rp[c] # "off"
  PROVE  \A c \in Clients :
           /\ closed'[c] => conn'[c] = "closed"
           /\ c \in C => conn'[c] = "closed"
           /\ conn[c] = "closed" => conn'[c] = "closed"
           /\ c \notin C => conn'[c] = conn[c]
BY DEF Typed, TypeOK, Lives, Kept, CloseAll

LEMMA StepLives == Typed /\ Lives /\ [Next]_vars => Lives'
<1> SUFFICES ASSUME Typed, Lives, [Next]_vars PROVE Lives'
  OBVIOUS
<1> USE DEF Typed
<1>1. ASSUME NEW c \in Clients, Upgrade(c) PROVE Lives'
  BY <1>1 DEF Upgrade, TypeOK, Lives, Kept, Unborn, pumpVars, sendVars, monVars, histVars
<1>2. ASSUME NEW c \in Clients, Register(c) PROVE Lives'
  BY <1>2 DEF Register, TypeOK, Lives, Kept, Unborn, sendVars, monVars, histVars
<1>3. ASSUME NEW c \in Clients, Reply(c) PROVE Lives'
  <2>1. <<c, sent'[c]>> \in Packets
    <3>1. sent'[c] = sent[c] + 1 /\ sent'[c] \in 1..Sends[c]
      BY <1>3 DEF Reply, TypeOK
    <3> QED
      BY <3>1, NumbersArePackets DEF Speakers
  <2> QED
    BY <1>3, <2>1, SendKeeps DEF Reply, pumpVars, monVars
<1>4. ASSUME NEW c \in Clients, CloseSlow(c) PROVE Lives'
  <2>1. rp[c] # "off"
    BY <1>4 DEF CloseSlow, Lives, Kept, Unborn
  <2>2. CloseAll({c})
    BY <1>4 DEF CloseSlow
  <2>3. \A d \in Clients :
          /\ closed'[d] => conn'[d] = "closed"
          /\ conn[d] = "closed" => conn'[d] = "closed"
          /\ d = c => conn'[d] = "closed"
          /\ d # c => conn'[d] = conn[d]
    BY <2>1, <2>2, CloseKeeps
  <2> QED
    BY <1>4, <2>1, <2>3 DEF CloseSlow, TypeOK, Lives, Kept, Unborn, pumpVars, sendVars, monVars,
                            histVars
<1>5. ASSUME NEW c \in Clients, WritePump(c) \/ PumpPing(c) PROVE Lives'
  <2>1. wp[c] # "off" /\ rp[c] # "off"
    BY <1>5 DEF WritePump, PumpTop, PumpEnter, PumpTake, PumpStop, PumpWrite, PumpPing, Lives,
                Kept, Unborn
  <2>2. /\ UNCHANGED <<conn, registered, closed, rp, closers, todo, victims, evicting, accepted>>
        /\ \A d \in Clients : d # c => wp'[d] = wp[d]
    BY <1>5 DEF WritePump, PumpTop, PumpEnter, PumpTake, PumpStop, PumpWrite, PumpPing, TypeOK,
                sendVars, monVars, histVars
  <2> QED
    BY <2>1, <2>2 DEF Lives, Kept, Unborn
<1>6. ASSUME NEW c \in Clients, ReadFails(c) \/ FallSilent(c) \/ Ping(c) PROVE Lives'
  BY <1>6 DEF ReadFails, FallSilent, Ping, TypeOK, Lives, Kept, Unborn, pumpVars, sendVars,
              monVars, histVars
<1>7. ASSUME NEW c \in Clients, Cleanup(c) \/ EvictRemove(c) PROVE Lives'
  <2>1. rp[c] # "off" /\ RemoveClient(c)
    BY <1>7 DEF Cleanup, EvictRemove, Lives, Kept, Unborn
  <2>2. registered' = registered \ {c} /\ CloseAll({c} \cap registered)
    BY <2>1 DEF RemoveClient
  <2>3. \A d \in Clients :
          /\ closed'[d] => conn'[d] = "closed"
          /\ conn[d] = "closed" => conn'[d] = "closed"
          /\ d = c /\ d \in registered => conn'[d] = "closed"
          /\ d # c => conn'[d] = conn[d]
    BY <2>1, <2>2, CloseKeeps
  <2>4. conn'[c] = "closed"
    BY <2>1, <2>3 DEF Lives, Kept
  <2>5. /\ UNCHANGED <<wp, accepted, closers, victims, todo>>
        /\ evicting' \subseteq evicting
        /\ \A d \in Clients : d # c => rp'[d] = rp[d]
        /\ rp'[c] # "off"
    BY <1>7, <2>1 DEF Cleanup, EvictRemove, TypeOK, pumpVars, sendVars, monVars, histVars
  <2> QED
    BY <2>1, <2>2, <2>3, <2>4, <2>5 DEF Lives, Kept, Unborn
<1>8. ASSUME NEW c \in Clients, EvictClose(c) PROVE Lives'
  BY <1>8 DEF EvictClose, TypeOK, Lives, Kept, Unborn, pumpVars, sendVars, histVars
<1>9. ASSUME NEW s \in Senders, Broadcast(s) PROVE Lives'
  BY <1>9 DEF Broadcast, TypeOK, Lives, Kept, Unborn, pumpVars, monVars, histVars
<1>10. ASSUME NEW s \in Senders, NEW c \in Clients, SendNext(s, c) PROVE Lives'
  <2>1. sent[s] \in 1..Sends[s]
    BY <1>10 DEF SendNext, TypeOK, Numbered, Speakers
  <2>2. <<s, sent[s]>> \in Packets
    BY <2>1, NumbersArePackets DEF Speakers
  <2>3. rp[c] # "off"
    BY <1>10 DEF SendNext, Lives, Kept, Unborn
  <2>4. \A t \in Senders : todo'[t] \subseteq todo[t]
    BY <1>10 DEF SendNext, TypeOK
  <2> QED
    BY <1>10, <2>2, <2>3, <2>4, SendKeeps DEF SendNext, pumpVars, monVars
<1>11. CASE CheckInactive
  BY <1>11 DEF CheckInactive, TypeOK, Lives, Kept, Unborn, pumpVars, sendVars, histVars
<1>12. CASE ShutdownClients
  BY <1>12 DEF ShutdownClients, TypeOK, Lives, Kept, Unborn, pumpVars, sendVars, monVars, histVars
<1>13. CASE ShutdownListener \/ ShutdownEnd \/ UNCHANGED vars
  BY <1>13 DEF ShutdownListener, ShutdownEnd, vars, Lives, Kept, Unborn, pumpVars, sendVars,
               monVars, histVars
<1> QED
  BY <1>1, <1>2, <1>3, <1>4, <1>5, <1>6, <1>7, <1>8, <1>9, <1>10, <1>11, <1>12, <1>13 DEF Next

(* Whoever wins the race to clean up, the monitor, the shutdown, a slow      *)
(* client's closer or the read pump itself, a connection does not outlive    *)
(* its read pump.                                                            *)
THEOREM ConnectionsDoNotLeak == Spec => []NothingLeaks
<1>1. Lives => NothingLeaks
  BY DEF Lives, Kept, NothingLeaks
<1> QED
  BY <1>1, InitTyped, StepTyped, InitLives, StepLives, PTL DEF Spec

-----------------------------------------------------------------------------
(* What the shutdown's walk over the registry leaves behind: a connection    *)
(* that was registered while the server was up, however it fared until the   *)
(* walk, is closed after it and stays so.                                    *)
Known(c) ==
  /\ conn[c] \in {"open", "closed"}
  /\ server = "up" \/ conn[c] = "closed"

LEMMA StepKnown ==
  ASSUME NEW c \in Clients
  PROVE  Typed /\ Lives /\ Known(c) /\ [Next]_vars => Known(c)'
<1> SUFFICES ASSUME Typed, Lives, Known(c), [Next]_vars PROVE Known(c)'
  OBVIOUS
<1> USE DEF Typed
<1>1. ASSUME NEW d \in Clients, CloseSlow(d) \/ Cleanup(d) \/ EvictRemove(d) PROVE Known(c)'
  <2>1. PICK C : CloseAll(C)
    BY <1>1 DEF CloseSlow, Cleanup, EvictRemove, RemoveClient
  <2>2. conn'[c] = conn[c] \/ conn'[c] = "closed"
    BY <2>1 DEF CloseAll
  <2>3. server' = server
    BY <1>1 DEF CloseSlow, Cleanup, EvictRemove
  <2> QED
    BY <2>2, <2>3 DEF Known
<1>2. ASSUME NEW d \in Clients, Upgrade(d) \/ Register(d) \/ EvictClose(d) PROVE Known(c)'
  BY <1>2 DEF Upgrade, Register, EvictClose, TypeOK, Known
<1>3. CASE ShutdownClients
  <2>1. rp[c] # "off" /\ (c \notin registered => conn[c] = "closed")
    BY DEF Known, Lives, Kept
  <2> QED
    BY <1>3, <2>1 DEF ShutdownClients, Known
<1>4. CASE ShutdownListener \/ ShutdownEnd
  BY <1>4 DEF ShutdownListener, ShutdownEnd, Known
<1>5. CASE conn' = conn /\ server' = server
  BY <1>5 DEF Known
<1>6. ASSUME NEW d \in Clients,
             \/ Reply(d) \/ WritePump(d) \/ PumpPing(d) \/ ReadFails(d) \/ FallSilent(d) \/ Ping(d)
      PROVE  conn' = conn /\ server' = server
  BY <1>6 DEF Reply, WritePump, PumpTop, PumpEnter, PumpTake, PumpStop, PumpWrite, PumpPing,
              ReadFails, FallSilent, Ping
<1>7. CASE \E s \in Senders : Broadcast(s) \/ \E d \in Clients : SendNext(s, d)
  BY <1>5, <1>7 DEF Broadcast, SendNext
<1>8. CASE CheckInactive \/ UNCHANGED vars
  BY <1>5, <1>8 DEF CheckInactive, vars
<1> QED
  BY <1>1, <1>2, <1>3, <1>4, <1>5, <1>6, <1>7, <1>8 DEF Next

(* No interleaving of the pumps, the monitor, slow closes and the walk saves *)
(* a connection the server had registered from the shutdown.                 *)
THEOREM ShutdownReachesTheRegistered == Spec => RegisteredAreDisconnected
<1> SUFFICES ASSUME NEW c \in Clients
             PROVE  Spec => [](c \in registered /\ server = "up"
                                 => [](server # "up" => conn[c] = "closed"))
  BY DEF RegisteredAreDisconnected
<1>1. Lives /\ c \in registered /\ server = "up" /\ Typed => Known(c)
  BY DEF Lives, Kept, Unborn, Known, Typed, TypeOK
<1>2. Known(c) => (server # "up" => conn[c] = "closed")
  BY DEF Known
<1>3. Typed /\ Lives /\ Known(c) /\ [Next]_vars => Known(c)'
  BY StepKnown
<1> QED
  BY <1>1, <1>2, <1>3, InitTyped, StepTyped, InitLives, StepLives, PTL DEF Spec

-----------------------------------------------------------------------------
(* No silent loss.  A message is made before it is accepted anywhere, so     *)
(* that a broadcast a client has got was not overtaken by one it has not.    *)
LEMMA GotNext ==
  ASSUME Typed, NEW c \in Clients, NEW m \in Packets, SendMessage(c, m), UNCHANGED closed
  PROVE  /\ \A d \in Clients : \A p : Got(d, p) => Got(d, p)'
         /\ \A d \in Clients : \A p : Got(d, p)' => Got(d, p) \/ (d = c /\ p = m)
         /\ closers \subseteq closers'
         /\ Got(c, m)' \/ closed[c] \/ c \in closers'
<1>1. CASE accepted' = accepted
  <2>1. \A d \in Clients : \A p : Got(d, p)' <=> Got(d, p)
    BY <1>1 DEF Got
  <2> QED
    BY <1>1, <2>1 DEF SendMessage, Typed, TypeOK
<1>2. CASE accepted' = [accepted EXCEPT ![c] = Append(@, m)] /\ closers' = closers
  <2>1. accepted[c] \in Seq(Packets)
    BY DEF Typed, TypeOK
  <2>2. /\ Len(accepted'[c]) = Len(accepted[c]) + 1 /\ Len(accepted[c]) \in Nat
        /\ \A i \in 1..Len(accepted[c]) : accepted'[c][i] = accepted[c][i]
        /\ accepted'[c][Len(accepted[c]) + 1] = m
    BY <1>2, <2>1, AppendProperties DEF Typed, TypeOK
  <2>3. \A p : Got(c, p)' <=> Got(c, p) \/ p = m
    <3>1. ASSUME NEW p, Got(c, p) PROVE Got(c, p)'
      BY <2>2, <3>1 DEF Got
    <3>2. ASSUME NEW p, Got(c, p)', p # m PROVE Got(c, p)
      <4>1. PICK i \in 1..Len(accepted'[c]) : accepted'[c][i] = p
        BY <3>2, Zenon DEF Got
      <4>2. i \in 1..Len(accepted[c])
        BY <2>2, <3>2, <4>1
      <4> QED
        BY <2>2, <4>1, <4>2 DEF Got
    <3>3. Got(c, m)'
      <4>1. Len(accepted[c]) + 1 \in 1..Len(accepted'[c])
        BY <2>2
      <4> QED
        BY <2>2, <4>1, Zenon DEF Got
    <3> QED
      BY <3>1, <3>2, <3>3
  <2>4. \A d \in Clients : d # c => \A p : Got(d, p)' <=> Got(d, p)
    BY <1>2 DEF Got, Typed, TypeOK
  <2> QED
    BY <1>2, <2>3, <2>4
<1> QED
  BY <1>1, <1>2 DEF SendMessage

LEMMA InitLoss == Init => NoSilentLoss
BY DEF Init, NoSilentLoss

(* What no step but a broadcast and its sends can disturb.                   *)
LEMMA LossKept ==
  ASSUME Typed, NoSilentLoss, UNCHANGED <<sent, todo, accepted>>,
         \A c \in registered' :
           /\ c \in registered \/ accepted[c] = <<>>
           /\ closed[c] \/ c \in closers => closed'[c] \/ c \in closers'
  PROVE  NoSilentLoss'
<1>1. \A c : accepted[c] = <<>> => \A p : ~Got(c, p)
  BY DEF Got
<1>2. \A c, p : Got(c, p)' <=> Got(c, p)
  BY DEF Got
<1>3. SUFFICES ASSUME NEW s \in Senders, NEW c \in registered', NEW k \in 1..sent[s],
                      NEW n \in 1..sent[s], k < n, Got(c, <<s, k>>)
               PROVE  \/ Got(c, <<s, n>>)
                      \/ n = sent[s] /\ c \in todo[s]
                      \/ closed'[c] \/ c \in closers'
  BY <1>2 DEF NoSilentLoss
<1>4. c \in registered
  BY <1>1, <1>3
<1> QED
  BY <1>3, <1>4 DEF NoSilentLoss

LEMMA StepLoss == Typed /\ Lives /\ NoSilentLoss /\ [Next]_vars => NoSilentLoss'
<1> SUFFICES ASSUME Typed, Lives, NoSilentLoss, [Next]_vars PROVE NoSilentLoss'
  OBVIOUS
<1>a. Typed /\ TypeOK
  BY DEF Typed
<1>1. ASSUME NEW c \in Clients,
             \/ Upgrade(c) \/ Register(c) \/ CloseSlow(c) \/ WritePump(c) \/ PumpPing(c)
             \/ ReadFails(c) \/ FallSilent(c) \/ Ping(c) \/ Cleanup(c)
             \/ EvictClose(c) \/ EvictRemove(c)
      PROVE  NoSilentLoss'
  <2>1. UNCHANGED <<sent, todo, accepted>>
    BY <1>1 DEF Upgrade, Register, CloseSlow, WritePump, PumpTop, PumpEnter, PumpTake, PumpStop,
                PumpWrite, PumpPing, ReadFails, FallSilent, Ping, Cleanup, EvictClose,
                EvictRemove, sendVars, histVars
  <2>2. \A d \in registered' : d \in registered \/ accepted[d] = <<>>
    <3>1. CASE Register(c)
      BY <3>1, <1>a DEF Register, Lives, Kept, Unborn
    <3>2. CASE ~Register(c)
      BY <1>1, <3>2 DEF Upgrade, CloseSlow, WritePump, PumpTop, PumpEnter, PumpTake, PumpStop,
                PumpWrite, PumpPing, ReadFails, FallSilent, Ping, Cleanup, EvictClose,
                EvictRemove, RemoveClient
    <3> QED
      BY <3>1, <3>2
  <2>3. registered' \subseteq Clients
    BY <1>1, <1>a, StepTyped DEF Next, Typed, TypeOK
  <2>4. \A d \in Clients : closed[d] \/ d \in closers => closed'[d] \/ d \in closers'
    <3>1. CASE CloseSlow(c)
      BY <3>1, <1>a DEF CloseSlow, CloseAll
    <3>2. CASE Cleanup(c) \/ EvictRemove(c)
      BY <3>2, <1>a DEF Cleanup, EvictRemove, RemoveClient, CloseAll
    <3>3. CASE ~CloseSlow(c) /\ ~Cleanup(c) /\ ~EvictRemove(c)
      BY <1>1, <3>3 DEF Upgrade, Register, WritePump, PumpTop, PumpEnter, PumpTake, PumpStop,
                PumpWrite, PumpPing, ReadFails, FallSilent, Ping, EvictClose
    <3> QED
      BY <3>1, <3>2, <3>3
  <2> QED
    BY <1>a, <2>1, <2>2, <2>3, <2>4, LossKept
<1>2. ASSUME NEW c \in Clients, Reply(c) PROVE NoSilentLoss'
  <2>1. sent'[c] = sent[c] + 1 /\ sent'[c] \in 1..Sends[c] /\ \A s \in Senders : sent'[s] = sent[s]
    BY <1>2, <1>a DEF Reply, TypeOK
  <2>2. PICK m \in Packets : m = <<c, sent'[c]>>
    BY <2>1, NumbersArePackets DEF Speakers
  <2>3. UNCHANGED <<registered, closed, todo>> /\ SendMessage(c, m)
    BY <1>2, <2>2 DEF Reply
  <2>4. \A s \in Senders : s # c
    OBVIOUS
  <2>5. /\ \A d \in Clients : \A p : Got(d, p) => Got(d, p)'
        /\ \A d \in Clients : \A p : Got(d, p)' => Got(d, p) \/ (d = c /\ p = m)
        /\ closers \subseteq closers'
    BY <1>a, <2>2, <2>3, GotNext
  <2>6. SUFFICES ASSUME NEW s \in Senders, NEW d \in registered, NEW k \in 1..sent[s],
                        NEW n \in 1..sent[s], k < n, Got(d, <<s, k>>)'
                 PROVE  \/ Got(d, <<s, n>>)'
                        \/ n = sent[s] /\ d \in todo[s]
                        \/ closed[d] \/ d \in closers'
    BY <2>1, <2>3 DEF NoSilentLoss
  <2>7. d \in Clients
    BY <1>a DEF TypeOK
  <2>8. <<s, k>> # m
    BY <2>2, <2>4
  <2>9. Got(d, <<s, k>>)
    <3>1. \A p : Got(d, p)' => Got(d, p) \/ p = m
      BY <2>5, <2>7, Zenon
    <3> QED
      BY <2>6, <2>8, <3>1
  <2>10. \/ Got(d, <<s, n>>)
         \/ n = sent[s] /\ d \in todo[s]
         \/ closed[d] \/ d \in closers
    BY <2>6, <2>9 DEF NoSilentLoss
  <2> QED
    BY <2>5, <2>7, <2>10, Zenon
<1>3. ASSUME NEW s \in Senders, Broadcast(s) PROVE NoSilentLoss'
  <2>1. /\ UNCHANGED <<registered, closed, closers, accepted>> /\ todo[s] = {}
        /\ sent' = [sent EXCEPT ![s] = @ + 1]
        /\ todo' = [todo EXCEPT ![s] = {c \in registered : ~closed[c]}]
    BY <1>3 DEF Broadcast, histVars
  <2>2. \A c, p : Got(c, p)' <=> Got(c, p)
    BY <2>1 DEF Got
  <2>3. SUFFICES ASSUME NEW t \in Senders, NEW c \in registered, NEW k \in 1..sent'[t],
                        NEW n \in 1..sent'[t], k < n, Got(c, <<t, k>>)
                 PROVE  \/ Got(c, <<t, n>>)
                        \/ n = sent'[t] /\ c \in todo'[t]
                        \/ closed[c] \/ c \in closers
    BY <2>1, <2>2 DEF NoSilentLoss
  <2>4. CASE t # s
    BY <2>1, <2>3, <2>4, <1>a DEF NoSilentLoss, TypeOK
  <2>5. CASE t = s /\ n = sent'[s]
    BY <2>1, <2>3, <2>5, <1>a DEF TypeOK
  <2>6. CASE t = s /\ n # sent'[s]
    <3>1. sent'[s] = sent[s] + 1 /\ sent[s] \in Nat
      BY <2>1, <1>a DEF TypeOK
    <3>2. k \in 1..sent[s] /\ n \in 1..sent[s]
      BY <3>1, <2>3, <2>6
    <3> QED
      BY <2>1, <2>3, <2>6, <3>2 DEF NoSilentLoss
  <2> QED
    BY <2>4, <2>5, <2>6
<1>4. ASSUME NEW s \in Senders, NEW c \in Clients, SendNext(s, c) PROVE NoSilentLoss'
  <2>1. sent[s] \in 1..Sends[s]
    BY <1>4, <1>a DEF SendNext, Typed, Numbered, TypeOK, Speakers
  <2>2. PICK m \in Packets : m = <<s, sent[s]>>
    BY <2>1, NumbersArePackets DEF Speakers
  <2>3. /\ UNCHANGED <<registered, closed, sent>> /\ SendMessage(c, m)
        /\ todo' = [todo EXCEPT ![s] = @ \ {c}]
    BY <1>4, <2>2 DEF SendNext
  <2>4. /\ \A d \in Clients : \A p : Got(d, p) => Got(d, p)'
        /\ \A d \in Clients : \A p : Got(d, p)' => Got(d, p) \/ (d = c /\ p = m)
        /\ closers \subseteq closers'
        /\ Got(c, m)' \/ closed[c] \/ c \in closers'
    BY <1>a, <2>3, GotNext
  <2>5. SUFFICES ASSUME NEW t \in Senders, NEW d \in registered, NEW k \in 1..sent[t],
                        NEW n \in 1..sent[t], k < n, Got(d, <<t, k>>)'
                 PROVE  \/ Got(d, <<t, n>>)'
                        \/ n = sent[t] /\ d \in todo'[t]
                        \/ closed[d] \/ d \in closers'
    BY <2>3 DEF NoSilentLoss
  <2>a. d \in Clients
    BY <1>a DEF TypeOK
  <2>6. Got(d, <<t, k>>)
    <3>1. <<t, k>> # m
      BY <2>2, <2>5, <1>a DEF TypeOK
    <3> QED
      BY <2>4, <2>5, <2>a, <3>1
  <2>7. \/ Got(d, <<t, n>>)
        \/ n = sent[t] /\ d \in todo[t]
        \/ closed[d] \/ d \in closers
    BY <2>5, <2>6 DEF NoSilentLoss
  <2>8. CASE n = sent[t] /\ d \in todo[t] /\ ~(t = s /\ d = c)
    BY <2>3, <2>8, <1>a DEF TypeOK
  <2>9. CASE n = sent[t] /\ t = s /\ d = c
    BY <2>2, <2>4, <2>9
  <2>10. CASE Got(d, <<t, n>>) \/ closed[d] \/ d \in closers
    BY <2>4, <2>10, <2>a, Zenon
  <2> QED
    BY <2>7, <2>8, <2>9, <2>10, Zenon
<1>5. CASE CheckInactive \/ ShutdownClients \/ ShutdownListener \/ ShutdownEnd \/ UNCHANGED vars
  <2>1. /\ UNCHANGED <<sent, todo, accepted, closed, closers>>
        /\ registered' \subseteq registered
    BY <1>5 DEF CheckInactive, ShutdownClients, ShutdownListener, ShutdownEnd, vars, sendVars,
                histVars
  <2> QED
    BY <1>a, <2>1, LossKept
<1> QED
  BY <1>1, <1>2, <1>3, <1>4, <1>5 DEF Next

(* A client that has got one broadcast of a goroutine, and is kept, gets     *)
(* every later one: with a full channel it is closed, never skipped.         *)
THEOREM BroadcastsAreNotLost == Spec => []NoSilentLoss
BY InitTyped, StepTyped, InitLives, StepLives, InitLoss, StepLoss, PTL DEF Spec

-----------------------------------------------------------------------------
HIDE ConstantsAssumption

(* Outbox.  What was accepted is what was written, what the write pump holds *)
(* and what the channel buffers, in this order, until the pump has ended;    *)
(* after that at most the message it held is missing.                        *)
Piped(c) ==
  /\ wp[c] = "write" => \E m \in Packets : hand[c] = <<m>>
  /\ wp[c] # "write" => hand[c] = <<>>
  /\ wp[c] # "done" => accepted[c] = written[c] \o hand[c] \o chan[c]
  /\ \E lost \in 0..1 : Len(accepted[c]) = Len(written[c]) + Len(chan[c]) + lost

Flows == \A c \in Clients : Piped(c)

LEMMA SendFlows ==
  \A w, h, q \in Seq(Packets) : \A m \in Packets :
    Append(w \o h \o q, m) = w \o h \o Append(q, m)
<1> SUFFICES ASSUME NEW w \in Seq(Packets), NEW h \in Seq(Packets), NEW q \in Seq(Packets),
                    NEW m \in Packets
             PROVE  Append(w \o h \o q, m) = w \o h \o Append(q, m)
  OBVIOUS
<1>1. w \o h \in Seq(Packets) /\ (w \o h) \o q \in Seq(Packets) /\ <<m>> \in Seq(Packets)
  BY ConcatProperties
<1>2. ((w \o h) \o q) \o <<m>> = (w \o h) \o (q \o <<m>>)
  BY <1>1, ConcatAssociative
<1> QED
  BY <1>1, <1>2, AppendIsConcat

LEMMA TakeFlows ==
  ASSUME NEW w \in Seq(Packets), NEW q \in Seq(Packets), q # <<>>
  PROVE  /\ w \o <<>> \o q = w \o <<Head(q)>> \o Tail(q)
         /\ Head(q) \in Packets /\ Tail(q) \in Seq(Packets) /\ Len(Tail(q)) = Len(q) - 1
<1>1. /\ Head(q) \in Packets /\ Tail(q) \in Seq(Packets) /\ Len(Tail(q)) = Len(q) - 1
      /\ <<Head(q)>> \in Seq(Packets)
  BY HeadTailProperties
<1>2. q = <<Head(q)>> \o Tail(q)
  OBVIOUS
<1>3. (w \o <<Head(q)>>) \o Tail(q) = w \o (<<Head(q)>> \o Tail(q))
  BY <1>1, ConcatAssociative
<1>4. w \o <<>> = w
  BY ConcatEmptySeq
<1> QED
  BY <1>1, <1>2, <1>3, <1>4

LEMMA WriteFlows ==
  ASSUME NEW w \in Seq(Packets), NEW q \in Seq(Packets), NEW m \in Packets
  PROVE  /\ w \o <<m>> = Append(w, (w \o <<m>> \o q)[Len(w) + 1])
         /\ (w \o <<m>>) \o <<>> \o q = w \o <<m>> \o q
         /\ Len(w \o <<m>>) = Len(w) + 1
         /\ Len(w \o <<m>> \o q) = Len(w) + 1 + Len(q)
<1>1. /\ <<m>> \in Seq(Packets) /\ Len(<<m>>) = 1
      /\ w \o <<m>> \in Seq(Packets) /\ Len(w \o <<m>>) = Len(w) + 1
      /\ w \o <<m>> = Append(w, m)
  BY AppendIsConcat, ConcatProperties
<1>2. /\ Len(w \o <<m>> \o q) = Len(w) + 1 + Len(q)
      /\ (w \o <<m>> \o q)[Len(w) + 1] = (w \o <<m>>)[Len(w) + 1]
  BY <1>1, ConcatProperties
<1>3. (w \o <<m>>)[Len(w) + 1] = m
  BY <1>1, AppendProperties
<1>4. (w \o <<m>>) \o <<>> = w \o <<m>>
  BY <1>1, ConcatEmptySeq
<1> QED
  BY <1>1, <1>2, <1>3, <1>4

LEMMA InitFlows == Init => Flows
<1> SUFFICES ASSUME Init PROVE Flows
  OBVIOUS
<1>1. <<>> \o <<>> \o <<>> = <<>> /\ \E lost \in 0..1 : Len(<<>>) = Len(<<>>) + Len(<<>>) + lost
  <2>1. Len(<<>>) = 0
    OBVIOUS
  <2>2. 0 = 0 + 0 + 0
    OBVIOUS
  <2>3. <<>> \o <<>> \o <<>> = <<>>
    OBVIOUS
  <2> QED
    BY <2>1, <2>2, <2>3
<1> SUFFICES ASSUME NEW c \in Clients PROVE Piped(c)
  BY DEF Flows
<1>2. wp[c] = "off" /\ hand[c] = <<>> /\ chan[c] = <<>> /\ accepted[c] = <<>> /\ written[c] = <<>>
  BY DEF Init
<1>3. wp[c] # "write"
  BY <1>2
<1> QED
  BY <1>1, <1>2, <1>3, Zenon DEF Piped

LEMMA Counting ==
  \A a, w, q \in Nat :
    (\E lost \in 0..1 : a = w + q + lost) =>
      /\ \E lost \in 0..1 : a + 1 = w + (q + 1) + lost
      /\ q < Cap => a < w + Cap + 1
BY ConstantsAssumption

(* What sendMessage leaves of the flow, and that the backlog is bounded.     *)
LEMMA SendPiped ==
  ASSUME Typed, Flows, NEW c \in Clients, NEW m \in Packets, SendMessage(c, m),
         UNCHANGED <<wp, hand, written>>
  PROVE  /\ Flows'
         /\ \/ accepted' = accepted
            \/ /\ accepted' = [accepted EXCEPT ![c] = Append(@, m)]
               /\ Len(accepted[c]) < Len(written[c]) + Cap + 1
<1>a. /\ chan[c] \in Seq(Packets) /\ hand[c] \in Seq(Packets)
      /\ accepted[c] \in Seq(Packets) /\ written[c] \in Seq(Packets)
  BY DEF Typed, TypeOK
<1>1. CASE UNCHANGED <<chan, accepted>>
  BY <1>1 DEF Flows, Piped
<1>2. CASE /\ ~closed[c] /\ Len(chan[c]) < Cap
           /\ chan' = [chan EXCEPT ![c] = Append(@, m)]
           /\ accepted' = [accepted EXCEPT ![c] = Append(@, m)]
  <2>1. \A d \in Clients : d # c => chan'[d] = chan[d] /\ accepted'[d] = accepted[d]
    BY <1>2 DEF Typed, TypeOK
  <2>2. chan'[c] = Append(chan[c], m) /\ accepted'[c] = Append(accepted[c], m)
    BY <1>2 DEF Typed, TypeOK
  <2>3. Len(accepted'[c]) = Len(accepted[c]) + 1 /\ Len(chan'[c]) = Len(chan[c]) + 1
    BY <1>a, <2>2, AppendProperties
  <2>4. /\ Len(accepted[c]) \in Nat /\ Len(written[c]) \in Nat /\ Len(chan[c]) \in Nat
    BY <1>a
  <2>5. Piped(c)
    BY DEF Flows
  <2>5a. \E lost \in 0..1 : Len(accepted[c]) = Len(written[c]) + Len(chan[c]) + lost
    BY <2>5, Zenon DEF Piped
  <2>6. Piped(c)'
    <3>1. Append(written[c] \o hand[c] \o chan[c], m) = written[c] \o hand[c] \o Append(chan[c], m)
      BY <1>a, SendFlows
    <3>2. wp[c] # "done" => accepted'[c] = written[c] \o hand[c] \o chan'[c]
      BY <2>2, <2>5, <3>1, Zenon DEF Piped
    <3>3. \E lost \in 0..1 : Len(accepted'[c]) = Len(written[c]) + Len(chan'[c]) + lost
      <4>1. \E lost \in 0..1 : Len(accepted[c]) + 1 = Len(written[c]) + (Len(chan[c]) + 1) + lost
        BY <2>4, <2>5a, Counting, Zenon
      <4> QED
        BY <2>3, <4>1, Zenon
    <3> QED
      BY <2>5, <3>2, <3>3, Zenon DEF Piped
  <2>7. Flows'
    BY <2>1, <2>6 DEF Flows, Piped
  <2>8. Len(accepted[c]) < Len(written[c]) + Cap + 1
    BY <1>2, <2>4, <2>5a, Counting, Zenon
  <2> QED
    BY <1>2, <2>7, <2>8
<1> QED
  BY <1>1, <1>2 DEF SendMessage

(* The connections that stand, as the refinement mapping has them.           *)
Up == [c \in Clients |-> conn[c] # "closed" /\ wp[c] # "done"]

ServiceStep == [Service!Next]_(Service!vars)

LEMMA ServiceStutters ==
  ASSUME UNCHANGED <<accepted, written, conn, wp>>
  PROVE  ServiceStep
<1>1. Up' = Up
  BY DEF Up
<1> QED
  BY <1>1 DEF ServiceStep, Service!vars, Up

(* Steps that only close connections or end pumps.                           *)
LEMMA ServiceCuts ==
  ASSUME UNCHANGED <<accepted, written>>,
         \A c \in Clients : conn[c] = "closed" => conn'[c] = "closed",
         \A c \in Clients : wp[c] = "done" => wp'[c] = "done"
  PROVE  ServiceStep
<1>1. PICK C \in SUBSET Clients :
           C = {c \in Clients : conn'[c] = "closed" \/ wp'[c] = "done"}
  OBVIOUS
<1>2. \A c \in Clients : (conn'[c] # "closed" /\ wp'[c] # "done") = (Up[c] /\ c \notin C)
  BY <1>1, Zenon DEF Up
<1>3. Up' = [c \in Clients |-> Up[c] /\ c \notin C]
  BY <1>2, Zenon DEF Up
<1>4. Service!CutOff(C)
  BY <1>3, Zenon DEF Service!CutOff, Up
<1> QED
  BY <1>4, Zenon DEF ServiceStep, Service!Next

LEMMA ServiceAccepts ==
  ASSUME Typed, Flows, NEW c \in Clients, NEW m \in Packets, SendMessage(c, m),
         UNCHANGED <<conn, wp, hand, written>>
  PROVE  Flows' /\ ServiceStep
<1>1. /\ Flows'
      /\ \/ accepted' = accepted
         \/ /\ accepted' = [accepted EXCEPT ![c] = Append(@, m)]
            /\ Len(accepted[c]) < Len(written[c]) + Cap + 1
  BY SendPiped
<1>2. CASE accepted' = accepted
  BY <1>1, <1>2, ServiceStutters
<1>3. CASE /\ accepted' = [accepted EXCEPT ![c] = Append(@, m)]
           /\ Len(accepted[c]) < Len(written[c]) + Cap + 1
  <2>1. Len(accepted[c]) - Len(written[c]) < Cap + 1
    <3>1. Len(accepted[c]) \in Nat /\ Len(written[c]) \in Nat
      BY DEF Typed, TypeOK
    <3>2. \A a, w \in Nat : a < w + Cap + 1 => a - w < Cap + 1
      BY ConstantsAssumption
    <3> QED
      BY <1>3, <3>1, <3>2, Zenon
  <2>2. Up' = Up
    BY DEF Up
  <2>3. Service!Accept(c, m)
    BY <1>3, <2>1, <2>2, Zenon DEF Service!Accept, Service!Pending, Up
  <2> QED
    BY <1>1, <2>3, Zenon DEF ServiceStep, Service!Next
<1> QED
  BY <1>1, <1>2, <1>3

LEMMA ServiceDelivers ==
  ASSUME Typed, Lives, Flows, NEW c \in Clients, PumpWrite(c)
  PROVE  Flows' /\ ServiceStep
<1>a. /\ chan[c] \in Seq(Packets) /\ accepted[c] \in Seq(Packets) /\ written[c] \in Seq(Packets)
      /\ wp[c] = "write"
      /\ UNCHANGED <<conn, chan, accepted>> /\ hand' = [hand EXCEPT ![c] = <<>>]
  BY DEF Typed, TypeOK, PumpWrite
<1>b. \A d \in Clients : d # c => hand'[d] = hand[d]
  BY <1>a DEF Typed, TypeOK
<1>c. PICK m \in Packets : hand[c] = <<m>>
  BY <1>a, Zenon DEF Flows, Piped
<1>d. accepted[c] = written[c] \o <<m>> \o chan[c] /\ hand'[c] = <<>>
  <2>1. "write" # "done"
    OBVIOUS
  <2>2. accepted[c] = written[c] \o hand[c] \o chan[c]
    BY <1>a, <2>1, Zenon DEF Flows, Piped
  <2>3. hand'[c] = <<>>
    BY <1>a DEF Typed, TypeOK
  <2> QED
    BY <1>c, <2>2, <2>3, Zenon
<1>e. /\ written[c] \o <<m>> = Append(written[c], accepted[c][Len(written[c]) + 1])
      /\ (written[c] \o <<m>>) \o <<>> \o chan[c] = accepted[c]
      /\ Len(written[c] \o <<m>>) = Len(written[c]) + 1
      /\ Len(accepted[c]) = Len(written[c]) + 1 + Len(chan[c])
      /\ Len(written[c]) \in Nat /\ Len(chan[c]) \in Nat
  BY <1>a, <1>d, WriteFlows, LenProperties
<1>1. CASE /\ conn[c] = "open" /\ written' = [written EXCEPT ![c] = @ \o hand[c]]
           /\ wp' = [wp EXCEPT ![c] = "top"]
  <2>1. written'[c] = written[c] \o <<m>> /\ wp'[c] = "top"
    BY <1>1, <1>c DEF Typed, TypeOK
  <2>2. \A d \in Clients : d # c => written'[d] = written[d] /\ wp'[d] = wp[d]
    BY <1>1 DEF Typed, TypeOK
  <2>3. Piped(c)'
    <3>1. "top" # "write"
      OBVIOUS
    <3>2. accepted'[c] = written'[c] \o hand'[c] \o chan'[c]
      BY <1>a, <1>d, <1>e, <2>1, Zenon
    <3>3. \E lost \in 0..1 : Len(accepted'[c]) = Len(written'[c]) + Len(chan'[c]) + lost
      <4>1. \A w, q \in Nat : w + 1 + q = w + 1 + q + 0 /\ 0 \in 0..1
        OBVIOUS
      <4> QED
        BY <1>a, <1>e, <2>1, <4>1, Zenon
    <3> QED
      BY <1>d, <2>1, <3>1, <3>2, <3>3, Zenon DEF Piped
  <2>4. Flows'
    <3>1. ASSUME NEW d \in Clients, d # c PROVE Piped(d)'
      <4>1. /\ wp'[d] = wp[d] /\ hand'[d] = hand[d] /\ written'[d] = written[d]
            /\ chan' = chan /\ accepted' = accepted
        BY <1>a, <1>b, <2>2, <3>1
      <4>2. Piped(d)
        BY DEF Flows
      <4> QED
        BY <4>1, <4>2, Zenon DEF Piped
    <3> QED
      BY <2>3, <3>1, Zenon DEF Flows
  <2>5. Up' = Up /\ Up[c]
    BY <1>a, <1>1 DEF Up, Typed, TypeOK
  <2>6. Len(accepted[c]) - Len(written[c]) > 0
    <3>1. \A w, q \in Nat : (w + 1 + q) - w > 0
      OBVIOUS
    <3> QED
      BY <1>e, <3>1, Zenon
  <2>7. written' = [written EXCEPT ![c] = Append(@, accepted[c][Len(@) + 1])]
    BY <1>1, <1>c, <1>e, Zenon
  <2>8. Service!Deliver(c)
    BY <1>a, <2>5, <2>6, <2>7, Zenon DEF Service!Deliver, Service!Pending, Up
  <2> QED
    BY <2>4, <2>8, Zenon DEF ServiceStep, Service!Next
<1>2. CASE UNCHANGED written /\ wp' = [wp EXCEPT ![c] = "done"]
  <2>1. wp'[c] = "done" /\ \A d \in Clients : d # c => wp'[d] = wp[d]
    BY <1>2 DEF Typed, TypeOK
  <2>2. \E lost \in 0..1 : Len(accepted[c]) = Len(written[c]) + Len(chan[c]) + lost
    BY Zenon DEF Flows, Piped
  <2>3. Piped(c)'
    <3>1. "done" # "write"
      OBVIOUS
    <3> QED
      BY <1>a, <1>d, <1>2, <2>1, <2>2, <3>1, Zenon DEF Piped
  <2>4. Flows'
    BY <1>a, <1>b, <1>2, <2>1, <2>3 DEF Flows, Piped
  <2> QED
    BY <1>a, <1>2, <2>1, <2>4, ServiceCuts
<1> QED
  BY <1>1, <1>2 DEF PumpWrite

LEMMA FlowsKept ==
  ASSUME Flows, UNCHANGED <<hand, chan, accepted, written>>,
         \A c \in Clients : wp'[c] = wp[c] \/ (wp[c] # "write" /\ wp[c] # "done" /\ wp'[c] # "write")
  PROVE  Flows'
BY DEF Flows, Piped

LEMMA StepServes == Typed /\ Lives /\ Flows /\ [Next]_vars => Flows' /\ ServiceStep
<1> SUFFICES ASSUME Typed, Lives, Flows, [Next]_vars PROVE Flows' /\ ServiceStep
  OBVIOUS
<1>a. Typed /\ TypeOK
  BY DEF Typed
<1>1. ASSUME NEW c \in Clients, Reply(c) PROVE Flows' /\ ServiceStep
  <2>1. sent'[c] = sent[c] + 1 /\ sent'[c] \in 1..Sends[c]
    BY <1>1, <1>a, ConstantsAssumption DEF Reply, TypeOK
  <2>2. PICK m \in Packets : m = <<c, sent'[c]>>
    BY <2>1, NumbersArePackets DEF Speakers
  <2>3. SendMessage(c, m) /\ UNCHANGED <<conn, wp, hand, written>>
    BY <1>1, <2>2 DEF Reply, pumpVars
  <2> QED
    BY <2>3, ServiceAccepts
<1>2. ASSUME NEW s \in Senders, NEW c \in Clients, SendNext(s, c) PROVE Flows' /\ ServiceStep
  <2>1. sent[s] \in 1..Sends[s]
    BY <1>2, <1>a, ConstantsAssumption DEF SendNext, Typed, Numbered, TypeOK, Speakers
  <2>2. PICK m \in Packets : m = <<s, sent[s]>>
    BY <2>1, NumbersArePackets DEF Speakers
  <2>3. SendMessage(c, m) /\ UNCHANGED <<conn, wp, hand, written>>
    BY <1>2, <2>2 DEF SendNext, pumpVars
  <2> QED
    BY <2>3, ServiceAccepts
<1>3. ASSUME NEW c \in Clients, PumpWrite(c) PROVE Flows' /\ ServiceStep
  BY <1>3, ServiceDelivers
<1>4. ASSUME NEW c \in Clients, PumpTake(c) PROVE Flows' /\ ServiceStep
  <2>1. /\ wp[c] = "select" /\ chan[c] # <<>> /\ UNCHANGED <<conn, accepted, written>>
        /\ chan' = [chan EXCEPT ![c] = Tail(@)] /\ hand' = [hand EXCEPT ![c] = <<Head(chan[c])>>]
        /\ wp' = [wp EXCEPT ![c] = "write"]
    BY <1>4 DEF PumpTake, histVars
  <2>2. /\ chan'[c] = Tail(chan[c]) /\ hand'[c] = <<Head(chan[c])>> /\ wp'[c] = "write"
        /\ \A d \in Clients : d # c => chan'[d] = chan[d] /\ hand'[d] = hand[d] /\ wp'[d] = wp[d]
    BY <2>1, <1>a DEF TypeOK
  <2>3. chan[c] \in Seq(Packets) /\ written[c] \in Seq(Packets) /\ accepted[c] \in Seq(Packets)
    BY <1>a DEF TypeOK
  <2>4. /\ written[c] \o <<>> \o chan[c] = written[c] \o hand'[c] \o chan'[c]
        /\ Head(chan[c]) \in Packets
        /\ Len(chan'[c]) = Len(chan[c]) - 1
    BY <2>1, <2>2, <2>3, TakeFlows
  <2>5. hand[c] = <<>> /\ accepted[c] = written[c] \o hand[c] \o chan[c]
    <3>1. "select" # "write" /\ "select" # "done"
      OBVIOUS
    <3> QED
      BY <2>1, <3>1, Zenon DEF Flows, Piped
  <2>6. Piped(c)'
    <3>1. accepted'[c] = written'[c] \o hand'[c] \o chan'[c]
      BY <2>1, <2>4, <2>5, Zenon
    <3>2. \E lost \in 0..1 : Len(accepted'[c]) = Len(written'[c]) + Len(chan'[c]) + lost
      <4>1. Len(accepted[c]) = Len(written[c]) + Len(chan[c])
        <5>1. written[c] \o <<>> = written[c]
          BY <2>3, ConcatEmptySeq
        <5>2. accepted[c] = written[c] \o chan[c]
          BY <2>5, <5>1, Zenon
        <5> QED
          BY <2>3, <5>2, ConcatProperties
      <4>2. \A a, w, q \in Nat : a = w + q => a = w + (q - 1) + 1 /\ 1 \in 0..1
        OBVIOUS
      <4>3. Len(accepted[c]) \in Nat /\ Len(written[c]) \in Nat /\ Len(chan[c]) \in Nat
        BY <2>3, LenProperties
      <4>4. Len(accepted[c]) = Len(written[c]) + (Len(chan[c]) - 1) + 1 /\ 1 \in 0..1
        BY <4>1, <4>2, <4>3, Zenon
      <4>5. accepted' = accepted /\ written' = written
        BY <2>1
      <4> QED
        BY <2>4, <4>4, <4>5, Zenon
    <3> QED
      BY <2>2, <2>4, <3>1, <3>2, Zenon DEF Piped
  <2>7. Flows'
    <3>1. ASSUME NEW d \in Clients, d # c PROVE Piped(d)'
      <4>1. /\ wp'[d] = wp[d] /\ hand'[d] = hand[d] /\ chan'[d] = chan[d]
            /\ accepted' = accepted /\ written' = written
        BY <2>1, <2>2, <3>1
      <4>2. Piped(d)
        BY DEF Flows
      <4> QED
        BY <4>1, <4>2, Zenon DEF Piped
    <3> QED
      BY <2>6, <3>1, Zenon DEF Flows
  <2>8. ServiceStep
    <3>1. \A d \in Clients : wp[d] = "done" => wp'[d] = "done"
      BY <2>1, <2>2
    <3> QED
      BY <2>1, <3>1, ServiceCuts
  <2> QED
    BY <2>7, <2>8
<1>5. ASSUME /\ UNCHANGED <<hand, chan, accepted, written>>
             /\ \A c \in Clients : conn[c] = "closed" => conn'[c] = "closed"
             /\ \A c \in Clients :
                  wp'[c] = wp[c] \/ (wp[c] # "write" /\ wp[c] # "done" /\ wp'[c] # "write")
      PROVE  Flows' /\ ServiceStep
  <2>1. Flows'
    BY <1>5, FlowsKept
  <2>2. ServiceStep
    BY <1>5, ServiceCuts
  <2> QED
    BY <2>1, <2>2
<1>6. ASSUME NEW c \in Clients,
             \/ Upgrade(c) \/ Register(c) \/ PumpTop(c) \/ PumpEnter(c) \/ PumpStop(c)
             \/ PumpPing(c) \/ ReadFails(c) \/ FallSilent(c) \/ Ping(c) \/ EvictClose(c)
      PROVE  Flows' /\ ServiceStep
  <2>1. UNCHANGED <<hand, chan, accepted, written>>
    BY <1>6 DEF Upgrade, Register, PumpTop, PumpEnter, PumpStop, PumpPing, ReadFails,
                FallSilent, Ping, EvictClose, pumpVars, histVars
  <2>2. \A d \in Clients : conn[d] = "closed" => conn'[d] = "closed"
    BY <1>6, <1>a DEF Upgrade, Register, PumpTop, PumpEnter, PumpStop, PumpPing, ReadFails,
                FallSilent, Ping, EvictClose, TypeOK
  <2>3. \A d \in Clients :
          wp'[d] = wp[d] \/ (wp[d] # "write" /\ wp[d] # "done" /\ wp'[d] # "write")
    <3>1. CASE Register(c)
      <4>1. wp[c] = "off"
        BY <3>1 DEF Register, Lives, Kept, Unborn
      <4> QED
        BY <3>1, <4>1, <1>a DEF Register, TypeOK
    <3>2. CASE ~Register(c)
      BY <1>6, <3>2, <1>a DEF Upgrade, PumpTop, PumpEnter, PumpStop, PumpPing, ReadFails,
                FallSilent, Ping, EvictClose, TypeOK, pumpVars
    <3> QED
      BY <3>1, <3>2
  <2> QED
    BY <1>5, <2>1, <2>2, <2>3
<1>7. ASSUME NEW c \in Clients, CloseSlow(c) \/ Cleanup(c) \/ EvictRemove(c)
      PROVE  Flows' /\ ServiceStep
  <2>1. UNCHANGED <<hand, chan, accepted, written, wp>>
    BY <1>7 DEF CloseSlow, Cleanup, EvictRemove, pumpVars, histVars
  <2>2. \E C : CloseAll(C)
    BY <1>7 DEF CloseSlow, Cleanup, EvictRemove, RemoveClient
  <2>3. \A d \in Clients : conn[d] = "closed" => conn'[d] = "closed"
    BY <2>2 DEF CloseAll
  <2> QED
    BY <1>5, <2>1, <2>3
<1>8. CASE \/ CheckInactive \/ ShutdownClients \/ ShutdownListener \/ ShutdownEnd
           \/ UNCHANGED vars \/ \E s \in Senders : Broadcast(s)
  <2>1. UNCHANGED <<hand, chan, accepted, written, wp>>
    BY <1>8 DEF CheckInactive, ShutdownClients, ShutdownListener, ShutdownEnd, vars, Broadcast,
                pumpVars, histVars
  <2>2. \A d \in Clients : conn[d] = "closed" => conn'[d] = "closed"
    BY <1>8 DEF CheckInactive, ShutdownClients, ShutdownListener, ShutdownEnd, vars, Broadcast
  <2> QED
    BY <1>5, <2>1, <2>2
<1> QED
  BY <1>1, <1>2, <1>3, <1>4, <1>6, <1>7, <1>8 DEF Next, WritePump

LEMMA InitServes == Init => Service!Init
<1> SUFFICES ASSUME Init PROVE Service!Init
  OBVIOUS
<1>1. accepted = [c \in Clients |-> <<>>] /\ written = [c \in Clients |-> <<>>]
  BY DEF Init
<1>2. \A c \in Clients : (conn[c] # "closed" /\ wp[c] # "done") = TRUE
  BY DEF Init
<1>3. Up = [c \in Clients |-> TRUE]
  BY <1>2, Zenon DEF Up
<1> QED
  BY <1>1, <1>3, Zenon DEF Service!Init, Up

(* The safety of ImplementsOutbox: whatever becomes of a connection, its     *)
(* messages go out in the order in which they were accepted, none twice and  *)
(* none left out before the last, and the backlog is bounded.                *)
THEOREM StepsAreServed == Spec => Service!Init /\ [][Service!Next]_(Service!vars)
<1>1. ServiceStep <=> [Service!Next]_(Service!vars)
  BY DEF ServiceStep
<1> QED
  BY <1>1, InitTyped, StepTyped, InitLives, StepLives, InitFlows, StepServes, InitServes, PTL
     DEF Spec

-----------------------------------------------------------------------------
(* The platforms on which a locked screen is never taken for an unlocked one.*)
Truthful == platform \in {"gnome", "loginctl", "darwin"}

(* A command that remembers a lock came in while the screen was locked as it *)
(* still is, and one that has passed ExecutePowerAction does not.            *)
Guarded(c) ==
  /\ c.locked => osLocked
  /\ c.pc = "performed" => c.action = "other"
  /\ Truthful /\ c.action = "other" /\ c.pc \in {"perform", "performed"} => ~c.locked

PowerInv == PowerTypeOK /\ \A i \in DOMAIN commands : Guarded(commands[i])

LEMMA CommandTypes ==
  ASSUME PowerTypeOK, NEW i \in DOMAIN commands
  PROVE  /\ commands[i] \in Command
         /\ commands[i].action \in Actions
         /\ commands[i].locked \in BOOLEAN
<1>1. commands \in Seq(Command)
  BY DEF PowerTypeOK
<1>2. commands[i] \in Command
  BY <1>1
<1> QED
  BY <1>2 DEF Command

(* What Move does, element by element. *)
LEMMA MoveKeeps ==
  ASSUME PowerTypeOK, NEW i \in DOMAIN commands, NEW pc, Move(i, pc),
         pc \in {"run", "probe", "perform", "mark", "done", "refused", "performed"}
  PROVE  /\ commands' \in Seq(Command) /\ Len(commands') = Len(commands)
         /\ DOMAIN commands' = DOMAIN commands
         /\ commands'[i] = [commands[i] EXCEPT !.pc = pc]
         /\ \A j \in DOMAIN commands : j # i => commands'[j] = commands[j]
<1>1. commands \in Seq(Command)
  BY DEF PowerTypeOK
<1>2. [commands[i] EXCEPT !.pc = pc] \in Command
  <2>1. commands[i] \in Command
    BY <1>1
  <2> QED
    BY <2>1 DEF Command
<1>3. commands' = [commands EXCEPT ![i] = [commands[i] EXCEPT !.pc = pc]]
  BY DEF Move
<1> QED
  BY <1>1, <1>2, <1>3

LEMMA PowerInitially == PowerInit => PowerInv
<1> SUFFICES ASSUME PowerInit PROVE PowerInv
  OBVIOUS
<1>1. osLocked \in BOOLEAN /\ deviceLocked \in BOOLEAN
  BY Zenon DEF PowerInit
<1>2. commands \in Seq(Command) /\ Len(commands) <= MaxCommands
  BY PowerAssumption DEF PowerInit, PowerAssumption
<1>3. DOMAIN commands = {}
  BY DEF PowerInit
<1> QED
  BY <1>1, <1>2, <1>3 DEF PowerInit, PowerInv, PowerTypeOK

(* A step of one command that leaves the screen alone. *)
LEMMA MovedIsGuarded ==
  ASSUME PowerInv, NEW i \in DOMAIN commands, NEW pc, Move(i, pc),
         pc \in {"run", "probe", "perform", "mark", "done", "refused", "performed"},
         osLocked => osLocked', UNCHANGED platform,
         osLocked' \in BOOLEAN, deviceLocked' \in BOOLEAN, UNCHANGED monitor,
         pc = "performed" => commands[i].action = "other",
         Truthful /\ commands[i].action = "other" /\ pc \in {"perform", "performed"} =>
           ~commands[i].locked
  PROVE  PowerInv'
<1>1. PowerTypeOK /\ \A j \in DOMAIN commands : Guarded(commands[j])
  BY DEF PowerInv
<1>2. /\ commands' \in Seq(Command) /\ Len(commands') = Len(commands)
      /\ DOMAIN commands' = DOMAIN commands
      /\ commands'[i] = [commands[i] EXCEPT !.pc = pc]
      /\ \A j \in DOMAIN commands : j # i => commands'[j] = commands[j]
  BY <1>1, MoveKeeps
<1>3. PowerTypeOK'
  BY <1>1, <1>2 DEF PowerTypeOK
<1>4. ASSUME NEW j \in DOMAIN commands PROVE Guarded(commands[j])'
  <2>1. CASE j = i
    <3>1. /\ commands'[i].locked = commands[i].locked
          /\ commands'[i].action = commands[i].action
          /\ commands'[i].pc = pc
      BY <1>1, <1>2, CommandTypes DEF Command
    <3>2. Guarded(commands[i])
      BY <1>1
    <3> QED
      BY <2>1, <3>1, <3>2 DEF Guarded, Truthful
  <2>2. CASE j # i
    <3>1. Guarded(commands[j]) /\ commands'[j] = commands[j]
      BY <1>1, <1>2, <2>2
    <3> QED
      BY <3>1 DEF Guarded, Truthful
  <2> QED
    BY <2>1, <2>2
<1> QED
  BY <1>2, <1>3, <1>4 DEF PowerInv

(* A command comes in. *)
LEMMA ArrivedIsGuarded ==
  ASSUME PowerInv, NEW action \in Actions, NEW via \in {"ws", "rest"},
         NEW pc \in {"gate", "run"}, Arrive(action, via, pc)
  PROVE  PowerInv'
<1> DEFINE new == [action |-> action, via |-> via, pc |-> pc, locked |-> osLocked]
<1>1. PowerTypeOK /\ \A j \in DOMAIN commands : Guarded(commands[j])
  BY DEF PowerInv
<1>2. new \in Command
  BY <1>1 DEF PowerTypeOK, Command
<1>3. commands' = Append(commands, new) /\ commands \in Seq(Command)
  BY <1>1 DEF Arrive, PowerTypeOK
<1>4. Len(commands) < MaxCommands /\ Len(commands) \in Nat
  BY <1>3 DEF Arrive
<1>5. PowerTypeOK'
  <2>1. commands' \in Seq(Command) /\ Len(commands') = Len(commands) + 1
    BY <1>2, <1>3
  <2> QED
    BY <1>1, <1>4, <2>1, PowerAssumption DEF PowerAssumption, PowerTypeOK, Arrive
<1>6. ASSUME NEW j \in DOMAIN commands' PROVE Guarded(commands[j])'
  <2>1. CASE j \in DOMAIN commands
    <3>1. Guarded(commands[j]) /\ commands'[j] = commands[j]
      BY <1>1, <1>3, <2>1
    <3> QED
      BY <3>1 DEF Guarded, Truthful, Arrive
  <2>2. CASE j \notin DOMAIN commands
    <3>1. commands'[j] = new
      BY <1>3, <1>6, <2>2
    <3> QED
      BY <3>1 DEF Guarded, Arrive
  <2> QED
    BY <2>1, <2>2
<1> QED
  BY <1>5, <1>6 DEF PowerInv

(* On a truthful platform the question is not answered with "unlocked", nor  *)
(* with an error, as long as the screen is locked.                           *)
LEMMA LockedIsBelieved ==
  ASSUME Truthful, osLocked, NEW a \in Probe PROVE Believed(a)
BY DEF Truthful, Probe, ProbeLinux, ProbeDarwin, Told, Believed

LEMMA PowerStep == PowerInv /\ [PowerNext]_powerVars => PowerInv'
<1> SUFFICES ASSUME PowerInv, [PowerNext]_powerVars PROVE PowerInv'
  OBVIOUS
<1>1. PowerTypeOK /\ \A j \in DOMAIN commands : Guarded(commands[j])
  BY DEF PowerInv
<1>2. ASSUME NEW action \in Actions, HandlePowerCommand(action) \/ RestPower(action)
      PROVE  PowerInv'
  BY <1>2, ArrivedIsGuarded DEF HandlePowerCommand, RestPower
<1>3. ASSUME NEW i \in 1..MaxCommands, Gate(i) PROVE PowerInv'
  <2>1. i \in DOMAIN commands
    BY <1>3 DEF Gate, At
  <2>2. PICK pc \in {"refused", "run", "probe"} : Move(i, pc)
    BY <1>3 DEF Gate
  <2> QED
    BY <1>1, <1>3, <2>1, <2>2, MovedIsGuarded DEF Gate, PowerTypeOK
<1>4. ASSUME NEW i \in 1..MaxCommands, GateProbe(i) PROVE PowerInv'
  <2>1. i \in DOMAIN commands
    BY <1>4 DEF GateProbe, At
  <2>2. PICK pc \in {"refused", "run"} : Move(i, pc)
    BY <1>4 DEF GateProbe
  <2> QED
    BY <1>1, <1>4, <2>1, <2>2, MovedIsGuarded DEF GateProbe, PowerTypeOK
<1>5. ASSUME NEW i \in 1..MaxCommands, Execute(i) PROVE PowerInv'
  <2>1. i \in DOMAIN commands /\ Guarded(commands[i])
    BY <1>1, <1>5 DEF Execute, At
  <2>2. PICK pc \in {"refused", "perform"} :
          /\ Move(i, pc)
          /\ pc = "perform" /\ commands[i].action = "other" => \E a \in Probe : ~Believed(a)
    <3>1. CASE commands[i].action = "lock" /\ Move(i, "perform")
      BY <3>1
    <3>2. CASE /\ commands[i].action = "other"
               /\ \E a \in Probe : Move(i, IF Believed(a) THEN "refused" ELSE "perform")
      <4>1. PICK a \in Probe : Move(i, IF Believed(a) THEN "refused" ELSE "perform")
        BY <3>2
      <4>2. CASE Believed(a)
        BY <4>1, <4>2
      <4>3. CASE ~Believed(a)
        BY <4>1, <4>3
      <4> QED
        BY <4>2, <4>3
    <3> QED
      BY <1>5, <3>1, <3>2 DEF Execute
  <2>3. Truthful /\ commands[i].action = "other" /\ pc = "perform" => ~commands[i].locked
    <3> SUFFICES ASSUME Truthful, commands[i].action = "other", pc = "perform"
                 PROVE  ~commands[i].locked
      OBVIOUS
    <3>1. ~osLocked
      BY <2>2, LockedIsBelieved
    <3> QED
      BY <2>1, <3>1 DEF Guarded
  <2> QED
    BY <1>1, <1>5, <2>1, <2>2, <2>3, MovedIsGuarded DEF Execute, PowerTypeOK
<1>6. ASSUME NEW i \in 1..MaxCommands, Perform(i) PROVE PowerInv'
  <2>1. i \in DOMAIN commands /\ Guarded(commands[i]) /\ commands[i].pc = "perform"
    BY <1>1, <1>6 DEF Perform, At
  <2>2. PICK pc \in {"performed", "mark", "done"} :
          Move(i, pc) /\ (pc = "performed" => commands[i].action = "other")
    BY <1>6 DEF Perform
  <2>3. (osLocked => osLocked') /\ osLocked' \in BOOLEAN
    <3>1. osLocked' = TRUE \/ osLocked' = osLocked
      BY <1>6, Zenon DEF Perform
    <3> QED
      BY <1>1, <3>1, Zenon DEF PowerTypeOK
  <2>4. Truthful /\ commands[i].action = "other" => ~commands[i].locked
    BY <2>1 DEF Guarded
  <2> QED
    BY <1>1, <1>6, <2>1, <2>2, <2>3, <2>4, MovedIsGuarded DEF Perform, PowerTypeOK
<1>7. ASSUME NEW i \in 1..MaxCommands, Mark(i) PROVE PowerInv'
  <2>1. i \in DOMAIN commands /\ Move(i, "done")
    BY <1>7 DEF Mark, At
  <2> QED
    BY <1>1, <1>7, <2>1, MovedIsGuarded DEF Mark, PowerTypeOK
<1>8. CASE Monitor
  <2>1. UNCHANGED <<platform, osLocked, commands>>
    BY <1>8 DEF Monitor, MonitorTick, MonitorAsks, MonitorClears
  <2>2. deviceLocked' \in BOOLEAN /\ monitor' \in {"waits", "asks", "clears"}
    BY <1>1, <1>8 DEF Monitor, MonitorTick, MonitorAsks, MonitorClears, PowerTypeOK
  <2> QED
    BY <1>1, <2>1, <2>2 DEF PowerInv, PowerTypeOK, Guarded, Truthful
<1>9. CASE UserLocks
  BY <1>1, <1>9 DEF UserLocks, PowerInv, PowerTypeOK, Guarded, Truthful
<1>10. CASE UserUnlocks
  <2>1. commands \in Seq(Command) /\ DOMAIN commands = 1..Len(commands)
    BY <1>1 DEF PowerTypeOK
  <2>2. commands' = [j \in DOMAIN commands |-> [commands[j] EXCEPT !.locked = FALSE]]
    BY <1>10 DEF UserUnlocks
  <2>3. ASSUME NEW j \in DOMAIN commands
        PROVE  /\ commands'[j] \in Command
               /\ commands'[j].locked = FALSE /\ commands'[j].pc = commands[j].pc
               /\ commands'[j].action = commands[j].action
    BY <1>1, <2>2, CommandTypes DEF Command
  <2>4. commands' \in Seq(Command) /\ Len(commands') = Len(commands)
    <3>1. DOMAIN commands' = 1..Len(commands) /\ Len(commands) \in Nat
      BY <2>1, <2>2
    <3>2. commands' \in [1..Len(commands) -> Command]
      BY <2>2, <2>3, <3>1
    <3>3. commands' \in Seq(Command)
      BY <3>1, <3>2, SeqDef
    <3> QED
      BY <3>1, <3>3, LenProperties
  <2>5. PowerTypeOK'
    BY <1>1, <1>10, <2>4 DEF UserUnlocks, PowerTypeOK
  <2>6. ASSUME NEW j \in DOMAIN commands' PROVE Guarded(commands[j])'
    <3>1. j \in DOMAIN commands
      BY <2>2
    <3>2. Guarded(commands[j])
      BY <1>1, <3>1
    <3> QED
      BY <2>3, <3>1, <3>2 DEF Guarded
  <2> QED
    BY <2>5, <2>6 DEF PowerInv
<1>11. CASE UNCHANGED powerVars
  BY <1>1, <1>11 DEF powerVars, PowerInv, PowerTypeOK, Guarded, Truthful
<1> QED
  BY <1>2, <1>3, <1>4, <1>5, <1>6, <1>7, <1>8, <1>9, <1>10, <1>11
     DEF PowerNext, Carry, Monitor

LEMMA PowerInvariant == PowerSpec => []PowerInv
BY PowerInitially, PowerStep, PTL DEF PowerSpec

-----------------------------------------------------------------------------
(* The type invariant. *)
THEOREM PowerTypes == PowerSpec => []PowerTypeOK
<1>1. PowerInv => PowerTypeOK
  BY DEF PowerInv
<1> QED
  BY PowerInvariant, <1>1, PTL

(* No power action but the lock itself is carried out on a screen that has   *)
(* been locked since it was asked for, on the hosts that tell of their lock. *)
THEOREM LockedHostsKeepRunning == PowerSpec => []NotWhileLocked
<1>1. PowerInv => NotWhileLocked
  <2> SUFFICES ASSUME PowerInv, Truthful, NEW i \in DOMAIN commands,
                      commands[i].pc = "performed", commands[i].locked
               PROVE  FALSE
    BY DEF NotWhileLocked, Truthful
  <2>1. Guarded(commands[i])
    BY DEF PowerInv
  <2> QED
    BY <2>1 DEF Guarded
<1> QED
  BY PowerInvariant, <1>1, PTL

-----------------------------------------------------------------------------
(* The battery.  A drain that has had its alert is remembered by the flag,   *)
(* until a reading of a charging battery is under way; by then the battery   *)
(* is charging, and the next drain starts with no alert.  On any other       *)
(* system than these two every reading counts as charging.                   *)
Distinguished == system \in {"linux", "windows"}

Remembered ==
  \/ alerted /\ (polling = "resets" \/ (polling = "sampled" /\ sample.isCharging) => Mended)
  \/ ~alerted /\ Mended /\ (polling = "sampled" => sample.isCharging)

AlertInv ==
  /\ told <= 1
  /\ polling \in {"alerts", "broadcasts"} => told = 0 /\ Distinguished
  /\ polling = "broadcasts" => alerted
  /\ told = 1 => Distinguished /\ Remembered
  /\ polling = "sampled" /\ ~Distinguished => sample.isCharging

BatteryInv == BatteryTypeOK /\ (readable => AlertInv)

LEMMA BatteryInitially == BatteryInit => BatteryInv
<1> SUFFICES ASSUME BatteryInit PROVE BatteryInv
  OBVIOUS
<1> USE BatteryAssumption DEF BatteryAssumption
<1>1. alerted = FALSE /\ due = TRUE /\ readable \in BOOLEAN
  BY Zenon DEF BatteryInit
<1>2. sample \in BatteryInfo
  BY DEF BatteryInit, Absent, BatteryInfo
<1>3. alerted \in BOOLEAN /\ due \in BOOLEAN
  BY <1>1, Zenon
<1>4. BatteryTypeOK
  BY <1>1, <1>2, <1>3 DEF BatteryInit, BatteryTypeOK
<1>5. AlertInv
  BY <1>4 DEF BatteryInit, AlertInv
<1> QED
  BY <1>4, <1>5 DEF BatteryInv

LEMMA ReadingTypes ==
  ASSUME BatteryTypeOK, NEW info \in GetBatteryInfo
  PROVE  /\ info \in BatteryInfo
         /\ readable /\ Distinguished => info.isCharging = Mended
         /\ ~Distinguished => info.isCharging = TRUE
<1> USE BatteryAssumption DEF BatteryAssumption
<1>1. level \in 0..MaxLevel /\ 0 \in 0..MaxLevel /\ Mended \in BOOLEAN
  BY DEF BatteryTypeOK, Mended
<1>2. \A l \in 0..MaxLevel, b \in BOOLEAN :
        Info(l, b) \in BatteryInfo /\ Info(l, b).isCharging = b
  BY DEF Info, BatteryInfo
<1>3. CASE system = "linux"
  BY <1>1, <1>2, <1>3 DEF GetBatteryInfo, GetLinuxBattery, Distinguished
<1>4. CASE system = "windows"
  BY <1>1, <1>2, <1>4 DEF GetBatteryInfo, GetWindowsBattery, Distinguished
<1>5. CASE system \notin {"linux", "windows"}
  BY <1>1, <1>2, <1>5 DEF GetBatteryInfo, GetMacOSBattery, Distinguished
<1> QED
  BY <1>3, <1>4, <1>5

LEMMA BatteryStep == BatteryInv /\ [BatteryNext]_batteryVars => BatteryInv'
<1> SUFFICES ASSUME BatteryInv, [BatteryNext]_batteryVars PROVE BatteryInv'
  OBVIOUS
<1> USE BatteryAssumption DEF BatteryAssumption
<1>1. BatteryTypeOK /\ (readable => AlertInv)
  BY DEF BatteryInv
<1> USE DEF drainHistory
<1>2. CASE StartBattery
  BY <1>1, <1>2 DEF StartBattery, BatteryInv, BatteryTypeOK, AlertInv, Remembered, Distinguished, Mended
<1>3. CASE Sample
  <2>1. due' \in BOOLEAN
    BY <1>3, Zenon DEF Sample
  <2>2. CASE sample' \in GetBatteryInfo /\ polling' = "sampled"
    <3>1. /\ sample' \in BatteryInfo
          /\ readable /\ Distinguished => sample'.isCharging = Mended
          /\ ~Distinguished => sample'.isCharging = TRUE
      BY <1>1, <2>2, ReadingTypes
    <3>2. BatteryTypeOK'
      BY <1>1, <1>3, <2>1, <2>2, <3>1 DEF Sample, BatteryTypeOK
    <3>3. readable' => AlertInv'
      BY <1>1, <1>3, <2>2, <3>1 DEF Sample, BatteryTypeOK, AlertInv, Remembered, Distinguished, Mended
    <3> QED
      BY <3>2, <3>3 DEF BatteryInv
  <2>3. CASE sample' = Absent /\ UNCHANGED polling
    <3>1. sample' \in BatteryInfo
      BY <2>3 DEF Absent, BatteryInfo
    <3>2. BatteryTypeOK'
      BY <1>1, <1>3, <2>1, <2>3, <3>1 DEF Sample, BatteryTypeOK
    <3>3. readable' => AlertInv'
      BY <1>1, <1>3, <2>3 DEF Sample, BatteryTypeOK, AlertInv, Remembered, Distinguished, Mended
    <3> QED
      BY <3>2, <3>3 DEF BatteryInv
  <2> QED
    BY <1>3, <2>2, <2>3 DEF Sample
<1>4. CASE DecideAlert
  BY <1>1, <1>4 DEF DecideAlert, BatteryInv, BatteryTypeOK, AlertInv, Remembered, Distinguished, Mended
<1>5. CASE Reset
  BY <1>1, <1>5 DEF Reset, BatteryInv, BatteryTypeOK, AlertInv, Remembered, Distinguished, Mended
<1>6. CASE Alert
  BY <1>1, <1>6 DEF Alert, BatteryInv, BatteryTypeOK, AlertInv, Remembered, Distinguished, Mended
<1>7. CASE BroadcastAlert
  <2>1. due' \in BOOLEAN
    BY <1>7, Zenon DEF BroadcastAlert
  <2>2. BatteryTypeOK'
    BY <1>1, <1>7, <2>1 DEF BroadcastAlert, BatteryTypeOK
  <2>3. readable' => AlertInv'
    BY <1>1, <1>7 DEF BroadcastAlert, BatteryTypeOK, AlertInv, Remembered, Distinguished, Mended
  <2> QED
    BY <2>2, <2>3 DEF BatteryInv
<1>8. ASSUME NEW pct \in Thresholds, SetThreshold(pct) PROVE BatteryInv'
  BY <1>1, <1>8 DEF SetThreshold, BatteryInv, BatteryTypeOK, AlertInv, Remembered, Distinguished, Mended
<1>9. CASE Drain
  BY <1>1, <1>9 DEF Drain, BatteryInv, BatteryTypeOK, AlertInv, Remembered, Distinguished, Mended
<1>10. CASE Charge
  BY <1>1, <1>10 DEF Charge, BatteryInv, BatteryTypeOK, AlertInv, Remembered, Distinguished, Mended
<1>11. ASSUME NEW s \in {"charging", "full", "held", "discharging"}, Plug(s) PROVE BatteryInv'
  BY <1>1, <1>11 DEF Plug, BatteryInv, BatteryTypeOK, AlertInv, Remembered, Distinguished, Mended
<1>12. CASE UNCHANGED batteryVars
  BY <1>1, <1>12 DEF batteryVars, BatteryInv, BatteryTypeOK, AlertInv, Remembered, Distinguished, Mended
<1> QED
  BY <1>2, <1>3, <1>4, <1>5, <1>6, <1>7, <1>8, <1>9, <1>10, <1>11, <1>12
     DEF BatteryNext, CheckBattery

(* One alert from one charging to the next, whatever the threshold does.     *)
THEOREM OneAlertForEachDrain == BatterySpec => []OneAlertPerDrain
<1>1. BatterySpec => []BatteryInv
  BY BatteryInitially, BatteryStep, PTL DEF BatterySpec
<1>2. BatteryInv => OneAlertPerDrain
  BY DEF BatteryInv, AlertInv, OneAlertPerDrain
<1> QED
  BY <1>1, <1>2, PTL
=============================================================================
