------------------------------ MODULE Clipboard ------------------------------
(***************************************************************************)
(* The clipboard feed, from the host's clipboard to room "clipboard":      *)
(*   LinqoraHost/internal/clipboard/clipboard.go                           *)
(*   LinqoraHost/internal/collectors/clipboard.go                          *)
(*   LinqoraHost/internal/ws/broadcaster.go (BroadcastClipboard)           *)
(*                                                                         *)
(* Every Start makes two goroutines, a watcher and a forwarder, joined by  *)
(* a channel; Stop cancels their context and waits for neither, so those   *)
(* of an earlier start may still be busy.  A select with its context       *)
(* cancelled may still take the other case.                                *)
(***************************************************************************)
EXTENDS Naturals, Sequences

CONSTANTS
  Texts,      \* what may be copied
  NoText,     \* the empty text
  ClipCap,    \* capacity of the channel (8 in the code)
  MaxFeeds    \* bound: calls of Start

ASSUME ClipboardAssumption ==
  NoText \in Texts /\ ClipCap \in Nat \ {0} /\ MaxFeeds \in Nat

VARIABLES
  text,       \* what the clipboard holds
  feeds       \* the pairs of goroutines started so far: a sequence of Feed

clipVars == <<text, feeds>>

Feed == [live : BOOLEAN,      \* its context is not cancelled
         watcher : {"starts", "polls", "sends", "ended"},
         last : Texts,
         buffer : Seq(Texts),
         forwarder : {"waits", "holds", "ended"},
         hand : Texts,        \* what the forwarder has taken
         said : Texts]        \* history: its last broadcast, its first look before that

ClipboardTypeOK ==
  /\ text \in Texts
  /\ feeds \in Seq(Feed) /\ Len(feeds) <= MaxFeeds
  /\ \A f \in DOMAIN feeds : Len(feeds[f].buffer) <= ClipCap

ClipboardInit == text = NoText /\ feeds = <<>>

-----------------------------------------------------------------------------
(* The user, a program, or a client (handleClipboardSet). *)
Copy(t) == text' = t /\ UNCHANGED feeds

IsRunning == feeds # <<>> /\ feeds[Len(feeds)].live

StartClipboard ==
  /\ ~IsRunning /\ Len(feeds) < MaxFeeds
  /\ feeds' = Append(feeds, [live |-> TRUE, watcher |-> "starts", last |-> NoText,
                             buffer |-> <<>>, forwarder |-> "waits", hand |-> NoText,
                             said |-> NoText])
  /\ UNCHANGED text

StopClipboard ==
  /\ IsRunning
  /\ feeds' = [feeds EXCEPT ![Len(feeds)].live = FALSE]
  /\ UNCHANGED text

-----------------------------------------------------------------------------
(* watchWithGetter: what is there at first is not sent; an error counts as   *)
(* the empty text.                                                           *)
FirstGet(f) ==
  /\ feeds[f].watcher = "starts"
  /\ \E t \in {text, NoText} :
       feeds' = [feeds EXCEPT ![f].watcher = "polls", ![f].last = t, ![f].said = t]
  /\ UNCHANGED text

(* A tick that finds another text; the others change nothing. *)
Poll(f) ==
  /\ feeds[f].watcher = "polls" /\ text # feeds[f].last
  /\ feeds' = [feeds EXCEPT ![f].watcher = "sends", ![f].last = text]
  /\ UNCHANGED text

(* Mutant of Send: a full channel is not waited for. *)
SendOrSkip(f) ==
  /\ feeds[f].watcher = "sends"
  /\ feeds' = [feeds EXCEPT ![f].watcher = "polls",
                            ![f].buffer = IF Len(@) < ClipCap THEN Append(@, feeds[f].last) ELSE @]
  /\ UNCHANGED text

(* ch <- text. *)
Send(f) ==
  /\ feeds[f].watcher = "sends" /\ Len(feeds[f].buffer) < ClipCap
  /\ feeds' = [feeds EXCEPT ![f].watcher = "polls", ![f].buffer = Append(@, feeds[f].last)]
  /\ UNCHANGED text

(* <-ctx.Done(), in either of its selects. *)
WatcherEnds(f) ==
  /\ ~feeds[f].live /\ feeds[f].watcher \in {"polls", "sends"}
  /\ feeds' = [feeds EXCEPT ![f].watcher = "ended"]
  /\ UNCHANGED text

(* watchLoop takes a text from the channel... *)
Take(f) ==
  /\ feeds[f].forwarder = "waits" /\ feeds[f].buffer # <<>>
  /\ feeds' = [feeds EXCEPT ![f].forwarder = "holds", ![f].hand = Head(feeds[f].buffer),
                            ![f].buffer = Tail(@)]
  /\ UNCHANGED text

(* ... and BroadcastClipboard sends it to the room (Rooms.tla). *)
BroadcastClipboard(f) ==
  /\ feeds[f].forwarder = "holds"
  /\ feeds' = [feeds EXCEPT ![f].forwarder = "waits", ![f].said = feeds[f].hand]
  /\ UNCHANGED text

ForwarderEnds(f) ==
  /\ ~feeds[f].live /\ feeds[f].forwarder = "waits"
  /\ feeds' = [feeds EXCEPT ![f].forwarder = "ended"]
  /\ UNCHANGED text

Watch(f) == FirstGet(f) \/ Poll(f) \/ Send(f) \/ WatcherEnds(f)
WatchLoop(f) == Take(f) \/ BroadcastClipboard(f) \/ ForwarderEnds(f)

ClipboardNext ==
  \/ \E t \in Texts : Copy(t)
  \/ StartClipboard \/ StopClipboard
  \/ \E f \in DOMAIN feeds : Watch(f) \/ WatchLoop(f)

ClipboardSpec == ClipboardInit /\ [][ClipboardNext]_clipVars

-----------------------------------------------------------------------------
(* However often the clipboard changes, with the channel full or not, a text *)
(* is passed over only for a later one: a feed that is on and has nothing    *)
(* under way has last told the clients what the clipboard holds.             *)
FeedIsCurrent ==
  \A f \in DOMAIN feeds :
    feeds[f].live /\ ~ENABLED (Watch(f) \/ WatchLoop(f)) => feeds[f].said = text
=============================================================================
