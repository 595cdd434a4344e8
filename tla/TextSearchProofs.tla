-------------------------- MODULE TextSearchProofs --------------------------
(* Theorems about TextSearch, for any number of streams, any capacity of the  *)
(* channel and any number of batches.                                         *)
EXTENDS TextSearch, SequenceTheorems, TLAPS

(* Batches shown, in the channel and in the hand of the worker are, in this   *)
(* order, the batches found, until the receiver is dropped.                   *)
ShownInOrder(s) == \A i \in 1..Len(shown[s]) : shown[s][i] = <<s, i>>
InHand(t) == IF t.worker = "sending" THEN 1 ELSE 0
Queued(t, n) ==
    t.receiver => /\ n + Len(t.queue) + InHand(t) = t.found
                  /\ \A i \in 1..Len(t.queue) : t.queue[i] = n + i
QueuedInOrder(s) == Queued(task[s], Len(shown[s]))
InOrder == \A s \in Searches : ShownInOrder(s) /\ QueuedInOrder(s)

(* A search enters the slot as it is started, and is in it or was dropped.    *)
SlotIsLive ==
    /\ slot # None => task[slot].receiver /\ task[slot].worker # "none"
    /\ \A s \in Searches :
         /\ task[s].worker = "none" => task[s].receiver
         /\ stream[s] \in {"idle", "leased", "outdated"} => task[s].worker = "none"

(* What the state lock keeps apart.                                           *)
LockHeld ==
    /\ polling # None => dropping = None /\ ~closed
    /\ closed => slot = None

IInv == TypeOK /\ InOrder /\ SlotIsLive /\ LockHeld /\ OneSearchAtWork

-----------------------------------------------------------------------------
(* What happens to one search *)

(* Only the record of search s changes.                                       *)
LEMMA TaskMoves ==
    ASSUME TypeOK, NEW s \in Searches, NEW t \in Tasks, WorkerDoes(t, s)
    PROVE  /\ task' \in [Searches -> Tasks] /\ task'[s] = t
           /\ \A u \in Searches \ {s} : task'[u] = task[u]
           /\ UNCHANGED <<slot, idle, closed, dropping, polling, pageVars>>
BY DEF TypeOK, WorkerDoes

(* A worker that stays in its search keeps the invariant if its batches do.   *)
LEMMA WorkerHolds ==
    ASSUME IInv, NEW s \in Searches, NEW t \in Tasks, WorkerDoes(t, s),
           task[s].worker \in Running, t.worker # "none",
           t.receiver = task[s].receiver, t.cancelled = task[s].cancelled,
           Len(t.queue) <= Capacity,
           Queued(t, Len(shown[s]))
    PROVE  IInv'
<1> USE DEF IInv, pageVars
<1>1. /\ task' \in [Searches -> Tasks] /\ task'[s] = t
      /\ \A u \in Searches \ {s} : task'[u] = task[u]
      /\ UNCHANGED <<slot, idle, closed, dropping, polling, pageVars>>
  BY TaskMoves
<1>2. TypeOK'
  BY <1>1 DEF TypeOK
<1>3. InOrder'
  <2>1. \A u \in Searches : ShownInOrder(u)'
    BY <1>1 DEF InOrder, ShownInOrder
  <2>2. QueuedInOrder(s)'
    BY <1>1 DEF QueuedInOrder, InHand
  <2>3. ASSUME NEW u \in Searches \ {s} PROVE QueuedInOrder(u)'
    <3>1. task'[u] = task[u] /\ shown' = shown /\ QueuedInOrder(u)
      BY <1>1 DEF InOrder
    <3> QED BY <3>1 DEF QueuedInOrder, InHand
  <2> QED BY <2>1, <2>2, <2>3 DEF InOrder
<1>4. SlotIsLive'
  BY <1>1 DEF SlotIsLive, TypeOK, Running
<1>5. LockHeld'
  BY <1>1 DEF LockHeld
<1>6. OneSearchAtWork'
  BY <1>1 DEF OneSearchAtWork
<1> QED BY <1>2, <1>3, <1>4, <1>5, <1>6

(* What a worker does to its batches keeps them in order.                     *)
LEMMA FindKeepsOrder ==
    ASSUME NEW n \in Nat, NEW t \in Tasks, Queued(t, n), t.worker = "walking",
           NEW u \in Tasks, u.worker = "sending", u.receiver = t.receiver,
           u.queue = t.queue, u.found = t.found + 1
    PROVE  Queued(u, n)
<1>1. t.queue \in Seq(Nat) /\ t.found \in Nat
  BY DEF Tasks
<1>2. SUFFICES ASSUME u.receiver
               PROVE  /\ n + Len(u.queue) + InHand(u) = u.found
                      /\ \A i \in 1..Len(u.queue) : u.queue[i] = n + i
  BY DEF Queued
<1>3. n + Len(t.queue) = t.found /\ \A i \in 1..Len(t.queue) : t.queue[i] = n + i
  BY <1>1, <1>2 DEF Queued, InHand
<1> QED BY <1>1, <1>3 DEF InHand

(* The batch in the worker's hand goes to the end of the channel.             *)
LEMMA SendKeepsOrder ==
    ASSUME NEW n \in Nat, NEW t \in Tasks, Queued(t, n), t.worker = "sending", t.receiver,
           NEW u \in Tasks, u.worker = "walking",
           u.queue = Append(t.queue, t.found), u.found = t.found
    PROVE  Queued(u, n)
<1>1. t.queue \in Seq(Nat) /\ t.found \in Nat
  BY DEF Tasks
<1>2. n + Len(t.queue) + 1 = t.found /\ \A i \in 1..Len(t.queue) : t.queue[i] = n + i
  BY <1>1 DEF Queued, InHand
<1>3. /\ Len(u.queue) = Len(t.queue) + 1 /\ u.queue[Len(t.queue) + 1] = t.found
      /\ \A i \in 1..Len(t.queue) : u.queue[i] = t.queue[i]
  BY <1>1
<1>4. n + Len(u.queue) + InHand(u) = u.found
  BY <1>1, <1>2, <1>3 DEF InHand
<1>5. ASSUME NEW i \in 1..Len(u.queue) PROVE u.queue[i] = n + i
  <2>1. CASE i \in 1..Len(t.queue)
    BY <1>2, <1>3, <2>1
  <2>2. CASE i = Len(t.queue) + 1
    BY <1>1, <1>2, <1>3, <2>2
  <2>3. Len(t.queue) \in Nat
    BY <1>1
  <2> QED BY <1>3, <2>1, <2>2, <2>3
<1> QED BY <1>4, <1>5 DEF Queued

(* A search with nothing in its worker's hand keeps its order as it is.       *)
LEMMA StillKeepsOrder ==
    ASSUME NEW n, NEW t, Queued(t, n), t.worker # "sending",
           NEW u, u.worker # "sending", u.receiver = t.receiver,
           u.queue = t.queue, u.found = t.found
    PROVE  Queued(u, n)
BY DEF Queued, InHand

(* Every step of a worker keeps the invariant.                                *)
LEMMA WorkerStepHolds ==
    ASSUME IInv, NEW s \in Searches, WorkerStep(s)
    PROVE  IInv'
<1> USE DEF IInv
<1>1. task[s] \in Tasks /\ Len(task[s].queue) <= Capacity
  BY DEF TypeOK
<1>2. Queued(task[s], Len(shown[s]))
  BY DEF InOrder, QueuedInOrder
<1>3. Len(shown[s]) \in Nat
  BY DEF TypeOK
<1>4. CASE FindBatch(s)
  <2> DEFINE t == [task[s] EXCEPT !.worker = "sending", !.found = @ + 1]
  <2>1. task[s].worker = "walking" /\ task[s].found < MaxBatches /\ WorkerDoes(t, s)
    BY <1>4 DEF FindBatch
  <2>2. task[s].found + 1 \in 0..MaxBatches
    BY <1>1, <2>1, BoundsAreNat DEF Tasks
  <2>3. /\ t \in Tasks /\ t.worker = "sending" /\ t.queue = task[s].queue /\ t.found = task[s].found + 1
        /\ t.receiver = task[s].receiver /\ t.cancelled = task[s].cancelled
    BY <1>1, <2>2 DEF Tasks, Running
  <2>4. Queued(t, Len(shown[s]))
    BY <1>1, <1>2, <1>3, <2>1, <2>3, FindKeepsOrder
  <2> QED BY <1>1, <2>1, <2>3, <2>4, WorkerHolds DEF Running
<1>5. CASE Finish(s)
  <2> DEFINE t == [task[s] EXCEPT !.worker = "ended", !.done = TRUE]
  <2>1. task[s].worker = "walking" /\ WorkerDoes(t, s)
    BY <1>5 DEF Finish
  <2>2. /\ t \in Tasks /\ t.worker = "ended" /\ t.queue = task[s].queue /\ t.found = task[s].found
        /\ t.receiver = task[s].receiver /\ t.cancelled = task[s].cancelled
    BY <1>1, <2>1 DEF Tasks, Running
  <2>3. Queued(t, Len(shown[s]))
    BY <1>1, <1>2, <1>3, <2>1, <2>2, StillKeepsOrder
  <2> QED BY <1>1, <2>1, <2>2, <2>3, WorkerHolds DEF Running
<1>6. CASE Send(s)
  <2>1. CASE task[s].receiver
    <3> DEFINE t == [task[s] EXCEPT !.worker = "walking", !.queue = Append(@, task[s].found)]
    <3>1. task[s].worker = "sending" /\ Len(task[s].queue) < Capacity /\ WorkerDoes(t, s)
      BY <1>6, <2>1 DEF Send
    <3>2. task[s].queue \in Seq(Nat) /\ task[s].found \in Nat
      BY <1>1 DEF Tasks
    <3>3. t.queue = Append(task[s].queue, task[s].found) /\ t.queue \in Seq(Nat)
      BY <1>1, <3>2 DEF Tasks
    <3>4. /\ t \in Tasks /\ t.worker = "walking" /\ t.found = task[s].found
          /\ t.receiver = task[s].receiver /\ t.cancelled = task[s].cancelled
      BY <1>1, <3>3 DEF Tasks, Running
    <3>5. Len(t.queue) <= Capacity
      BY <3>1, <3>2, <3>3, BoundsAreNat
    <3>6. Queued(t, Len(shown[s]))
      BY <1>1, <1>2, <1>3, <2>1, <3>1, <3>3, <3>4, SendKeepsOrder
    <3> QED BY <3>1, <3>4, <3>5, <3>6, WorkerHolds DEF Running
  <2>2. CASE ~task[s].receiver
    <3> DEFINE t == [task[s] EXCEPT !.worker = "ended"]
    <3>1. task[s].worker = "sending" /\ WorkerDoes(t, s)
      BY <1>6, <2>2 DEF Send
    <3>2. /\ t \in Tasks /\ t.worker = "ended" /\ t.queue = task[s].queue
          /\ t.receiver = task[s].receiver /\ t.cancelled = task[s].cancelled
      BY <1>1 DEF Tasks, Running
    <3>3. Queued(t, Len(shown[s]))
      BY <2>2, <3>2 DEF Queued
    <3> QED BY <1>1, <3>1, <3>2, <3>3, WorkerHolds DEF Running
  <2> QED BY <2>1, <2>2
<1> QED BY <1>4, <1>5, <1>6 DEF WorkerStep

-----------------------------------------------------------------------------
(* Steps that touch no search *)

(* A stream goes on, and nothing happens to the searches.                     *)
LEMMA StreamHolds ==
    ASSUME IInv, UNCHANGED <<slot, closed, task, dropping, shown>>,
           idle' \in BOOLEAN, left' \subseteq Searches, token' \subseteq Searches,
           stream' \in [Searches -> Phases],
           \A s \in Searches : stream'[s] \in {"idle", "leased", "outdated"} =>
                                  stream[s] \in {"idle", "leased", "outdated"},
           polling' # None => /\ polling' = slot /\ stream'[polling'] \in {"polling", "drained"}
                              /\ dropping = None /\ ~closed
    PROVE  IInv'
<1> USE DEF IInv
<1>1. TypeOK'
  BY DEF TypeOK
<1>2. InOrder'
  BY DEF InOrder, ShownInOrder, QueuedInOrder, InHand
<1>3. SlotIsLive'
  BY DEF SlotIsLive
<1>4. LockHeld'
  BY DEF LockHeld
<1>5. OneSearchAtWork'
  BY DEF OneSearchAtWork
<1> QED BY <1>1, <1>2, <1>3, <1>4, <1>5

(* One stream goes on, and keeps the lock if it is the one that polls.        *)
LEMMA GoesOn ==
    ASSUME IInv, NEW s \in Searches, NEW phase \in Phases, Goes(s, phase),
           phase \in {"leased", "outdated"} => stream[s] \in {"idle", "leased"},
           phase # "idle", s # polling, polling' = polling, idle' = idle,
           UNCHANGED <<slot, closed, task, dropping, left, token, shown>>
    PROVE  IInv'
<1>1. /\ stream' \in [Searches -> Phases] /\ stream'[s] = phase
      /\ \A u \in Searches \ {s} : stream'[u] = stream[u]
  BY DEF IInv, TypeOK, Goes
<1>2. \A u \in Searches : stream'[u] \in {"idle", "leased", "outdated"} =>
                                  stream[u] \in {"idle", "leased", "outdated"}
  BY <1>1
<1>3. polling' # None => /\ polling' = slot /\ stream'[polling'] \in {"polling", "drained"}
                         /\ dropping = None /\ ~closed
  BY <1>1 DEF IInv, TypeOK, LockHeld
<1>4. idle' \in BOOLEAN /\ left' \subseteq Searches /\ token' \subseteq Searches
  BY DEF IInv, TypeOK
<1> QED BY <1>1, <1>2, <1>3, <1>4, StreamHolds

(* Only the stream of a poll is in it.                                        *)
LEMMA NotPolling ==
    ASSUME IInv, NEW s \in Searches, stream[s] \notin {"polling", "drained"}
    PROVE  s # polling
BY NoneIsNoSearch DEF IInv, TypeOK

(* A lease, the return of a start and a wake-up move one stream.              *)
LEMMA PageStepHolds ==
    ASSUME IInv, NEW s \in Searches, Lease(s) \/ PageStep(s) \/ RequestCancel(s)
    PROVE  IInv'
<1> USE DEF nativeVars
<1>1. CASE Lease(s)
  <2>1. PICK phase \in {"leased", "failed"} : Goes(s, phase)
    BY <1>1 DEF Lease
  <2>2. /\ stream[s] = "idle" /\ phase \in Phases
        /\ UNCHANGED <<nativeVars, left, token, shown>>
    BY <1>1 DEF Lease, Phases, Ended
  <2> QED BY <2>1, <2>2, NotPolling, GoesOn
<1>2. CASE PageStep(s)
  <2>1. PICK phase \in {"cancelling", "calling"} : Goes(s, phase)
    BY <1>2 DEF PageStep, StartReturns, Wakes
  <2>2. /\ stream[s] \in {"starting", "waiting"} /\ phase \in Phases
        /\ UNCHANGED <<nativeVars, left, token, shown>>
    BY <1>2 DEF PageStep, StartReturns, Wakes, Phases
  <2> QED BY <2>1, <2>2, NotPolling, GoesOn
<1>3. CASE RequestCancel(s)
  BY <1>3, StreamHolds DEF RequestCancel, IInv, TypeOK, LockHeld
<1> QED BY <1>1, <1>2, <1>3

(* The poll ends, time passes, the page reloads.                              *)
LEMMA QuietHolds ==
    ASSUME IInv, Drained \/ EndPoll \/ IdleTimeout \/ Reload \/ UNCHANGED vars
    PROVE  IInv'
<1> USE DEF IInv
<1>1. CASE Drained
  <2>1. stream' = [stream EXCEPT ![polling] = "drained"] /\ UNCHANGED <<nativeVars, left, token, shown>>
    BY <1>1 DEF Drained, Goes
  <2>2. stream' \in [Searches -> Phases]
    BY <2>1 DEF TypeOK, Phases
  <2>3. polling # None /\ polling \in Searches /\ stream'[polling] = "drained"
    BY <1>1, <2>1 DEF Drained, TypeOK
  <2>4. \A s \in Searches : stream'[s] \in {"idle", "leased", "outdated"} =>
                               stream[s] \in {"idle", "leased", "outdated"}
    BY <2>1 DEF TypeOK
  <2> QED BY <2>1, <2>2, <2>3, <2>4, StreamHolds DEF TypeOK, LockHeld, nativeVars
<1>2. CASE EndPoll
  <2>1. /\ polling \in Searches /\ Goes(polling, AfterPoll(polling)) /\ polling' = None
        /\ idle' = FALSE /\ UNCHANGED <<slot, closed, task, dropping, left, token, shown>>
    BY <1>2 DEF EndPoll, TypeOK
  <2>2. AfterPoll(polling) \in {"finished", "cancelling", "waiting"}
    BY DEF AfterPoll
  <2>3. stream' \in [Searches -> Phases]
    BY <2>1, <2>2 DEF TypeOK, Goes, Phases, Ended
  <2>4. \A s \in Searches : stream'[s] \in {"idle", "leased", "outdated"} =>
                               stream[s] \in {"idle", "leased", "outdated"}
    BY <2>1, <2>2 DEF TypeOK, Goes
  <2> QED BY <2>1, <2>3, <2>4, StreamHolds DEF TypeOK
<1>3. CASE IdleTimeout
  BY <1>3, StreamHolds DEF IdleTimeout, TypeOK, LockHeld, pageVars
<1>4. CASE Reload
  <2>1. left' \subseteq Searches /\ UNCHANGED <<nativeVars, stream, token, shown>>
    BY <1>4 DEF Reload, TypeOK
  <2> QED BY <2>1, StreamHolds DEF TypeOK, LockHeld, nativeVars
<1>5. CASE UNCHANGED vars
  BY <1>5, StreamHolds DEF vars, nativeVars, pageVars, TypeOK, LockHeld
<1> QED BY <1>1, <1>2, <1>3, <1>4, <1>5

-----------------------------------------------------------------------------
(* A search leaves the slot *)

(* Dropping the slot's search changes no other.                               *)
LEMMA DropMoves ==
    ASSUME slot \in Searches \cup {None}, NEW ts \in [Searches -> Tasks], DropActive(ts)
    PROVE  /\ task' \in [Searches -> Tasks] /\ dropping' = slot
           /\ \A u \in Searches : u # slot => task'[u] = ts[u]
           /\ \A u \in Searches : u = slot =>
                /\ task'[u].worker = ts[u].worker /\ task'[u].cancelled /\ ~task'[u].receiver
                /\ task'[u].queue = <<>>
<1>1. CASE slot = None
  BY <1>1, NoneIsNoSearch DEF DropActive
<1>2. CASE slot # None
  <2> DEFINE t == Close(ts[slot])
  <2>1. ts[slot] \in Tasks
    BY <1>2
  <2>2. <<>> \in Seq(Nat)
    OBVIOUS
  <2>3. t \in Tasks /\ t.worker = ts[slot].worker /\ t.queue = <<>>
    BY <2>1, <2>2 DEF Close, Tasks
  <2>4. t.cancelled = TRUE /\ t.receiver = FALSE
    BY <2>1 DEF Close, Tasks
  <2>5. task' = [ts EXCEPT ![slot] = t] /\ dropping' = slot
    BY <1>2 DEF DropActive
  <2> HIDE DEF t
  <2> QED BY <1>2, <2>3, <2>4, <2>5
<1> QED BY <1>1, <1>2

(* With the lock free and the window open, only the search in the slot runs,  *)
(* so that it may be dropped: the invariant that does not speak of the slot.  *)
LEMMA DropHolds ==
    ASSUME IInv, LockFree, ~closed, NEW ts \in [Searches -> Tasks], DropActive(ts),
           UNCHANGED <<polling, left, token, shown>>, idle' = FALSE, closed' \in BOOLEAN,
           slot' # None => ~closed',
           slot' \in {None} \cup {s \in Searches : task[s].worker = "none"},
           \A u \in Searches : /\ u # slot' => ts[u] = task[u]
                               /\ u = slot' => /\ ts[u].worker \in {"walking", "ended"}
                                                /\ ts[u].receiver = task[u].receiver
                                                /\ ts[u].queue = task[u].queue
                                                /\ ts[u].found = task[u].found,
           stream' \in [Searches -> Phases],
           \A u \in Searches : stream'[u] \in {"idle", "leased", "outdated"} =>
                                  stream[u] \in {"idle", "leased", "outdated"} /\ u # slot'
    PROVE  IInv'
<1> USE DEF IInv
<1>1. polling = None /\ dropping = None
  BY DEF LockFree
<1>2. /\ task' \in [Searches -> Tasks] /\ dropping' = slot
      /\ \A u \in Searches : u # slot => task'[u] = ts[u]
      /\ \A u \in Searches : u = slot =>
           /\ task'[u].worker = ts[u].worker /\ task'[u].cancelled /\ ~task'[u].receiver
           /\ task'[u].queue = <<>>
  BY DropMoves DEF TypeOK
<1>3. slot' # None => slot' \in Searches /\ slot' # slot /\ task[slot'].worker = "none"
  BY DEF SlotIsLive
<1>4. TypeOK'
  <2>1. \A u \in Searches : Len(task'[u].queue) <= Capacity
    <3>1. Len(<<>>) <= Capacity
      BY BoundsAreNat
    <3>2. \A u \in Searches : task'[u].queue \in {task[u].queue, <<>>}
      BY <1>2
    <3> QED BY <3>1, <3>2 DEF TypeOK
  <2>2. slot' \in Searches \cup {None} /\ dropping' \in Searches \cup {None}
    BY <1>2, <1>3 DEF TypeOK
  <2> QED BY <1>1, <1>2, <2>1, <2>2 DEF TypeOK
<1>5. InOrder'
  <2>1. ASSUME NEW u \in Searches PROVE Queued(task[u], Len(shown[u]))
    BY DEF InOrder, QueuedInOrder
  <2>2. ASSUME NEW u \in Searches, u # slot PROVE Queued(task'[u], Len(shown[u]))
    <3>1. CASE u # slot'
      BY <1>2, <2>1, <2>2, <3>1
    <3>2. CASE u = slot'
      <4>1. task'[u] = ts[u] /\ task[u].worker = "none" /\ ts[u].worker # "sending"
        BY <1>2, <1>3, <2>2, <3>2, NoneIsNoSearch
      <4>2. /\ ts[u].receiver = task[u].receiver /\ ts[u].queue = task[u].queue
            /\ ts[u].found = task[u].found
        BY <3>2
      <4>3. Queued(task[u], Len(shown[u])) /\ task[u].worker # "sending"
        BY <2>1, <4>1
      <4>4. Queued(ts[u], Len(shown[u]))
        BY <4>1, <4>2, <4>3, StillKeepsOrder
      <4> QED BY <4>1, <4>4
    <3> QED BY <3>1, <3>2
  <2>3. ASSUME NEW u \in Searches, u = slot PROVE Queued(task'[u], Len(shown[u]))
    BY <1>2, <2>3 DEF Queued
  <2>4. ASSUME NEW u \in Searches PROVE ShownInOrder(u)' /\ QueuedInOrder(u)'
    <3>1. ShownInOrder(u)
      BY DEF InOrder
    <3>2. ShownInOrder(u)'
      BY <3>1 DEF ShownInOrder
    <3>3. QueuedInOrder(u)'
      BY <2>2, <2>3 DEF QueuedInOrder
    <3> QED BY <3>2, <3>3
  <2> QED BY <2>4 DEF InOrder
<1>6. SlotIsLive'
  <2>1. slot' # None => task'[slot'].receiver /\ task'[slot'].worker # "none"
    BY <1>2, <1>3 DEF SlotIsLive
  <2>2. ASSUME NEW u \in Searches, task'[u].worker = "none" PROVE task'[u].receiver
    <3>1. u # slot'
      BY <1>3, <2>1, <2>2, NoneIsNoSearch
    <3>2. u # slot
      BY <1>2, <2>2, <3>1, NoneIsNoSearch DEF SlotIsLive
    <3> QED BY <1>2, <2>2, <3>1, <3>2 DEF SlotIsLive
  <2>3. ASSUME NEW u \in Searches, stream'[u] \in {"idle", "leased", "outdated"}
        PROVE  task'[u].worker = "none"
    <3>1. u # slot' /\ task[u].worker = "none"
      BY <2>3 DEF SlotIsLive
    <3> QED BY <1>2, <3>1
  <2> QED BY <2>1, <2>2, <2>3 DEF SlotIsLive
<1>7. LockHeld'
  BY <1>1 DEF LockHeld
<1>8. OneSearchAtWork'
  <2>1. ASSUME NEW u \in Searches, task'[u].worker \in Running, u # slot'
        PROVE  task'[u].cancelled /\ u = dropping'
    <3>1. task[u].worker \in Running
      BY <1>2, <2>1
    <3>2. u = slot
      BY <1>1, <3>1, NoneIsNoSearch DEF OneSearchAtWork
    <3> QED BY <1>2, <3>2
  <2> QED BY <2>1 DEF OneSearchAtWork
<1> QED BY <1>4, <1>5, <1>6, <1>7, <1>8
(* The slot is emptied, and one stream goes on, or all that had leased.       *)
LEMMA EmptyingHolds ==
    ASSUME IInv, LockFree, ~closed, DropActive(task), Emptied, closed' \in BOOLEAN,
           UNCHANGED <<polling, left, token, shown>>,
           stream' \in [Searches -> Phases],
           \A u \in Searches : stream'[u] \in {"idle", "leased", "outdated"} =>
                                  stream[u] \in {"idle", "leased", "outdated"}
    PROVE  IInv'
BY DropHolds, NoneIsNoSearch DEF Emptied, IInv, TypeOK

(* A stream that goes on is not one that has yet to start.                    *)
LEMMA GoesTyped ==
    ASSUME IInv, NEW s \in Searches, NEW phase \in Phases \ {"idle", "leased", "outdated"}, Goes(s, phase)
    PROVE  /\ stream' \in [Searches -> Phases]
           /\ stream'[s] = phase /\ \A u \in Searches \ {s} : stream'[u] = stream[u]
           /\ \A u \in Searches : stream'[u] \in {"idle", "leased", "outdated"} =>
                                  stream[u] \in {"idle", "leased", "outdated"}
<1>1. /\ stream' \in [Searches -> Phases]
      /\ stream'[s] = phase /\ \A u \in Searches \ {s} : stream'[u] = stream[u]
  BY DEF IInv, TypeOK, Goes
<1> QED BY <1>1

(* discard_expired_text_search with the lock, and one stream that goes on.    *)
LEMMA DiscardHolds ==
    ASSUME IInv, NEW s \in Searches, NEW phase \in {"failed", "cancelled"}, Goes(s, phase),
           LockFree, ~closed, DiscardExpired, UNCHANGED <<closed, polling, left, token, shown>>
    PROVE  IInv'
<1>1. phase \in Phases \ {"idle", "leased", "outdated"}
  BY DEF Phases, Ended
<1>2. CASE UNCHANGED <<task, dropping, slot, idle>>
  <2>1. s # polling
    BY NoneIsNoSearch DEF LockFree
  <2> QED BY <1>1, <1>2, <2>1, GoesOn
<1>3. CASE DropActive(task) /\ Emptied
  <2>1. closed' \in BOOLEAN
    BY DEF IInv, TypeOK
  <2> QED BY <1>1, <1>3, <2>1, GoesTyped, EmptyingHolds
<1> QED BY <1>2, <1>3 DEF DiscardExpired

(* start_text_search puts a new search into the slot.                         *)
LEMMA InstallHolds ==
    ASSUME IInv, NEW s \in Searches, Install(s)
    PROVE  IInv'
<1>1. /\ stream[s] \in {"leased", "outdated"} /\ LockFree
      /\ UNCHANGED <<closed, polling, left, token, shown>>
  BY DEF Install
<1>2. CASE closed
  <2>1. Goes(s, "failed") /\ UNCHANGED <<slot, idle, task, dropping>>
    BY <1>2 DEF Install
  <2> QED BY <1>1, <2>1, NotPolling, GoesOn DEF Phases, Ended
<1>3. CASE ~closed
  <2>1. PICK spawned \in BOOLEAN :
              DropActive([task EXCEPT ![s].worker = IF spawned THEN "walking" ELSE "ended",
                                      ![s].done = ~spawned])
    BY <1>3 DEF Install
  <2> DEFINE w == IF spawned THEN "walking" ELSE "ended"
             t == [task[s] EXCEPT !.worker = w, !.done = ~spawned]
             ts == [task EXCEPT ![s] = t]
  <2>2. task \in [Searches -> Tasks] /\ task[s] \in Tasks
    BY DEF IInv, TypeOK
  <2>3. w \in {"walking", "ended"}
    OBVIOUS
  <2>4. t \in Tasks
    <3> HIDE DEF w
    <3> QED BY <2>2, <2>3 DEF Tasks, Running
  <2>5. /\ t.worker \in {"walking", "ended"} /\ t.queue = task[s].queue
        /\ t.found = task[s].found /\ t.receiver = task[s].receiver
    <3> HIDE DEF w
    <3> QED BY <2>2, <2>3 DEF Tasks
  <2>6. [task EXCEPT ![s].worker = w, ![s].done = ~spawned] = ts
    BY <2>2
  <2>7. DropActive(ts)
    BY <2>1, <2>6
  <2> HIDE DEF t
  <2>8. ts \in [Searches -> Tasks] /\ ts[s] = t /\ \A u \in Searches \ {s} : ts[u] = task[u]
    BY <2>2, <2>4
  <2> HIDE DEF ts
  <2>9. slot' = s /\ idle' = FALSE /\ Goes(s, "starting")
    BY <1>3 DEF Install
  <2>10. task[s].worker = "none"
    BY <1>1 DEF IInv, SlotIsLive
  <2>11. /\ stream' \in [Searches -> Phases] /\ stream'[s] = "starting"
         /\ \A u \in Searches : stream'[u] \in {"idle", "leased", "outdated"} =>
                                stream[u] \in {"idle", "leased", "outdated"}
    BY <2>9, GoesTyped DEF Phases, Ended
  <2>12. \A u \in Searches : /\ u # slot' => ts[u] = task[u]
                             /\ u = slot' => /\ ts[u].worker \in {"walking", "ended"}
                                              /\ ts[u].receiver = task[u].receiver
                                              /\ ts[u].queue = task[u].queue
                                              /\ ts[u].found = task[u].found
    BY <2>5, <2>8, <2>9
  <2>13. closed' \in BOOLEAN /\ ~closed'
    BY <1>1, <1>3 DEF IInv, TypeOK
  <2>14. slot' \in {None} \cup {u \in Searches : task[u].worker = "none"}
    BY <2>9, <2>10
  <2>15. \A u \in Searches : stream'[u] \in {"idle", "leased", "outdated"} =>
                             stream[u] \in {"idle", "leased", "outdated"} /\ u # slot'
    BY <2>9, <2>11
  <2> QED BY <1>1, <1>3, <2>7, <2>8, <2>9, <2>11, <2>12, <2>13, <2>14, <2>15, DropHolds
<1> QED BY <1>2, <1>3

-----------------------------------------------------------------------------
(* poll and cancel *)

(* A poll starts, or finds another search or none.                            *)
LEMMA BeginPollHolds ==
    ASSUME IInv, NEW s \in Searches, BeginPoll(s)
    PROVE  IInv'
<1>1. /\ stream[s] = "calling" /\ LockFree /\ UNCHANGED <<closed, left, token, shown>>
  BY DEF BeginPoll
<1>2. CASE closed
  <2>1. Goes(s, "failed") /\ UNCHANGED <<task, dropping, slot, idle, polling>>
    BY <1>2 DEF BeginPoll
  <2> QED BY <1>1, <2>1, NotPolling, GoesOn DEF Phases, Ended
<1>3. CASE ~closed /\ Active(s) /\ polling' = s
  <2>1. Goes(s, "polling") /\ UNCHANGED <<task, dropping, slot, idle>>
    <3>1. polling = None
      BY <1>1 DEF LockFree
    <3> QED BY <1>3, <3>1, NoneIsNoSearch DEF BeginPoll
  <2>2. /\ stream' \in [Searches -> Phases] /\ stream'[s] = "polling"
        /\ \A u \in Searches : stream'[u] \in {"idle", "leased", "outdated"} =>
                               stream[u] \in {"idle", "leased", "outdated"}
    BY <2>1, GoesTyped DEF Phases, Ended
  <2>3. slot = s /\ dropping = None
    BY <1>1, <1>3 DEF Active, LockFree
  <2>4. idle' \in BOOLEAN /\ left' \subseteq Searches /\ token' \subseteq Searches
    BY <1>1, <2>1 DEF IInv, TypeOK
  <2> QED BY <1>1, <1>3, <2>1, <2>2, <2>3, <2>4, StreamHolds
<1>4. CASE ~closed /\ DiscardExpired /\ Goes(s, "failed") /\ UNCHANGED polling
  BY <1>1, <1>4, DiscardHolds
<1> QED BY <1>2, <1>3, <1>4 DEF BeginPoll

(* The stream's own search is cancelled, or another one left alone.           *)
LEMMA CancelHolds ==
    ASSUME IInv, NEW s \in Searches, Cancel(s)
    PROVE  IInv'
<1>1. /\ stream[s] = "cancelling" /\ LockFree /\ Goes(s, "cancelled")
      /\ UNCHANGED <<closed, polling, left, token, shown>>
  BY DEF Cancel
<1>2. CASE UNCHANGED <<task, dropping, slot, idle>>
  BY <1>1, <1>2, NotPolling, GoesOn DEF Phases, Ended
<1>3. CASE ~closed /\ DropActive(task) /\ Emptied
  <2>1. closed' \in BOOLEAN
    BY <1>1 DEF IInv, TypeOK
  <2> QED BY <1>1, <1>3, <2>1, GoesTyped, EmptyingHolds DEF Phases, Ended
<1>4. CASE ~closed /\ DiscardExpired
  BY <1>1, <1>4, DiscardHolds
<1> QED BY <1>2, <1>3, <1>4 DEF Cancel

(* The roots change, or the window closes.                                    *)
LEMMA InvalidatesHolds ==
    ASSUME IInv, RootsChange \/ CloseWindow
    PROVE  IInv'
<1>1. CASE RootsChange
  <2>1. /\ stream' \in [Searches -> Phases] /\ closed' \in BOOLEAN
        /\ \A u \in Searches : stream'[u] \in {"idle", "leased", "outdated"} =>
                               stream[u] \in {"idle", "leased", "outdated"}
    BY <1>1 DEF RootsChange, IInv, TypeOK, Phases
  <2> QED BY <1>1, <2>1, EmptyingHolds DEF RootsChange
<1>2. CASE CloseWindow
  <2>1. stream' \in [Searches -> Phases] /\ closed' \in BOOLEAN /\ stream' = stream
    BY <1>2 DEF CloseWindow, IInv, TypeOK, pageVars
  <2> QED BY <1>2, <2>1, EmptyingHolds DEF CloseWindow, pageVars
<1> QED BY <1>1, <1>2

(* The lock is held until the dropped worker has ended.                       *)
LEMMA JoinHolds ==
    ASSUME IInv, Join
    PROVE  IInv'
<1> USE DEF IInv, Join, pageVars
<1>1. TypeOK'
  BY DEF TypeOK
<1>2. InOrder'
  BY DEF InOrder, ShownInOrder, QueuedInOrder, Queued, InHand
<1>3. SlotIsLive' /\ LockHeld'
  BY DEF SlotIsLive, LockHeld
<1>4. OneSearchAtWork'
  BY DEF OneSearchAtWork, Running
<1> QED BY <1>1, <1>2, <1>3, <1>4

(* The head of the channel is the next batch to show.                         *)
LEMMA TakeKeepsOrder ==
    ASSUME NEW n \in Nat, NEW t \in Tasks, Queued(t, n), t.receiver, t.queue # <<>>,
           NEW u \in Tasks, u.worker = t.worker, u.queue = Tail(t.queue), u.found = t.found
    PROVE  Queued(u, n + 1) /\ Head(t.queue) = n + 1
<1>1. t.queue \in Seq(Nat) /\ t.found \in Nat
  BY DEF Tasks
<1>2. n + Len(t.queue) + InHand(t) = t.found /\ \A i \in 1..Len(t.queue) : t.queue[i] = n + i
  BY DEF Queued
<1>3. Len(t.queue) \in Nat \ {0} /\ Head(t.queue) = t.queue[1]
  BY <1>1
<1>4. /\ Len(u.queue) = Len(t.queue) - 1
      /\ \A i \in 1..Len(u.queue) : i + 1 \in 1..Len(t.queue) /\ u.queue[i] = t.queue[i + 1]
  BY <1>1
<1>5. InHand(u) = InHand(t) /\ InHand(t) \in Nat
  BY DEF InHand
<1>6. n + 1 + Len(u.queue) + InHand(u) = u.found
  <2>1. u.queue \in Seq(Nat)
    BY DEF Tasks
  <2>2. Len(t.queue) \in Nat /\ Len(u.queue) \in Nat /\ InHand(u) \in Nat /\ t.found \in Nat
    BY <1>1, <1>5, <2>1
  <2>3. PICK a \in Nat, b \in Nat, h \in Nat, f \in Nat :
              a = Len(t.queue) /\ b = Len(u.queue) /\ h = InHand(u) /\ f = t.found
    BY <2>2, Zenon
  <2>4. n + a + h = f
    BY <1>2, <1>5, <2>3
  <2>5. b = a - 1
    BY <1>4, <2>3
  <2>6. n + 1 + b + h = f
    BY <2>4, <2>5
  <2> QED BY <2>3, <2>6
<1>7. \A i \in 1..Len(u.queue) : u.queue[i] = n + 1 + i
  BY <1>2, <1>3, <1>4
<1>8. Head(t.queue) = n + 1
  BY <1>2, <1>3
<1> QED BY <1>6, <1>7, <1>8 DEF Queued

(* A poll hands one batch to the page.                                        *)
LEMMA TryRecvHolds ==
    ASSUME IInv, TryRecv
    PROVE  IInv'
<1> DEFINE t == [task[slot] EXCEPT !.queue = Tail(@), !.delivered = @ + 1]
           n == Len(shown[slot])
           p == <<slot, Head(task[slot].queue)>>
<1>1. /\ slot \in Searches /\ slot = polling /\ task[slot] \in Tasks /\ task[slot].queue # <<>>
      /\ UNCHANGED <<slot, idle, closed, dropping, polling, stream, left, token>>
  BY DEF IInv, TypeOK, TryRecv
<1>2. task[slot].receiver /\ Queued(task[slot], n) /\ ShownInOrder(slot)
  BY <1>1, NoneIsNoSearch DEF IInv, SlotIsLive, InOrder, QueuedInOrder
<1>3. shown[slot] \in Seq(Searches \X Nat) /\ n \in Nat
  BY <1>1 DEF IInv, TypeOK
<1>4. task[slot].queue \in Seq(Nat) /\ task[slot].delivered \in Nat /\ task[slot].delivered + 1 \in Nat
  BY <1>1 DEF Tasks
<1>5. /\ Tail(task[slot].queue) \in Seq(Nat) /\ Head(task[slot].queue) \in Nat
      /\ Len(Tail(task[slot].queue)) = Len(task[slot].queue) - 1
  BY <1>1, <1>4
<1>6. /\ t \in Tasks /\ t.worker = task[slot].worker /\ t.queue = Tail(task[slot].queue)
      /\ t.found = task[slot].found /\ t.receiver = task[slot].receiver
      /\ t.cancelled = task[slot].cancelled
  BY <1>1, <1>4, <1>5 DEF Tasks
<1>7. task' = [task EXCEPT ![slot] = t] /\ shown' = [shown EXCEPT ![slot] = Append(@, p)]
  BY <1>1 DEF TryRecv, IInv, TypeOK
<1>8. Queued(t, n + 1) /\ Head(task[slot].queue) = n + 1
  BY <1>1, <1>2, <1>3, <1>6, TakeKeepsOrder
<1> HIDE DEF t
<1>9. /\ task' \in [Searches -> Tasks] /\ task'[slot] = t
      /\ \A u \in Searches \ {slot} : task'[u] = task[u]
  BY <1>1, <1>6, <1>7 DEF IInv, TypeOK
<1>10. p \in Searches \X Nat /\ p = <<slot, n + 1>>
  BY <1>1, <1>5, <1>8
<1> HIDE DEF p
<1>11. /\ shown' \in [Searches -> Seq(Searches \X Nat)] /\ shown'[slot] = Append(shown[slot], p)
       /\ \A u \in Searches \ {slot} : shown'[u] = shown[u]
  <2>1. Append(shown[slot], p) \in Seq(Searches \X Nat)
    BY <1>3, <1>10
  <2> QED BY <1>1, <1>7, <2>1 DEF IInv, TypeOK
<1>12. /\ Len(shown'[slot]) = n + 1 /\ shown'[slot][n + 1] = p
       /\ \A i \in 1..n : shown'[slot][i] = shown[slot][i]
  BY <1>3, <1>10, <1>11
<1>13. TypeOK'
  <2>1. Len(t.queue) <= Capacity
    BY <1>1, <1>4, <1>5, <1>6, BoundsAreNat DEF IInv, TypeOK
  <2>2. \A u \in Searches : Len(task'[u].queue) <= Capacity
    BY <1>9, <2>1 DEF IInv, TypeOK
  <2> QED BY <1>1, <1>9, <1>11, <2>2 DEF IInv, TypeOK
<1>14. InOrder'
  <2>1. ShownInOrder(slot)'
    <3>1. ASSUME NEW i \in 1..Len(shown'[slot]) PROVE shown'[slot][i] = <<slot, i>>
      <4>1. CASE i \in 1..n
        BY <1>2, <1>12, <4>1 DEF ShownInOrder
      <4>2. CASE i = n + 1
        BY <1>10, <1>12, <4>2
      <4> QED BY <1>3, <1>12, <4>1, <4>2
    <3> QED BY <1>1, <3>1 DEF ShownInOrder
  <2>2. QueuedInOrder(slot)'
    BY <1>1, <1>8, <1>9, <1>12 DEF QueuedInOrder
  <2>3. ASSUME NEW u \in Searches \ {slot} PROVE ShownInOrder(u)' /\ QueuedInOrder(u)'
    <3>1. ShownInOrder(u) /\ QueuedInOrder(u) /\ task'[u] = task[u] /\ shown'[u] = shown[u]
      BY <1>9, <1>11 DEF IInv, InOrder
    <3> QED BY <3>1 DEF ShownInOrder, QueuedInOrder
  <2> QED BY <1>1, <2>1, <2>2, <2>3 DEF InOrder
<1>15. SlotIsLive'
  BY <1>1, <1>2, <1>6, <1>9 DEF IInv, SlotIsLive
<1>16. LockHeld' /\ OneSearchAtWork'
  BY <1>1, <1>6, <1>9 DEF IInv, LockHeld, OneSearchAtWork
<1> QED BY <1>13, <1>14, <1>15, <1>16 DEF IInv

-----------------------------------------------------------------------------
(* The invariant *)

(* The invariant holds at the start,                                          *)
LEMMA InitHolds == Init => IInv
<1> SUFFICES ASSUME Init PROVE IInv
  OBVIOUS
<1> USE DEF Init
<1>1. <<>> \in Seq(Nat) /\ <<>> \in Seq(Searches \X Nat) /\ Len(<<>>) = 0
  OBVIOUS
<1>2. \A s \in Searches : /\ task[s] \in Tasks /\ task[s].worker = "none" /\ task[s].found = 0
                          /\ task[s].queue = <<>> /\ task[s].receiver
  <2> DEFINE t == [worker |-> "none", found |-> 0, queue |-> <<>>, delivered |-> 0,
                   receiver |-> TRUE, cancelled |-> FALSE, done |-> FALSE]
  <2>1. 0 \in 0..MaxBatches /\ 0 \in Nat
    BY BoundsAreNat
  <2>2. t \in Tasks
    BY <1>1, <2>1 DEF Tasks
  <2> QED BY <2>2
<1>3. TypeOK
  <2>1. task \in [Searches -> Tasks]
    BY <1>2
  <2>2. \A s \in Searches : Len(task[s].queue) <= Capacity
    <3>1. Len(<<>>) <= Capacity
      BY BoundsAreNat
    <3> QED BY <1>2, <3>1
  <2>3. stream \in [Searches -> Phases] /\ shown \in [Searches -> Seq(Searches \X Nat)]
    BY <1>1 DEF Phases
  <2> QED BY <2>1, <2>2, <2>3 DEF TypeOK
<1>4. InOrder
  <2>1. ASSUME NEW s \in Searches PROVE ShownInOrder(s)
    BY <1>1 DEF ShownInOrder
  <2>2. ASSUME NEW s \in Searches PROVE QueuedInOrder(s)
    <3>1. /\ Len(shown[s]) = 0 /\ Len(task[s].queue) = 0 /\ task[s].found = 0
          /\ task[s].worker # "sending"
      BY <1>1, <1>2
    <3> QED BY <3>1 DEF QueuedInOrder, Queued, InHand
  <2> QED BY <2>1, <2>2 DEF InOrder
<1>5. SlotIsLive /\ LockHeld
  BY <1>2 DEF SlotIsLive, LockHeld
<1>6. OneSearchAtWork
  BY <1>2 DEF OneSearchAtWork, Running
<1> QED BY <1>3, <1>4, <1>5, <1>6 DEF IInv

(* every step keeps it,                                                       *)
LEMMA StepHolds == IInv /\ [Next]_vars => IInv'
<1> SUFFICES ASSUME IInv, [Next]_vars PROVE IInv'
  OBVIOUS
<1>1. ASSUME NEW s \in Searches,
             WorkerStep(s) \/ Lease(s) \/ CommandStep(s) \/ PageStep(s) \/ RequestCancel(s)
      PROVE  IInv'
  BY <1>1, WorkerStepHolds, PageStepHolds, InstallHolds, BeginPollHolds, CancelHolds DEF CommandStep
<1>2. CASE PollStep
  BY <1>2, TryRecvHolds, QuietHolds DEF PollStep
<1>3. CASE Join \/ RootsChange \/ CloseWindow \/ IdleTimeout \/ Reload \/ UNCHANGED vars
  BY <1>3, JoinHolds, InvalidatesHolds, QuietHolds
<1> QED BY <1>1, <1>2, <1>3 DEF Next

(* and so it always holds.                                                    *)
LEMMA Inductive == Spec => []IInv
BY InitHolds, StepHolds, PTL DEF Spec

(* Every variable keeps its type, and no channel holds more than its capacity. *)
THEOREM TypeCorrect == Spec => []TypeOK
BY Inductive, PTL DEF IInv

(* Batches in order are the run of numbers after those shown.                 *)
LEMMA QueueIs ==
    ASSUME NEW n \in Nat, NEW t \in Tasks, Queued(t, n), t.receiver
    PROVE  t.queue = [i \in 1..(t.found - n - (IF t.worker = "sending" THEN 1 ELSE 0)) |-> n + i]
<1>1. t.queue \in Seq(Nat) /\ t.found \in Nat
  BY DEF Tasks
<1>2. PICK a \in Nat : a = Len(t.queue)
  BY <1>1
<1>3. n + a + InHand(t) = t.found /\ \A i \in 1..a : t.queue[i] = n + i
  BY <1>2 DEF Queued
<1>4. a = t.found - n - (IF t.worker = "sending" THEN 1 ELSE 0)
  BY <1>1, <1>3 DEF InHand
<1>5. t.queue = [i \in 1..a |-> t.queue[i]]
  BY <1>1, <1>2, LenProperties
<1>6. t.queue = [i \in 1..a |-> n + i]
  BY <1>3, <1>5
<1> QED BY <1>4, <1>6

(* A stream shows its own search's batches, each once and in the order they   *)
(* were found, for every capacity and any number of searches that supersede   *)
(* each other.                                                                *)
THEOREM ShowsInOrder == Spec => []BatchesInOrder
<1>1. IInv => BatchesInOrder
  <2> SUFFICES ASSUME IInv, NEW s \in Searches
               PROVE  /\ shown[s] = [i \in 1..Len(shown[s]) |-> <<s, i>>]
                      /\ task[s].receiver /\ task[s].worker # "none" =>
                           task[s].queue = [i \in 1..(task[s].found - Len(shown[s])
                                                      - (IF task[s].worker = "sending" THEN 1 ELSE 0))
                                            |-> Len(shown[s]) + i]
    BY DEF BatchesInOrder
  <2>1. /\ ShownInOrder(s) /\ Queued(task[s], Len(shown[s]))
        /\ shown[s] \in Seq(Searches \X Nat) /\ task[s] \in Tasks
    BY DEF IInv, InOrder, QueuedInOrder, TypeOK
  <2>2. /\ task[s].queue \in Seq(Nat) /\ task[s].found \in Nat /\ Len(shown[s]) \in Nat
        /\ Len(task[s].queue) \in Nat
    BY <2>1 DEF Tasks
  <2>3. shown[s] = [i \in 1..Len(shown[s]) |-> <<s, i>>]
    <3>1. shown[s] = [i \in 1..Len(shown[s]) |-> shown[s][i]]
      BY <2>1, LenProperties
    <3> QED BY <2>1, <3>1 DEF ShownInOrder
  <2>4. ASSUME task[s].receiver
        PROVE  task[s].queue = [i \in 1..(task[s].found - Len(shown[s])
                                          - (IF task[s].worker = "sending" THEN 1 ELSE 0))
                                |-> Len(shown[s]) + i]
    BY <2>1, <2>2, <2>4, QueueIs
  <2> QED BY <2>3, <2>4
<1> QED BY <1>1, Inductive, PTL

(* A worker that is not in the window's slot has been told to stop, and the   *)
(* one that dropped it waits for its end.                                     *)
THEOREM OneAtWork == Spec => []OneSearchAtWork
BY Inductive, PTL DEF IInv
=============================================================================
