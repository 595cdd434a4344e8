----------------------------- MODULE TextSearch ------------------------------
(* A streamed text search: the worker that walks the roots, the bounded       *)
(* channel, the one slot a window has for a search, and the streams of its    *)
(* page that poll it (search/text_search.rs, workspace/service.rs,            *)
(* text-search-stream.ts).                                                    *)
(*                                                                            *)
(* The state lock is held over a poll, and over the join of a search that is  *)
(* dropped.  A batch is its number within its search.  The wake event only    *)
(* shortens the page's wait, which a timer ends anyway: both are Wakes.       *)
EXTENDS Naturals, Sequences

CONSTANTS
    Searches,   \* streams the page starts, each with a search id of its own
    None,       \* no search
    Capacity,   \* SEARCH_BATCH_QUEUE_CAPACITY
    MaxBatches  \* bound: batches one search finds

ASSUME NoneIsNoSearch == None \notin Searches
ASSUME BoundsAreNat == Capacity \in Nat \ {0} /\ MaxBatches \in Nat

VARIABLES
    slot,       \* active_text_search: its search, or None
    idle,       \* its idle_deadline has passed
    closed,     \* the window's state is closed
    task,       \* per search, handle and worker
    dropping,   \* the search whose handle is being dropped: its worker is joined
    polling,    \* the search whose poll holds the state lock, or None
    stream,     \* per search, where runTextSearchStream is
    left,       \* streams whose page was reloaded
    token,      \* streams whose cancellation was requested
    shown       \* per search, the batches given to onBatch

nativeVars == <<slot, idle, closed, task, dropping, polling>>
pageVars == <<stream, left, token, shown>>
vars == <<nativeVars, pageVars>>

-----------------------------------------------------------------------------
Running == {"walking", "sending"}
Ended == {"finished", "cancelled", "failed"}
Phases == {"idle", "leased", "outdated", "starting", "calling", "polling", "drained", "waiting", "cancelling"} \cup Ended

Init ==
    /\ slot = None /\ idle = FALSE /\ closed = FALSE
    /\ task = [s \in Searches |-> [worker |-> "none", found |-> 0, queue |-> <<>>, delivered |-> 0,
                                   receiver |-> TRUE, cancelled |-> FALSE, done |-> FALSE]]
    /\ dropping = None /\ polling = None
    /\ stream = [s \in Searches |-> "idle"]
    /\ left = {} /\ token = {} /\ shown = [s \in Searches |-> <<>>]

Goes(s, phase) == stream' = [stream EXCEPT ![s] = phase]

(* Only close_window joins after it has released the lock.                    *)
LockFree == polling = None /\ (dropping = None \/ closed)

(* mutant: close joins before it drops the receiver *)
CloseJoinsFirst(t) == [t EXCEPT !.cancelled = TRUE]

(* TextSearchHandle::close up to the join: the flag, then the receiver, for a *)
(* worker blocked in send does not look at the flag.                          *)
Close(t) == [t EXCEPT !.cancelled = TRUE, !.receiver = FALSE, !.queue = <<>>]

(* mutant: the worker is detached, not cancelled *)
DropDetached(ts) == task' = ts /\ UNCHANGED dropping

(* The handle in the slot goes out of scope, and with it its search.          *)
DropActive(ts) ==
    /\ task' = IF slot = None THEN ts ELSE [ts EXCEPT ![slot] = Close(ts[slot])]
    /\ dropping' = slot

Emptied == slot' = None /\ idle' = FALSE

Join ==
    /\ dropping # None /\ task[dropping].worker = "ended"
    /\ dropping' = None
    /\ UNCHANGED <<slot, idle, closed, task, polling, pageVars>>

-----------------------------------------------------------------------------
(* The worker: run_search *)

WorkerDoes(t, s) ==
    /\ task' = [task EXCEPT ![s] = t]
    /\ UNCHANGED <<slot, idle, closed, dropping, polling, pageVars>>

(* The next file with matches; the flag is looked at before every entry.      *)
FindBatch(s) ==
    /\ task[s].worker = "walking" /\ ~task[s].cancelled /\ task[s].found < MaxBatches
    /\ WorkerDoes([task[s] EXCEPT !.worker = "sending", !.found = @ + 1], s)

(* mutant: an unbounded channel *)
SendAtOnce(s) ==
    /\ task[s].worker = "sending"
    /\ WorkerDoes([task[s] EXCEPT !.worker = "walking", !.queue = Append(@, task[s].found)], s)

(* send blocks while the channel is full; once the receiver is gone it fails, *)
(* and the worker returns without a word.                                     *)
Send(s) ==
    /\ task[s].worker = "sending"
    /\ IF task[s].receiver
       THEN /\ Len(task[s].queue) < Capacity
            /\ WorkerDoes([task[s] EXCEPT !.worker = "walking", !.queue = Append(@, task[s].found)], s)
       ELSE WorkerDoes([task[s] EXCEPT !.worker = "ended"], s)

(* Nothing is left, a limit is hit, or the flag is set.                       *)
Finish(s) ==
    /\ task[s].worker = "walking"
    /\ WorkerDoes([task[s] EXCEPT !.worker = "ended", !.done = TRUE], s)

-----------------------------------------------------------------------------
(* The start of a search *)

(* search_text_start leases the roots one by one and compiles the query; a    *)
(* root that is not authorized or a bad query ends it.                        *)
Lease(s) ==
    /\ stream[s] = "idle" /\ LockFree
    /\ \/ ~closed /\ Goes(s, "leased")
       \/ Goes(s, "failed")
    /\ UNCHANGED <<nativeVars, left, token, shown>>

(* start_text_search: the new worker runs before the old search is dropped.   *)
(* That the roots may have changed since they were leased is not looked at.   *)
(* If no thread can be spawned the new search is done at once.                *)
Install(s) ==
    /\ stream[s] \in {"leased", "outdated"} /\ LockFree
    /\ IF closed
       THEN Goes(s, "failed") /\ UNCHANGED <<slot, idle, task, dropping>>
       ELSE /\ \E spawned \in BOOLEAN :
                 DropActive([task EXCEPT ![s].worker = IF spawned THEN "walking" ELSE "ended",
                                         ![s].done = ~spawned])
            /\ slot' = s /\ idle' = FALSE
            /\ Goes(s, "starting")
    /\ UNCHANGED <<closed, polling, left, token, shown>>

(* The start returns; a stream cancelled meanwhile cancels its search.        *)
StartReturns(s) ==
    /\ s \notin left /\ stream[s] = "starting" /\ LockFree
    /\ Goes(s, IF s \in token THEN "cancelling" ELSE "calling")
    /\ UNCHANGED <<nativeVars, left, token, shown>>

-----------------------------------------------------------------------------
(* poll and cancel *)

(* mutant: poll does not compare the id *)
ActiveAny(s) == slot # None /\ ~idle

(* The search asked for is the one in the slot, after                         *)
(* discard_expired_text_search.                                               *)
Active(s) == slot = s /\ ~idle

DiscardExpired ==
    IF slot # None /\ idle
    THEN DropActive(task) /\ Emptied
    ELSE UNCHANGED <<task, dropping, slot, idle>>

(* poll_text_search: a closed window, another search, or a cursor that does   *)
(* not fit is an error, on which the stream rejects.                          *)
BeginPoll(s) ==
    /\ stream[s] = "calling" /\ LockFree
    /\ IF closed THEN Goes(s, "failed") /\ UNCHANGED <<task, dropping, slot, idle, polling>>
       ELSE IF Active(s) /\ task[slot].delivered = Len(shown[s])
       THEN polling' = s /\ Goes(s, "polling") /\ UNCHANGED <<task, dropping, slot, idle>>
       ELSE DiscardExpired /\ Goes(s, "failed") /\ UNCHANGED polling
    /\ UNCHANGED <<closed, left, token, shown>>

(* try_recv gives the next batch of the channel.                              *)
TryRecv ==
    /\ polling # None /\ stream[polling] = "polling" /\ task[slot].queue # <<>>
    /\ LET batch == Head(task[slot].queue) IN
       /\ task' = [task EXCEPT ![slot].queue = Tail(@), ![slot].delivered = @ + 1]
       /\ shown' = [shown EXCEPT ![polling] = Append(@, <<slot, batch>>)]
    /\ UNCHANGED <<slot, idle, closed, dropping, polling, stream, left, token>>

(* try_recv finds the channel empty.                                          *)
Drained ==
    /\ polling # None /\ stream[polling] = "polling" /\ task[slot].queue = <<>>
    /\ Goes(polling, "drained")
    /\ UNCHANGED <<nativeVars, left, token, shown>>

(* Where the stream goes on after a reply.                                    *)
AfterPoll(s) ==
    IF task[slot].done THEN "finished" ELSE IF s \in token THEN "cancelling" ELSE "waiting"

(* Only now is the flag read, and the poll returns.                           *)
EndPoll ==
    /\ polling # None /\ stream[polling] = "drained"
    /\ Goes(polling, AfterPoll(polling))
    /\ polling' = None /\ idle' = FALSE
    /\ UNCHANGED <<slot, closed, task, dropping, left, token, shown>>

(* The wake event, the fallback timer, or the cancellation.                   *)
Wakes(s) ==
    /\ s \notin left /\ stream[s] = "waiting"
    /\ Goes(s, IF s \in token THEN "cancelling" ELSE "calling")
    /\ UNCHANGED <<nativeVars, left, token, shown>>

(* safeCancel and cancel_text_search.                                         *)
Cancel(s) ==
    /\ stream[s] = "cancelling" /\ LockFree
    /\ Goes(s, "cancelled")
    /\ IF ~closed /\ Active(s)
       THEN DropActive(task) /\ Emptied
       ELSE IF closed THEN UNCHANGED <<task, dropping, slot, idle>> ELSE DiscardExpired
    /\ UNCHANGED <<closed, polling, left, token, shown>>

-----------------------------------------------------------------------------
(* The window, the user and time *)

(* invalidate_text_search, in every change of the roots: a search that has    *)
(* leased them and is not in the slot yet is not there to be dropped.         *)
RootsChange ==
    /\ LockFree /\ ~closed /\ (slot # None \/ \E s \in Searches : stream[s] = "leased")
    /\ DropActive(task) /\ Emptied
    /\ stream' = [s \in Searches |-> IF stream[s] = "leased" THEN "outdated" ELSE stream[s]]
    /\ UNCHANGED <<closed, polling, left, token, shown>>

(* close_window takes the handle and drops it after its locks.                *)
CloseWindow ==
    /\ LockFree /\ ~closed
    /\ closed' = TRUE
    /\ DropActive(task) /\ Emptied
    /\ UNCHANGED <<polling, pageVars>>

(* SEARCH_TASK_IDLE_TTL passes: nobody polls a search whose page is gone.     *)
IdleTimeout ==
    /\ slot # None /\ ~idle /\ polling = None
    /\ idle' = TRUE
    /\ UNCHANGED <<slot, closed, task, dropping, polling, pageVars>>

RequestCancel(s) ==
    /\ stream[s] \notin {"idle"} \cup Ended /\ s \notin token \cup left
    /\ token' = token \cup {s}
    /\ UNCHANGED <<nativeVars, stream, left, shown>>

(* A reloaded page has forgotten its streams; their commands still run.       *)
Reload ==
    /\ left' = left \cup {s \in Searches : stream[s] \notin {"idle"} \cup Ended}
    /\ left' # left
    /\ UNCHANGED <<nativeVars, stream, token, shown>>

-----------------------------------------------------------------------------
WorkerStep(s) == FindBatch(s) \/ Send(s) \/ Finish(s)
CommandStep(s) == Install(s) \/ BeginPoll(s) \/ Cancel(s)
PageStep(s) == StartReturns(s) \/ Wakes(s)
PollStep == TryRecv \/ Drained \/ EndPoll

Next ==
    \/ \E s \in Searches : WorkerStep(s) \/ Lease(s) \/ CommandStep(s) \/ PageStep(s) \/ RequestCancel(s)
    \/ PollStep \/ Join \/ RootsChange \/ CloseWindow \/ IdleTimeout \/ Reload

Spec == Init /\ [][Next]_vars

(* Threads and commands run and timers fire; the mutex is fair enough that a  *)
(* command which waits for the state lock gets it between two others.         *)
FairSpec ==
    /\ Spec
    /\ WF_vars(PollStep) /\ WF_vars(Join)
    /\ \A s \in Searches : WF_vars(WorkerStep(s)) /\ SF_vars(CommandStep(s)) /\ WF_vars(PageStep(s))

-----------------------------------------------------------------------------
Tasks == [worker : {"none", "ended"} \cup Running, found : 0..MaxBatches, queue : Seq(Nat),
          delivered : Nat, receiver : BOOLEAN, cancelled : BOOLEAN, done : BOOLEAN]

TypeOK ==
    /\ slot \in Searches \cup {None} /\ dropping \in Searches \cup {None}
    /\ polling # None => polling = slot /\ stream[polling] \in {"polling", "drained"}
    /\ idle \in BOOLEAN /\ closed \in BOOLEAN
    /\ task \in [Searches -> Tasks] /\ \A s \in Searches : Len(task[s].queue) <= Capacity
    /\ stream \in [Searches -> Phases]
    /\ left \subseteq Searches /\ token \subseteq Searches
    /\ shown \in [Searches -> Seq(Searches \X Nat)]

(* A stream shows the batches of its own search only, in the order in which   *)
(* they were found, and as long as the search is not dropped none is missing  *)
(* or shown twice: not when a poll meets a refill of the channel, nor when    *)
(* two streams poll while one search supersedes the other.                    *)
BatchesInOrder ==
    \A s \in Searches :
        /\ shown[s] = [i \in 1..Len(shown[s]) |-> <<s, i>>]
        /\ task[s].receiver /\ task[s].worker # "none" =>
             task[s].queue = [i \in 1..(task[s].found - Len(shown[s])
                                        - (IF task[s].worker = "sending" THEN 1 ELSE 0))
                              |-> Len(shown[s]) + i]

(* A window has at most one search at work.  Any other thread that still      *)
(* reads its roots has been told to stop, and someone waits for its end:      *)
(* after a newer start, a cancel, an expiry, a change of roots or the close.  *)
OneSearchAtWork ==
    \A s \in Searches :
        task[s].worker \in Running /\ s # slot => task[s].cancelled /\ s = dropping

(* Every stream that stays with its page ends, whatever becomes of its search: *)
(* also when its next poll waits for the lock behind a call that joins the     *)
(* worker, and the worker sleeps in send on a full channel.                    *)
StreamEnds ==
    \A s \in Searches : stream[s] = "leased" ~> stream[s] \in Ended \/ s \in left

(* "delivering every batch": a stream told that its search is done has shown  *)
(* all that was found.                                                        *)
EveryBatchDelivered ==
    \A s \in Searches : stream[s] = "finished" => Len(shown[s]) = task[s].found

(* A change of the roots "must not leave a task running against authorization *)
(* that may no longer hold".                                                  *)
SearchAuthorized ==
    [][\A s \in Searches : stream[s] = "outdated" => stream'[s] # "starting"]_vars
=============================================================================
