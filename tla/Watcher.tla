------------------------------ MODULE Watcher ------------------------------
(***************************************************************************)
(* How a page hears of a change on disk: src-tauri/src/workspace/watcher.rs *)
(* (callbacks, worker, sync, close), the watch parts of                     *)
(* src-tauri/src/workspace/service.rs, and the page's                       *)
(* app/platform/tauri/workspace-watcher.ts.                                 *)
(*                                                                         *)
(* A change makes its root dirty and wakes the one worker of the window; a  *)
(* scan turns dirt into a pending generation, which stays until the page    *)
(* acknowledges exactly it; the page pulls, tells every subscription, and   *)
(* sends the acknowledgement with its next pull.                            *)
(*                                                                         *)
(* Left out: rescan_required, which widens what a consumer re-reads and     *)
(* never decides whether it is told; time, so a wake event and the poll     *)
(* timer are one (a scheduled pull runs some time), and with it the wake    *)
(* event's listener.  The last generation, u32::MAX in the code, is MaxGen. *)
(***************************************************************************)
EXTENDS Naturals, FiniteSets

CONSTANTS
    Roots,       \* root ids; an id is never authorized twice
    Subs,        \* subscriptions the pages make in all, each once
    NoRoot,
    MaxGen,      \* MAX_WORKSPACE_WATCH_GENERATION
    MaxChanges   \* bound: changes on disk per root

ASSUME NoRootIsNone == NoRoot \notin Roots
ASSUME BoundsAreNat == MaxGen \in Nat \ {0} /\ MaxChanges \in Nat

VARIABLES
    disk,       \* history: changes of each root while it was watched
    events,     \* roots with a change the OS has not handed to the callback
    senders,    \* roots whose callback has marked and not sent its token
    scope,      \* watch_registrations of the workspace
    used,       \* root ids authorized so far
    watched,    \* roots in the watcher's table; their signal is active
    dirty,      \* RootSignal.dirty
    scanning,   \* RootWatchRecord.scanning
    pending,    \* RootWatchRecord.pending, 0 for None
    nextGen,    \* RootWatchRecord.next_generation
    token,      \* the wake queue of capacity one is full
    worker,     \* run_worker: its pc, the roots still to scan, the one between scan and finish
    closing,    \* how far WindowWorkspace::close is
    requests,   \* sync requests sent by a page and not begun
    sync,       \* the sync under the mutation gate
    fresh,      \* subscriptions not yet made
    sub,        \* the page's subscriptions; NoRoot when there is none
    acked,      \* acknowledgedGeneration of a root's state, 0 for null
    known,      \* #authorizedRoots
    pull        \* #scheduledPull and #pull

signals == <<senders, dirty, token>>
table   == <<watched, scanning, pending, nextGen>>
rooted  == <<scope, used>>
page    == <<fresh, sub, acked, known, pull>>
vars    == <<disk, events, signals, rooted, table, worker, closing, requests, sync, page>>

Gens      == 0..MaxGen
NoSub     == [root |-> NoRoot, last |-> 0, seen |-> 0]
Following(r) == {s \in Subs : sub[s].root = r}
States    == {r \in Roots : Following(r) # {}}    \* the keys of #roots
Idle      == [stage |-> "idle"]
GateFree  == sync = Idle                          \* mutation_gate, outside of single actions
NoPull    == [pc |-> "idle"]

Init ==
    /\ disk = [r \in Roots |-> 0] /\ events = {} /\ senders = {}
    /\ scope = {} /\ used = {} /\ watched = {} /\ dirty = {} /\ scanning = {}
    /\ pending = [r \in Roots |-> 0] /\ nextGen = [r \in Roots |-> 1]
    /\ token = FALSE /\ worker = [pc |-> "recv", work |-> {}, scanned |-> NoRoot]
    /\ closing = "open" /\ requests = {} /\ sync = Idle
    /\ fresh = Subs /\ sub = [s \in Subs |-> NoSub] /\ acked = [r \in Roots |-> 0] /\ known = {}
    /\ pull = NoPull

----------------------------------------------------------------------------
\* The operating system, and its callback thread.

Change(r) ==
    /\ r \in watched /\ disk[r] < MaxChanges
    /\ disk' = [disk EXCEPT ![r] = @ + 1]
    /\ events' = events \cup {r}
    /\ UNCHANGED <<signals, rooted, table, worker, closing, requests, sync, page>>

\* RootSignal::mark, up to its token.  The mark of a root just revoked leaves nothing.
Observe(r) ==
    /\ r \in events /\ r \notin senders
    /\ events' = events \ {r}
    /\ dirty' = dirty \cup ({r} \cap watched)
    /\ senders' = senders \cup ({r} \cap watched)
    /\ UNCHANGED <<disk, token, rooted, table, worker, closing, requests, sync, page>>

\* try_send; a full queue marks the root once more.
SendToken(r) ==
    /\ r \in senders
    /\ senders' = senders \ {r}
    /\ token' = (token \/ r \in watched)
    /\ dirty' = IF token /\ r \in watched THEN dirty \cup {r} ELSE dirty
    /\ UNCHANGED <<disk, events, rooted, table, worker, closing, requests, sync, page>>

\* mark_all_rescan: the machine resumed.  Marks and wake are one step here, for a callback that
\* marks and then wakes has every interleaving of the two.
Resume ==
    /\ closing \in {"open", "closed"}
    /\ dirty' = dirty \cup watched /\ token' = TRUE
    /\ UNCHANGED <<disk, events, senders, rooted, table, worker, closing, requests, sync, page>>

----------------------------------------------------------------------------
\* The worker.

Shut == closing \in {"shut", "joining", "joined"}    \* WindowWatchState.closed

WorkerAt(pc, work) == worker' = [worker EXCEPT !.pc = pc, !.work = work]

Receive ==
    /\ worker.pc = "recv" /\ token
    /\ token' = FALSE
    /\ WorkerAt(IF Shut THEN "ended" ELSE "pacing", {})
    /\ UNCHANGED <<disk, events, senders, dirty, rooted, table, closing, requests, sync, page>>

DrainTokens ==
    /\ worker.pc = "pacing"
    /\ token' = FALSE
    /\ WorkerAt("drained", {})
    /\ UNCHANGED <<disk, events, senders, dirty, rooted, table, closing, requests, sync, page>>

(* mutant: the worker does not look again after it drained the queue *)
RecheckNever ==
    /\ worker.pc = "drained"
    /\ WorkerAt("collect", {})
    /\ UNCHANGED <<disk, events, signals, rooted, table, closing, requests, sync, page>>

Recheck ==
    /\ worker.pc = "drained"
    /\ WorkerAt(IF Shut THEN "ended" ELSE "collect", {})
    /\ UNCHANGED <<disk, events, signals, rooted, table, closing, requests, sync, page>>

\* collect_scan_work: roots with a pending generation wait for its acknowledgement.
Collect ==
    LET work == {r \in watched \cap dirty : r \notin scanning /\ pending[r] = 0} IN
    /\ worker.pc = "collect"
    /\ dirty' = dirty \ work
    /\ scanning' = scanning \cup work
    /\ WorkerAt(IF work = {} THEN "recv" ELSE "scan", work)
    /\ UNCHANGED <<disk, events, senders, token, rooted, watched, pending, nextGen,
                   closing, requests, sync, page>>

\* scan_and_revalidate, under the mutation gate.  A scan that fails is as good as one that does not.
Scan(r) ==
    /\ worker.pc = "scan" /\ r \in worker.work /\ GateFree
    /\ worker' = [pc |-> IF r \in scope THEN "finish" ELSE "stale",
                  work |-> worker.work \ {r}, scanned |-> r]
    /\ UNCHANGED <<disk, events, signals, rooted, table, closing, requests, sync, page>>

FinishScan ==
    LET r == worker.scanned  new == worker.pc = "finish" /\ pending[r] = 0 IN
    /\ worker.pc \in {"finish", "stale"}
    /\ worker' = [worker EXCEPT !.pc = IF worker.work = {} THEN "recv" ELSE "scan",
                                !.scanned = NoRoot]
    /\ IF r \in watched
       THEN /\ scanning' = scanning \ {r}
            /\ pending' = IF new THEN [pending EXCEPT ![r] = nextGen[r]] ELSE pending
            /\ nextGen' = IF new /\ nextGen[r] < MaxGen THEN [nextGen EXCEPT ![r] = @ + 1] ELSE nextGen
       ELSE UNCHANGED <<scanning, pending, nextGen>>
    /\ UNCHANGED <<disk, events, signals, rooted, watched, closing, requests, sync, page>>

----------------------------------------------------------------------------
\* The workspace: root changes and close, and the sync command.

\* activate, under both locks of the commit that adds the root.
AddRoot(r) ==
    /\ closing = "open" /\ GateFree /\ r \notin used
    /\ scope' = scope \cup {r} /\ used' = used \cup {r}
    /\ watched' = watched \cup {r}
    /\ dirty' = dirty \cup {r} /\ token' = TRUE
    /\ UNCHANGED <<disk, events, senders, scanning, pending, nextGen,
                   worker, closing, requests, sync, page>>

\* The registration goes under the locks, its record after they were dropped.
RemoveRoot(r) ==
    /\ closing = "open" /\ GateFree /\ r \in scope
    /\ scope' = scope \ {r}
    /\ UNCHANGED <<disk, events, signals, used, table, worker, closing, requests, sync, page>>

(* mutant: the record goes, its generation stays behind *)
DroppedPending(gone) ==
    /\ watched' = watched \ gone /\ dirty' = dirty \ gone /\ scanning' = scanning
    /\ events' = events \ gone /\ UNCHANGED <<pending, nextGen>>

Dropped(gone) ==
    /\ watched' = watched \ gone /\ dirty' = dirty \ gone /\ scanning' = scanning \ gone
    /\ events' = events \ gone
    /\ pending' = [r \in Roots |-> IF r \in gone THEN 0 ELSE pending[r]]
    /\ nextGen' = [r \in Roots |-> IF r \in gone THEN 1 ELSE nextGen[r]]

Revoke(r) ==
    /\ r \in watched \ scope /\ closing = "open"
    /\ Dropped({r})
    /\ UNCHANGED <<disk, senders, token, scope, used, worker, closing, requests, sync, page>>

\* The page is gone, or goes.
PageGone ==
    /\ sub' = [s \in Subs |-> NoSub] /\ acked' = [r \in Roots |-> 0] /\ known' = {}
    /\ pull' = NoPull

\* The window was destroyed, and its page with it: what it asked for finds the workspace closed.
CloseWorkspace ==
    /\ closing = "open" /\ GateFree
    /\ closing' = "closed" /\ scope' = {}
    /\ PageGone /\ requests' = {} /\ fresh' = {}
    /\ UNCHANGED <<disk, events, signals, used, table, worker, sync>>

\* WindowWatcher::close: shut, wake the worker, join it.
CloseWatcher ==
    /\ closing = "closed"
    /\ closing' = "shut"
    /\ Dropped(watched)
    /\ UNCHANGED <<disk, senders, token, rooted, worker, requests, sync, page>>

WakeForClose ==
    /\ closing = "shut"
    /\ closing' = "joining" /\ token' = TRUE
    /\ UNCHANGED <<disk, events, senders, dirty, rooted, table, worker, requests, sync, page>>

JoinWorker ==
    /\ closing = "joining" /\ worker.pc = "ended"
    /\ closing' = "joined"
    /\ UNCHANGED <<disk, events, signals, rooted, table, worker, requests, sync, page>>

PendingOf(asked, cleared) ==
    [r \in Roots |-> IF r \in (asked \cap watched) \ cleared THEN pending[r] ELSE 0]

\* The answer of a sync reaches the page that asked; a reloaded page is deaf to it.
Reply(mine, found) ==
    IF mine THEN pull' = [pull EXCEPT !.pc = "replied", !.found = found] ELSE UNCHANGED pull

(* mutant: an acknowledgement clears whatever is pending *)
ClearedByAny(acks) == {r \in DOMAIN acks \cap watched : acks[r] # 0 /\ acks[r] < MaxGen /\ pending[r] # 0}

\* An acknowledgement clears the generation it names, unless that is the last there is.
Cleared(acks) == {r \in DOMAIN acks \cap watched : acks[r] # 0 /\ acks[r] < MaxGen /\ pending[r] = acks[r]}

Wakes(cleared) == cleared \cap dirty # {}

\* watch_sync: roots no longer authorized are ignored; a null acknowledgement is a first subscription.
BeginSync(q) ==
    LET asked   == DOMAIN q.acks \cap scope
        cleared == Cleared([r \in asked |-> q.acks[r]])
        firsts  == {r \in asked : q.acks[r] = 0 /\ pending[r] = 0} IN
    /\ q \in requests /\ GateFree
    /\ requests' = requests \ {q}
    /\ pending' = [r \in Roots |-> IF r \in cleared THEN 0 ELSE pending[r]]
    /\ sync' = [stage |-> IF Wakes(cleared) THEN "wake" ELSE "synced", mine |-> q.mine,
                asked |-> asked, firsts |-> firsts, found |-> PendingOf(asked, cleared)]
    /\ UNCHANGED <<disk, events, signals, rooted, watched, scanning, nextGen, worker, closing, page>>

WakeFromSync ==
    /\ sync.stage = "wake"
    /\ token' = TRUE
    /\ sync' = [sync EXCEPT !.stage = "synced"]
    /\ UNCHANGED <<disk, events, senders, dirty, rooted, table, worker, closing, requests, page>>

(* mutant: a first subscription asks for no scan *)
MarkFirstsNever ==
    /\ sync.stage = "synced" /\ sync.firsts # {}
    /\ sync' = [sync EXCEPT !.stage = "marked"]
    /\ UNCHANGED <<disk, events, signals, rooted, table, worker, closing, requests, page>>

\* mark_root_rescan of every first subscription.
MarkFirsts ==
    /\ sync.stage = "synced" /\ sync.firsts # {}
    /\ dirty' = dirty \cup (sync.firsts \cap watched)
    /\ sync' = [sync EXCEPT !.stage = "marked"]
    /\ UNCHANGED <<disk, events, senders, token, rooted, table, worker, closing, requests, page>>

SendForFirsts ==
    /\ sync.stage = "marked"
    /\ token' = TRUE
    /\ dirty' = IF token THEN dirty \cup (sync.firsts \cap watched) ELSE dirty
    /\ sync' = [sync EXCEPT !.stage = "sent"]
    /\ UNCHANGED <<disk, events, senders, rooted, table, worker, closing, requests, page>>

\* What is pending after the marks is what counts, if there were any.
EndSync ==
    /\ \/ sync.stage = "synced" /\ sync.firsts = {} /\ Reply(sync.mine, sync.found)
       \/ sync.stage = "sent" /\ Reply(sync.mine, PendingOf(sync.asked, {}))
    /\ sync' = Idle
    /\ UNCHANGED <<disk, events, signals, rooted, table, worker, closing, requests, sub, acked, known, fresh>>

----------------------------------------------------------------------------
\* The page.

SchedulePull == IF pull = NoPull THEN [pc |-> "scheduled"] ELSE pull

\* What the end of subscriptions does to states, to a pull in flight and to the timer.
Cancelled(gone) ==
    LET empty == {r \in States : Following(r) \subseteq gone} IN
    /\ sub' = [s \in Subs |-> IF s \in gone THEN NoSub ELSE sub[s]]
    /\ acked' = [r \in Roots |-> IF r \in empty THEN 0 ELSE acked[r]]
    /\ pull' = IF pull.pc = "scheduled"
               THEN IF States \subseteq empty THEN NoPull ELSE pull
               ELSE IF pull = NoPull THEN pull
               ELSE [pull EXCEPT !.asked = @ \ empty, !.todo = @ \ gone,
                                 !.current = @ \ gone]

\* reconcileRoots with the newest snapshot of the workspace.
ReconcileRoots ==
    /\ closing = "open" /\ known # scope
    /\ known' = scope
    /\ Cancelled({s \in Subs : sub[s].root \notin scope})
    /\ UNCHANGED <<disk, events, signals, rooted, table, worker, closing, requests, sync, fresh>>

\* The first subscription of a root knows nothing; a later one has read the disk itself.
\* Which of the unused subscriptions it is makes no difference.
WorkspaceWatch(s, r) ==
    /\ fresh # {} /\ s = CHOOSE t \in fresh : TRUE
    /\ r \in known
    /\ fresh' = fresh \ {s}
    /\ sub' = [sub EXCEPT ![s] = [root |-> r, last |-> acked[r],
                                  seen |-> IF acked[r] = 0 THEN 0 ELSE disk[r]]]
    /\ pull' = SchedulePull
    /\ UNCHANGED <<disk, events, signals, rooted, table, worker, closing, requests, sync, acked, known>>

Unsubscribe(s) ==
    /\ sub[s] # NoSub
    /\ Cancelled({s})
    /\ UNCHANGED <<disk, events, signals, rooted, table, worker, closing, requests, sync, fresh, known>>

\* A new page has a manager of its own; what the old one asked for is still carried out.
\* (Bound: a page that will not subscribe is not looked at.)
Reload ==
    /\ fresh # {} /\ closing = "open"
    /\ PageGone
    /\ requests' = {[q EXCEPT !.mine = FALSE] : q \in requests}
    /\ sync' = IF GateFree THEN sync ELSE [sync EXCEPT !.mine = FALSE]
    /\ UNCHANGED <<disk, events, signals, rooted, table, worker, closing, fresh>>

Pull ==
    /\ pull.pc = "scheduled"
    /\ pull' = [pc |-> "sent", asked |-> States, found |-> [r \in Roots |-> 0],
                root |-> NoRoot, todo |-> {}, current |-> {}, readAt |-> 0]
    /\ requests' = requests \cup {[mine |-> TRUE, acks |-> [r \in States |-> acked[r]]]}
    /\ UNCHANGED <<disk, events, signals, rooted, table, worker, closing, sync, sub, acked, known, fresh>>

SaturatedReplay(r) == pull.found[r] = MaxGen /\ acked[r] = MaxGen

News == {r \in pull.asked : pull.found[r] > acked[r] \/ SaturatedReplay(r)}

\* #deliver, once per root that has news and whose state is still the one that asked.
Deliver(r) ==
    /\ pull.pc = "replied" /\ r \in News
    /\ pull' = [pull EXCEPT !.pc = "delivering", !.root = r,
                  !.todo = {s \in Following(r) : sub[s].last < pull.found[r] \/ SaturatedReplay(r)}]
    /\ UNCHANGED <<disk, events, signals, rooted, table, worker, closing, requests, sync,
                   sub, acked, known, fresh>>

\* Only subscriptions of the same state object are called.
Callable == IF pull.root \in pull.asked THEN pull.todo ELSE {}

CallListener(s) ==
    /\ pull.pc = "delivering" /\ pull.current = {} /\ s \in Callable
    /\ pull' = [pull EXCEPT !.todo = @ \ {s}, !.current = {s}, !.readAt = disk[pull.root]]
    /\ UNCHANGED <<disk, events, signals, rooted, table, worker, closing, requests, sync,
                   sub, acked, known, fresh>>

\* It read what was on disk when it was called, or it threw.
ListenerReturns(s, ok) ==
    /\ pull.pc = "delivering" /\ s \in pull.current
    /\ pull' = [pull EXCEPT !.current = {}, !.readAt = 0]
    /\ sub' = IF ok THEN [sub EXCEPT ![s].last = pull.found[pull.root], ![s].seen = pull.readAt]
              ELSE sub
    /\ UNCHANGED <<disk, events, signals, rooted, table, worker, closing, requests, sync,
                   acked, known, fresh>>

AllDelivered == \A s \in Following(pull.root) : sub[s].last >= pull.found[pull.root]

EndDelivery ==
    /\ pull.pc = "delivering" /\ pull.current = {} /\ Callable = {}
    /\ acked' = IF pull.root \in pull.asked /\ AllDelivered
                THEN [acked EXCEPT ![pull.root] = pull.found[pull.root]] ELSE acked
    /\ pull' = [pull EXCEPT !.pc = "replied", !.root = NoRoot, !.todo = {},
                            !.found[pull.root] = 0]
    /\ UNCHANGED <<disk, events, signals, rooted, table, worker, closing, requests, sync, sub, known, fresh>>

EndPull ==
    /\ pull.pc = "replied" /\ News = {}
    /\ pull' = IF States = {} THEN NoPull ELSE [pc |-> "scheduled"]
    /\ UNCHANGED <<disk, events, signals, rooted, table, worker, closing, requests, sync,
                   sub, acked, known, fresh>>

----------------------------------------------------------------------------
WorkerStep == Receive \/ DrainTokens \/ Recheck \/ Collect \/ FinishScan
ScanSome   == \E r \in Roots : Scan(r)
SyncStep   == WakeFromSync \/ MarkFirsts \/ SendForFirsts \/ EndSync \/ \E q \in requests : BeginSync(q)
CloseStep  == CloseWatcher \/ WakeForClose \/ JoinWorker \/ \E r \in Roots : Revoke(r)
PullStep   == Pull \/ EndDelivery \/ EndPull \/ \E r \in Roots : Deliver(r)
                   \/ \E s \in Subs : CallListener(s)
Callbacks  == \E r \in Roots : Observe(r) \/ SendToken(r)

Next ==
    \/ Callbacks \/ WorkerStep \/ ScanSome \/ SyncStep \/ CloseStep \/ PullStep
    \/ \E s \in Subs, ok \in BOOLEAN : ListenerReturns(s, ok)
    \/ \E r \in Roots : Change(r) \/ AddRoot(r) \/ RemoveRoot(r)
    \/ Resume \/ CloseWorkspace \/ ReconcileRoots \/ Reload
    \/ \E s \in Subs : Unsubscribe(s) \/ \E r \in Roots : WorkspaceWatch(s, r)

Spec == Init /\ [][Next]_vars

\* Threads run, requests are carried out, timers fire.  Strong fairness twice: a scan that waits for
\* the gate gets it, for syncs leave it free for a whole poll interval; a listener does not fail for ever.
FairSpec ==
    /\ Spec
    /\ WF_vars(Callbacks \/ CloseStep) /\ WF_vars(WorkerStep) /\ WF_vars(SyncStep) /\ WF_vars(PullStep)
    /\ SF_vars(ScanSome) /\ \A s \in Subs : SF_vars(ListenerReturns(s, TRUE))

----------------------------------------------------------------------------
Workers  == [pc : {"recv", "pacing", "drained", "collect", "scan", "finish", "stale", "ended"},
             work : SUBSET Roots, scanned : Roots \cup {NoRoot}]
Requests == [mine : BOOLEAN, acks : UNION {[asked -> Gens] : asked \in SUBSET Roots}]
Syncs    == [stage : {"wake", "synced", "marked", "sent"}, mine : BOOLEAN,
             asked : SUBSET Roots, firsts : SUBSET Roots, found : [Roots -> Gens]]
Pulls    == [pc : {"sent", "replied", "delivering"}, asked : SUBSET Roots, found : [Roots -> Gens],
             root : Roots \cup {NoRoot}, todo : SUBSET Subs, current : SUBSET Subs,
             readAt : 0..MaxChanges]

TypeOK ==
    /\ disk \in [Roots -> 0..MaxChanges]
    /\ events \subseteq watched /\ senders \subseteq Roots
    /\ scope \subseteq used /\ used \subseteq Roots
    /\ watched \subseteq used /\ dirty \subseteq watched /\ scanning \subseteq watched
    /\ closing \in {"open", "closed", "shut", "joining", "joined"}
    /\ closing = "open" => scope \subseteq watched
    /\ pending \in [Roots -> Gens] /\ nextGen \in [Roots -> Gens]
    /\ token \in BOOLEAN /\ worker \in Workers
    /\ requests \subseteq Requests /\ sync \in Syncs \cup {Idle}
    /\ fresh \subseteq Subs /\ acked \in [Roots -> Gens] /\ known \subseteq Roots
    /\ sub \in [Subs -> [root : Roots \cup {NoRoot}, last : Gens, seen : 0..MaxChanges]]
    /\ pull \in Pulls \cup {NoPull, [pc |-> "scheduled"]}
    /\ States # {} => pull # NoPull

(* No wake-up is lost: a root the worker may scan and whose flag is set has a token in the queue,  *)
(* a worker that has yet to look at the flags, or someone about to send a token.                   *)
NoLostWake ==
    \A r \in watched \cap dirty :
        pending[r] = 0 /\ r \notin scanning =>
            \/ token \/ r \in senders
            \/ worker.pc \in {"pacing", "drained", "collect"}
            \/ sync.stage = "wake"
            \/ sync.stage = "marked" /\ r \in sync.firsts

(* No change falls between flag, scan, generation and acknowledgement: while a subscription has    *)
(* not read the newest state of an authorized root, something that leads to its listener is left:  *)
(* an event, the flag, a scan, a generation it was not told of, or a subscription still to be      *)
(* announced.                                                                                       *)
UnseenIsTracked ==
    \A s \in Subs : LET r == sub[s].root IN
        r \in scope /\ sub[s].seen < disk[r] =>
            \/ r \in events \cup dirty \cup scanning
            \/ pending[r] > sub[s].last \/ pending[r] = MaxGen
            \/ acked[r] = 0

(* What has changed is never forgotten, on either side.                                            *)
NothingForgotten == NoLostWake /\ UnseenIsTracked

(* Every change reaches every subscription that stays, while its root is authorized.               *)
ChangesReachListeners ==
    \A s \in Subs, r \in Roots :
        (sub[s].root = r /\ sub[s].seen < disk[r]) ~>
            (sub[s].root # r \/ sub[s].seen = disk[r] \/ r \notin scope)

(* Closing the window ends: the join in close returns, though it races the worker's drain of the   *)
(* queue and a scan that needs the mutation gate.                                                  *)
CloseEnds == (closing # "open") ~> (closing = "joined")
=============================================================================
