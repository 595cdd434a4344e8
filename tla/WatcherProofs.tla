---------------------------- MODULE WatcherProofs ----------------------------
(* Theorems about Watcher, for any number of roots, subscriptions,            *)
(* generations and changes.                                                   *)
EXTENDS Watcher, TLAPS

(* Roots whose generations count: those in the watcher's table, and those to  *)
(* come.  An id that was revoked never comes back.                            *)
Live == watched \cup (Roots \ used)

(* A generation somebody knows of was handed out, and is not newer than the   *)
(* one that is pending.                                                       *)
Past(r, g) ==
    /\ g < nextGen[r] \/ nextGen[r] = MaxGen
    /\ pending[r] = 0 \/ g <= pending[r]

(* Whoever read the disk for generation g will hear of what changed since.    *)
Tracked(r, g) ==
    \/ r \in events \cup dirty \cup scanning
    \/ pending[r] > g \/ pending[r] = MaxGen

(* No acknowledgement under way is newer than g.                              *)
Outdates(g, r) == \A q \in requests : r \in DOMAIN q.acks => q.acks[r] <= g

InFlight == pull.pc \notin {"idle", "scheduled"}

(* NoLostWake, also for the root that is being scanned: the worker may find   *)
(* that its scan was for nothing.                                             *)
WakeIsOnItsWay ==
    \A r \in watched \cap dirty : pending[r] = 0 =>
        \/ token \/ r \in senders
        \/ worker.pc \in {"pacing", "drained", "collect"}
        \/ sync.stage = "wake"
        \/ sync.stage = "marked" /\ r \in sync.firsts

(* The flag `scanning` is the worker's, for a root without a generation; only *)
(* the scan of a root that is gone is thrown away.                            *)
ScansAreTheWorkers ==
    /\ scanning \subseteq worker.work \cup {worker.scanned}
    /\ worker.pc \notin {"scan", "finish", "stale"} => worker.work = {}
    /\ worker.pc \in {"finish", "stale"} <=> worker.scanned # NoRoot
    /\ worker.work \cup {worker.scanned} \subseteq used \cup {NoRoot}
    /\ worker.pc = "stale" => worker.scanned \notin scope
    /\ \A r \in scanning : pending[r] = 0

(* Closing takes the roots, then the table.                                   *)
ClosedIsEmpty ==
    /\ closing # "open" => scope = {}
    /\ Shut => watched = {}

(* Generations only grow, wherever one is remembered.                         *)
GensArePast ==
    \A r \in Live :
        /\ nextGen[r] # 0 /\ Past(r, pending[r]) /\ Past(r, acked[r])
        /\ \A s \in Subs : sub[s].root = r => Past(r, sub[s].last)
        /\ \A q \in requests : r \in DOMAIN q.acks => Past(r, q.acks[r])
        /\ InFlight => Past(r, pull.found[r])
        /\ sync # Idle => Past(r, sync.found[r])

(* No acknowledgement under way is for a generation that a subscription which *)
(* heard of any, or is about to, was not told: those of an earlier page       *)
(* included.                                                                  *)
AcksAreHeard ==
    \A r \in Roots :
        /\ acked[r] = 0 \/ Outdates(acked[r], r)
        /\ \A s \in Subs : sub[s].root = r =>
             acked[r] <= sub[s].last /\ (sub[s].last = 0 \/ Outdates(sub[s].last, r))
        /\ InFlight => pull.found[r] = 0 \/ Outdates(pull.found[r], r)
        /\ sync # Idle => (sync.mine => sync.found[r] = 0 \/ Outdates(sync.found[r], r))

(* A page has one request under way, and waits for it.                        *)
OnePull ==
    /\ (\E q \in requests : q.mine) \/ (sync # Idle /\ sync.mine) => pull.pc = "sent"
    /\ \A q, p \in requests : q.mine /\ p.mine => q = p
    /\ sync # Idle => (sync.mine => \A q \in requests : ~q.mine)

(* A delivery is to subscriptions of its root, and what its listener misses   *)
(* while it reads is tracked for the generation it is told of.                *)
DeliveryStands ==
    /\ InFlight /\ pull.pc # "delivering" => pull.current = {}
    /\ pull.pc = "delivering" =>
         /\ pull.root \in Roots /\ pull.found[pull.root] # 0
         /\ acked[pull.root] <= pull.found[pull.root]
         /\ pull.todo \cup pull.current \subseteq Following(pull.root)
         /\ pull.root \in scope /\ pull.current # {} /\ pull.readAt < disk[pull.root] =>
              Tracked(pull.root, pull.found[pull.root])

(* Subscriptions are to roots that were authorized, and made once.            *)
SubsAreUsed ==
    /\ known \subseteq used
    /\ \A s \in Subs : sub[s].root \in used \cup {NoRoot} /\ (s \in fresh => sub[s].root = NoRoot)

(* UnseenIsTracked, by what each subscription was told rather than by what    *)
(* the page acknowledged.                                                     *)
MissedIsTracked ==
    \A s \in Subs : LET r == sub[s].root IN
        r \in scope /\ sub[s].seen < disk[r] => sub[s].last = 0 \/ Tracked(r, sub[s].last)

IInv ==
    /\ TypeOK /\ WakeIsOnItsWay /\ ScansAreTheWorkers /\ ClosedIsEmpty /\ GensArePast
    /\ AcksAreHeard /\ OnePull /\ DeliveryStands /\ SubsAreUsed /\ MissedIsTracked

-----------------------------------------------------------------------------
(* Facts about the state *)

(* What is authorized is watched, and what is watched counts.                 *)
LEMMA ScopeIsWatched ==
    ASSUME TypeOK, ClosedIsEmpty
    PROVE  scope \subseteq watched /\ watched \subseteq Live /\ Live \subseteq Roots
BY DEF TypeOK, ClosedIsEmpty, Live

(* A generation is a number.                                                  *)
LEMMA GensAreNat == Gens \subseteq Nat /\ MaxGen \in Gens /\ MaxGen # 0 /\ 0 \in Gens
BY BoundsAreNat DEF Gens

(* Nothing that is pulled or synced is mistaken for nothing.                  *)
LEMMA NothingApart ==
    /\ NoPull.pc = "idle" /\ Idle.stage = "idle"
    /\ \A p \in Pulls : p.pc \notin {"idle", "scheduled"} /\ p # NoPull
    /\ \A y \in Syncs : y.stage # "idle" /\ y # Idle
BY DEF NoPull, Idle, Pulls, Syncs

(* A pull in flight has all its fields.                                       *)
LEMMA FlightIs ==
    ASSUME TypeOK
    PROVE  /\ InFlight <=> pull \in Pulls
           /\ InFlight => pull.found \in [Roots -> Gens]
           /\ sync # Idle => sync \in Syncs /\ sync.found \in [Roots -> Gens]
BY NothingApart DEF TypeOK, InFlight, Pulls, Syncs

-----------------------------------------------------------------------------
(* Native: what the pages know is left alone *)

(* A step of native that keeps generations and what is tracked.               *)
LEMMA NativeHolds ==
    ASSUME IInv, UNCHANGED <<disk, requests, sync, page>>,
           TypeOK', WakeIsOnItsWay', ScansAreTheWorkers', ClosedIsEmpty',
           Live' \subseteq Live, used \subseteq used', scope' \subseteq scope \cup (Roots \ used),
           \A r \in Live' : nextGen'[r] # 0 /\ Past(r, pending[r])',
           \A r \in Live', g \in Gens : Past(r, g) => Past(r, g)',
           \A r \in scope \cap scope', g \in Gens : Past(r, g) /\ Tracked(r, g) => Tracked(r, g)'
    PROVE  IInv'
<1> USE DEF page
<1> HIDE DEF IInv
<1>1. /\ TypeOK /\ ClosedIsEmpty /\ GensArePast /\ AcksAreHeard /\ OnePull /\ DeliveryStands
      /\ SubsAreUsed /\ MissedIsTracked
  BY DEF IInv
<1>2. scope \subseteq Live /\ Live \subseteq Roots
  BY <1>1, ScopeIsWatched
<1>3. /\ InFlight' = InFlight
      /\ InFlight => pull.found \in [Roots -> Gens]
      /\ sync # Idle => sync.found \in [Roots -> Gens]
  BY <1>1, FlightIs DEF InFlight
<1>4. GensArePast'
  <2>1. \A r \in Live' : r \in Live /\ r \in Roots
    BY <1>2
  <2>2. \A r \in Live' : Past(r, acked[r])' /\ \A s \in Subs : sub[s].root = r => Past(r, sub[s].last)'
    BY <1>1, <2>1 DEF GensArePast, Past, TypeOK
  <2>3. \A r \in Live' : \A q \in requests : r \in DOMAIN q.acks => Past(r, q.acks[r])'
    <3>1. ASSUME NEW r \in Live', NEW q \in requests, r \in DOMAIN q.acks PROVE Past(r, q.acks[r])'
      <4>1. q.acks[r] \in Gens
        <5>1. q \in Requests
          BY <1>1, <3>1 DEF TypeOK
        <5>2. PICK asked \in SUBSET Roots : q.acks \in [asked -> Gens]
          BY <5>1 DEF Requests
        <5> QED BY <3>1, <5>2
      <4>2. Past(r, q.acks[r])
        BY <1>1, <2>1, <3>1 DEF GensArePast
      <4> QED BY <2>1, <4>1, <4>2 DEF Past
    <3> QED BY <3>1
  <2>4. \A r \in Live' : /\ InFlight => Past(r, pull.found[r])'
                         /\ sync # Idle => Past(r, sync.found[r])'
    BY <1>1, <1>3, <2>1 DEF GensArePast, Past
  <2> QED BY <1>3, <2>2, <2>3, <2>4 DEF GensArePast
<1>5. AcksAreHeard' /\ OnePull'
  BY <1>1, <1>3 DEF AcksAreHeard, OnePull, Outdates
<1>6. SubsAreUsed'
  BY <1>1 DEF SubsAreUsed
<1>7. ASSUME NEW s \in Subs, sub[s].root \in scope' PROVE sub[s].root \in scope
  BY <1>1, <1>7, NoRootIsNone DEF SubsAreUsed, TypeOK
<1>8. MissedIsTracked'
  <2>1. ASSUME NEW s \in Subs, sub[s].root \in scope', sub[s].seen < disk[sub[s].root], sub[s].last # 0
        PROVE  Tracked(sub[s].root, sub[s].last)'
    <3>1. /\ sub[s].root \in scope \cap scope' /\ sub[s].last \in Gens
          /\ Past(sub[s].root, sub[s].last) /\ Tracked(sub[s].root, sub[s].last)
      BY <1>1, <1>2, <1>7, <2>1 DEF MissedIsTracked, GensArePast, TypeOK
    <3> QED BY <3>1 DEF Tracked, Past
  <2> QED BY <2>1 DEF MissedIsTracked
<1>9. DeliveryStands'
  <2>1. UNCHANGED <<pull, disk>> /\ Following(pull.root)' = Following(pull.root)
    BY DEF Following
  <2>2. ASSUME pull.pc = "delivering", pull.root \in scope', pull.current # {},
               pull.readAt < disk[pull.root]
        PROVE  Tracked(pull.root, pull.found[pull.root])'
    <3>1. PICK s \in pull.current : s \in Following(pull.root)
      BY <1>1, <2>2 DEF DeliveryStands
    <3>2. s \in Subs /\ sub[s].root = pull.root
      BY <3>1 DEF Following
    <3>3. pull.root \in scope \cap scope' /\ pull.root \in Live /\ pull.root \in Roots
      BY <1>2, <1>7, <2>2, <3>2
    <3>4. InFlight
      BY <2>2 DEF InFlight
    <3>5. /\ Past(pull.root, pull.found[pull.root]) /\ Tracked(pull.root, pull.found[pull.root])
          /\ pull.found[pull.root] \in Gens
      BY <1>1, <1>3, <2>2, <3>3, <3>4 DEF DeliveryStands, GensArePast
    <3> QED BY <3>3, <3>5 DEF Tracked, Past
  <2> QED BY <1>1, <1>3, <2>1, <2>2 DEF DeliveryStands
<1> QED BY <1>4, <1>5, <1>6, <1>8, <1>9 DEF IInv

(* The callback thread, and the machine that resumes.                         *)
LEMMA CallbackHolds ==
    ASSUME IInv, Resume \/ \E r \in Roots : Observe(r) \/ SendToken(r)
    PROVE  IInv'
<1>1. /\ TypeOK /\ WakeIsOnItsWay /\ ScansAreTheWorkers /\ ClosedIsEmpty /\ GensArePast
      /\ scope \subseteq watched /\ Live \subseteq Roots
  BY ScopeIsWatched DEF IInv
<1>2. /\ UNCHANGED <<disk, rooted, table, worker, closing, requests, sync, page>>
      /\ dirty \subseteq dirty' /\ dirty' \subseteq watched /\ events' \subseteq events
      /\ events \cap watched \subseteq events' \cup dirty'
      /\ senders' \subseteq Roots /\ token' \in BOOLEAN
      /\ \A r \in watched : token \/ r \in senders => token' \/ r \in senders'
      /\ \A r \in (dirty' \ dirty) \cap watched : token' \/ r \in senders'
  <2>1. CASE Resume
    BY <1>1, <2>1 DEF Resume, TypeOK
  <2>2. ASSUME NEW r \in Roots, Observe(r)
        PROVE  /\ UNCHANGED <<disk, rooted, table, worker, closing, requests, sync, page>>
               /\ dirty \subseteq dirty' /\ dirty' \subseteq watched /\ events' \subseteq events
               /\ events \cap watched \subseteq events' \cup dirty'
               /\ senders' \subseteq Roots /\ token' \in BOOLEAN
               /\ \A x \in watched : token \/ x \in senders => token' \/ x \in senders'
               /\ \A x \in (dirty' \ dirty) \cap watched : token' \/ x \in senders'
    BY <1>1, <2>2 DEF Observe, TypeOK
  <2>3. ASSUME NEW r \in Roots, SendToken(r)
        PROVE  /\ UNCHANGED <<disk, rooted, table, worker, closing, requests, sync, page>>
               /\ dirty \subseteq dirty' /\ dirty' \subseteq watched /\ events' \subseteq events
               /\ events \cap watched \subseteq events' \cup dirty'
               /\ senders' \subseteq Roots /\ token' \in BOOLEAN
               /\ \A x \in watched : token \/ x \in senders => token' \/ x \in senders'
               /\ \A x \in (dirty' \ dirty) \cap watched : token' \/ x \in senders'
    <3>1. /\ r \in senders /\ senders' = senders \ {r} /\ UNCHANGED events
          /\ UNCHANGED <<disk, rooted, table, worker, closing, requests, sync, page>>
      BY <2>3 DEF SendToken
    <3>2. token' = (token \/ r \in watched) /\ token \in BOOLEAN
      BY <1>1, <2>3 DEF SendToken, TypeOK
    <3>3. token' \in BOOLEAN /\ (token => token') /\ (r \in watched => token')
      BY <3>2
    <3>4. dirty \subseteq dirty' /\ dirty' \subseteq watched /\ (dirty' # dirty => token /\ r \in watched)
      BY <1>1, <2>3 DEF SendToken, TypeOK
    <3> QED BY <1>1, <3>1, <3>3, <3>4 DEF TypeOK
  <2> QED BY <2>1, <2>2, <2>3
<1> USE DEF rooted, table
<1>3. TypeOK'
  BY <1>1, <1>2 DEF TypeOK, page, States, Following
<1>4. WakeIsOnItsWay'
  BY <1>1, <1>2 DEF WakeIsOnItsWay
<1>5. ScansAreTheWorkers' /\ ClosedIsEmpty' /\ Live' = Live
  BY <1>1, <1>2 DEF ScansAreTheWorkers, ClosedIsEmpty, Shut, Live
<1>6. \A r \in Live' : nextGen'[r] # 0 /\ Past(r, pending[r])'
  BY <1>1, <1>2, <1>5 DEF GensArePast, Past
<1>7. \A r \in scope, g \in Gens : Tracked(r, g) => Tracked(r, g)'
  BY <1>1, <1>2 DEF Tracked
<1>8. \A r \in Live', g \in Gens : Past(r, g) => Past(r, g)'
  BY <1>2 DEF Past
<1> QED BY <1>2, <1>3, <1>4, <1>5, <1>6, <1>7, <1>8, NativeHolds

(* The worker wakes up, and goes on unless the watcher was closed.            *)
LEMMA WorkerHolds ==
    ASSUME IInv, Receive \/ DrainTokens \/ Recheck
    PROVE  IInv'
<1>1. /\ TypeOK /\ WakeIsOnItsWay /\ ScansAreTheWorkers /\ ClosedIsEmpty /\ GensArePast
      /\ Live \subseteq Roots
  BY ScopeIsWatched DEF IInv
<1>2. /\ UNCHANGED <<disk, events, senders, dirty, rooted, table, closing, requests, sync, page>>
      /\ token' \in BOOLEAN
      /\ worker.pc \in {"recv", "pacing", "drained"} /\ worker' = [worker EXCEPT !.pc = worker'.pc, !.work = {}]
      /\ worker'.pc \in {"pacing", "drained", "collect", "ended"}
      /\ worker'.pc = "ended" => Shut
  BY <1>1 DEF Receive, DrainTokens, Recheck, WorkerAt, TypeOK, Workers, signals
<1> USE DEF rooted, table
<1>3. worker \in Workers /\ worker' \in Workers /\ worker'.work = {} /\ worker'.scanned = worker.scanned
  BY <1>1, <1>2 DEF TypeOK, Workers
<1>4. TypeOK'
  BY <1>1, <1>2, <1>3 DEF TypeOK, page, States, Following
<1>5. WakeIsOnItsWay'
  BY <1>1, <1>2 DEF WakeIsOnItsWay, ClosedIsEmpty
<1>6. ScansAreTheWorkers' /\ ClosedIsEmpty' /\ Live' = Live
  BY <1>1, <1>2, <1>3 DEF ScansAreTheWorkers, ClosedIsEmpty, Shut, Live
<1>7. \A r \in Live' : nextGen'[r] # 0 /\ Past(r, pending[r])'
  BY <1>1, <1>2, <1>6 DEF GensArePast, Past
<1>8. \A g \in Gens : /\ \A r \in scope : Tracked(r, g) => Tracked(r, g)'
                      /\ \A r \in Live' : Past(r, g) => Past(r, g)'
  BY <1>2 DEF Tracked, Past
<1> QED BY <1>2, <1>4, <1>5, <1>6, <1>7, <1>8, NativeHolds

(* collect_scan_work turns flags into scans, and leaves the others to those   *)
(* who acknowledge.                                                           *)
LEMMA CollectHolds ==
    ASSUME IInv, Collect
    PROVE  IInv'
<1>1. /\ TypeOK /\ WakeIsOnItsWay /\ ScansAreTheWorkers /\ ClosedIsEmpty /\ GensArePast
      /\ Live \subseteq Roots
  BY ScopeIsWatched DEF IInv
<1>2. PICK work : /\ work = {r \in watched \cap dirty : r \notin scanning /\ pending[r] = 0}
                  /\ worker.pc = "collect"
                  /\ dirty' = dirty \ work /\ scanning' = scanning \cup work
                  /\ WorkerAt(IF work = {} THEN "recv" ELSE "scan", work)
                  /\ UNCHANGED <<disk, events, senders, token, rooted, watched, pending, nextGen,
                                 closing, requests, sync, page>>
  BY DEF Collect
<1>3. /\ worker \in Workers /\ worker.work = {} /\ worker.scanned = NoRoot /\ scanning = {}
      /\ work \subseteq watched
  <2>1. worker \in Workers /\ worker.work = {} /\ worker.scanned = NoRoot
    BY <1>1, <1>2 DEF ScansAreTheWorkers, TypeOK
  <2>2. scanning \subseteq {NoRoot} /\ scanning \subseteq Roots
    BY <1>1, <2>1 DEF ScansAreTheWorkers, TypeOK
  <2> QED BY <1>2, <2>1, <2>2, NoRootIsNone
<1>4. /\ worker' \in Workers /\ worker'.work = work /\ worker'.scanned = NoRoot
      /\ worker'.pc = IF work = {} THEN "recv" ELSE "scan"
  BY <1>1, <1>2, <1>3 DEF WorkerAt, Workers, TypeOK
<1> USE DEF rooted
<1>5. TypeOK'
  BY <1>1, <1>2, <1>3, <1>4 DEF TypeOK, page, States, Following
<1>6. WakeIsOnItsWay'
  BY <1>1, <1>2, <1>3 DEF WakeIsOnItsWay
<1>7. ScansAreTheWorkers'
  <2>1. \A r \in scanning' : pending'[r] = 0 /\ r \in work
    BY <1>2, <1>3
  <2>2. work \subseteq used
    BY <1>1, <1>3 DEF TypeOK
  <2> QED BY <1>2, <1>4, <2>1, <2>2 DEF ScansAreTheWorkers
<1>8. ClosedIsEmpty' /\ Live' = Live
  BY <1>1, <1>2 DEF ClosedIsEmpty, Shut, Live
<1>9. \A r \in Live' : nextGen'[r] # 0 /\ Past(r, pending[r])'
  BY <1>1, <1>2, <1>8 DEF GensArePast, Past
<1>10. \A g \in Gens : /\ \A r \in scope : Tracked(r, g) => Tracked(r, g)'
                       /\ \A r \in Live' : Past(r, g) => Past(r, g)'
  BY <1>2 DEF Tracked, Past
<1> QED BY <1>2, <1>5, <1>6, <1>7, <1>8, <1>9, <1>10, NativeHolds

(* scan_and_revalidate: a stale scan is of a root that is not authorized.     *)
LEMMA ScanHolds ==
    ASSUME IInv, NEW r \in Roots, Scan(r)
    PROVE  IInv'
<1>1. /\ TypeOK /\ WakeIsOnItsWay /\ ScansAreTheWorkers /\ ClosedIsEmpty /\ GensArePast
      /\ Live \subseteq Roots
  BY ScopeIsWatched DEF IInv
<1>2. /\ worker.pc = "scan" /\ r \in worker.work
      /\ worker' = [pc |-> IF r \in scope THEN "finish" ELSE "stale",
                    work |-> worker.work \ {r}, scanned |-> r]
      /\ UNCHANGED <<disk, events, signals, rooted, table, closing, requests, sync, page>>
  BY DEF Scan
<1> USE DEF rooted, table, signals
<1>3. worker \in Workers /\ worker.scanned = NoRoot
  BY <1>1, <1>2 DEF TypeOK, ScansAreTheWorkers
<1>4. /\ worker' \in Workers /\ worker'.work = worker.work \ {r} /\ worker'.scanned = r
      /\ worker'.pc = IF r \in scope THEN "finish" ELSE "stale"
  BY <1>2, <1>3 DEF Workers
<1>5. TypeOK'
  BY <1>1, <1>2, <1>4 DEF TypeOK, page, States, Following
<1>6. WakeIsOnItsWay'
  BY <1>1, <1>2, <1>4 DEF WakeIsOnItsWay
<1>7. ScansAreTheWorkers'
  <2>1. scanning \subseteq Roots
    BY <1>1 DEF TypeOK
  <2>2. scanning' \subseteq worker'.work \cup {worker'.scanned}
    BY <1>1, <1>2, <1>3, <1>4, <2>1, NoRootIsNone DEF ScansAreTheWorkers
  <2> QED BY <1>1, <1>2, <1>4, <2>2, NoRootIsNone DEF ScansAreTheWorkers
<1>8. ClosedIsEmpty' /\ Live' = Live
  BY <1>1, <1>2 DEF ClosedIsEmpty, Shut, Live
<1>9. \A x \in Live' : nextGen'[x] # 0 /\ Past(x, pending[x])'
  BY <1>1, <1>2, <1>8 DEF GensArePast, Past
<1>10. \A g \in Gens : /\ \A x \in scope : Tracked(x, g) => Tracked(x, g)'
                       /\ \A x \in Live' : Past(x, g) => Past(x, g)'
  BY <1>2 DEF Tracked, Past
<1> QED BY <1>2, <1>5, <1>6, <1>7, <1>8, <1>9, <1>10, NativeHolds

(* A generation that is handed out is newer than all that anybody knows of.   *)
LEMMA NextIsNewer ==
    ASSUME NEW n \in Gens, n # 0, NEW g \in Gens, g < n \/ n = MaxGen,
           NEW m, m = IF n < MaxGen THEN n + 1 ELSE n
    PROVE  /\ m \in Gens /\ m # 0 /\ g <= n /\ (n > g \/ n = MaxGen)
           /\ (g < m \/ m = MaxGen) /\ (n < m \/ m = MaxGen)
BY BoundsAreNat DEF Gens

(* The result of a scan becomes a generation, unless the root was revoked.    *)
LEMMA FinishHolds ==
    ASSUME IInv, FinishScan
    PROVE  IInv'
<1>1. /\ TypeOK /\ WakeIsOnItsWay /\ ScansAreTheWorkers /\ ClosedIsEmpty /\ GensArePast
      /\ Live \subseteq Roots /\ watched \subseteq Live /\ scope \subseteq watched
  BY ScopeIsWatched DEF IInv
<1> DEFINE r == worker.scanned
           new == worker.pc = "finish" /\ pending[r] = 0
<1>2. /\ worker.pc \in {"finish", "stale"}
      /\ worker' = [worker EXCEPT !.pc = IF worker.work = {} THEN "recv" ELSE "scan",
                                  !.scanned = NoRoot]
      /\ UNCHANGED <<disk, events, signals, rooted, watched, closing, requests, sync, page>>
  BY DEF FinishScan
<1>3. /\ r \in watched =>
           /\ scanning' = scanning \ {r}
           /\ pending' = IF new THEN [pending EXCEPT ![r] = nextGen[r]] ELSE pending
           /\ nextGen' = IF new /\ nextGen[r] < MaxGen THEN [nextGen EXCEPT ![r] = @ + 1] ELSE nextGen
      /\ r \notin watched => UNCHANGED <<scanning, pending, nextGen>>
  BY DEF FinishScan
<1> USE DEF rooted, signals
<1>4. /\ worker' \in Workers /\ worker'.work = worker.work /\ worker'.scanned = NoRoot
      /\ worker'.pc = IF worker.work = {} THEN "recv" ELSE "scan"
      /\ r \in used /\ r \in Roots
  <2>1. worker \in Workers
    BY <1>1 DEF TypeOK
  <2>2. r \in used /\ r \in Roots
    BY <1>1, <1>2 DEF ScansAreTheWorkers, TypeOK
  <2> QED BY <1>2, <2>1, <2>2 DEF Workers
<1> HIDE DEF r, new
<1>5. /\ \A x \in Roots \ {r} : pending'[x] = pending[x] /\ nextGen'[x] = nextGen[x]
      /\ r \notin watched \/ ~new => UNCHANGED <<pending, nextGen>>
      /\ r \in watched /\ new =>
           /\ pending'[r] = nextGen[r]
           /\ nextGen'[r] = IF nextGen[r] < MaxGen THEN nextGen[r] + 1 ELSE nextGen[r]
  BY <1>1, <1>3, <1>4 DEF TypeOK
<1>6. r \in watched => nextGen[r] \in Gens /\ nextGen[r] # 0 /\ 0 \in Gens /\ 0 < nextGen[r]
  <2>1. r \in watched => nextGen[r] \in Gens /\ nextGen[r] # 0
    BY <1>1, <1>4 DEF GensArePast, TypeOK
  <2> QED BY <2>1, BoundsAreNat DEF Gens
<1>7. pending' \in [Roots -> Gens] /\ nextGen' \in [Roots -> Gens]
  <2>1. CASE r \notin watched \/ ~new
    BY <1>1, <1>5, <2>1 DEF TypeOK
  <2>2. CASE r \in watched /\ new
    <3>1. nextGen'[r] \in Gens
      BY <1>5, <1>6, <2>2, NextIsNewer
    <3> QED BY <1>1, <1>3, <1>4, <1>5, <1>6, <2>2, <3>1 DEF TypeOK
  <2> QED BY <2>1, <2>2
<1>8. TypeOK'
  <2>1. scanning' \subseteq watched
    BY <1>1, <1>3 DEF TypeOK
  <2> QED BY <1>1, <1>2, <1>4, <1>7, <2>1 DEF TypeOK, page, States, Following
<1>9. WakeIsOnItsWay'
  <2>1. \A x \in watched : pending'[x] = 0 => pending[x] = 0
    <3>1. watched \subseteq Roots
      BY <1>1
    <3> QED BY <1>5, <1>6, <3>1
  <2> QED BY <1>1, <1>2, <2>1 DEF WakeIsOnItsWay
<1>10. ScansAreTheWorkers'
  <2>1. scanning' \subseteq scanning \ {r}
    BY <1>1, <1>3 DEF TypeOK
  <2>2. scanning' \subseteq worker'.work
    BY <1>1, <1>4, <2>1 DEF ScansAreTheWorkers, r
  <2>3. \A x \in scanning' : pending'[x] = 0
    <3>1. scanning' \subseteq Roots
      BY <1>8 DEF TypeOK
    <3> QED BY <1>1, <1>5, <2>1, <3>1 DEF ScansAreTheWorkers
  <2> QED BY <1>1, <1>2, <1>4, <2>2, <2>3 DEF ScansAreTheWorkers
<1>11. ClosedIsEmpty' /\ Live' = Live
  BY <1>1, <1>2 DEF ClosedIsEmpty, Shut, Live
<1>12. ASSUME NEW x \in Live, NEW g \in Gens, Past(x, g) PROVE Past(x, g)'
  <2>1. CASE x # r \/ r \notin watched \/ ~new
    BY <1>1, <1>5, <1>12, <2>1 DEF Past
  <2>2. CASE x = r /\ r \in watched /\ new
    BY <1>5, <1>6, <1>12, <2>2, NextIsNewer DEF Past
  <2> QED BY <2>1, <2>2
<1>13. ASSUME NEW x \in Live PROVE nextGen'[x] # 0 /\ Past(x, pending[x])'
  <2>1. CASE x # r \/ r \notin watched \/ ~new
    BY <1>1, <1>5, <2>1 DEF Past, GensArePast
  <2>2. CASE x = r /\ r \in watched /\ new
    <3>1. nextGen'[r] # 0 /\ (nextGen[r] < nextGen'[r] \/ nextGen'[r] = MaxGen)
      BY <1>5, <1>6, <2>2, NextIsNewer
    <3>2. pending'[r] <= pending'[r]
      <4>1. pending'[r] \in Nat
        BY <1>4, <1>7, GensAreNat
      <4> QED BY <4>1
    <3> QED BY <1>5, <2>2, <3>1, <3>2 DEF Past
  <2> QED BY <2>1, <2>2
<1>14. ASSUME NEW x \in scope, NEW g \in Gens, Past(x, g), Tracked(x, g) PROVE Tracked(x, g)'
  <2>1. CASE x # r
    BY <1>1, <1>2, <1>3, <1>5, <1>14, <2>1 DEF Tracked
  <2>2. CASE x = r
    <3>1. worker.pc = "finish" /\ r \in watched
      BY <1>1, <1>2, <2>2 DEF ScansAreTheWorkers, r
    <3>2. CASE pending[r] = 0
      <4>1. new
        BY <3>1, <3>2 DEF new
      <4>2. nextGen[r] > g \/ nextGen[r] = MaxGen
        BY <1>6, <1>14, <2>2, <3>1, NextIsNewer DEF Past
      <4> QED BY <1>5, <2>2, <3>1, <4>1, <4>2 DEF Tracked
    <3>3. CASE pending[r] # 0
      <4>1. r \notin scanning /\ UNCHANGED pending
        BY <1>1, <1>5, <3>3 DEF ScansAreTheWorkers, new
      <4> QED BY <1>2, <1>14, <2>2, <4>1 DEF Tracked
    <3> QED BY <3>2, <3>3
  <2> QED BY <2>1, <2>2
<1> QED BY <1>2, <1>8, <1>9, <1>10, <1>11, <1>12, <1>13, <1>14, NativeHolds

(* Roots come once, under the locks of the commit; they go in two steps.      *)
LEMMA RootHolds ==
    ASSUME IInv, NEW r \in Roots, AddRoot(r) \/ RemoveRoot(r)
    PROVE  IInv'
<1>1. /\ TypeOK /\ WakeIsOnItsWay /\ ScansAreTheWorkers /\ ClosedIsEmpty /\ GensArePast
      /\ Live \subseteq Roots /\ watched \subseteq Live /\ scope \subseteq watched
  BY ScopeIsWatched DEF IInv
<1>2. CASE AddRoot(r)
  <2>1. /\ closing = "open" /\ r \notin used
        /\ scope' = scope \cup {r} /\ used' = used \cup {r} /\ watched' = watched \cup {r}
        /\ dirty' = dirty \cup {r} /\ token' = TRUE
        /\ UNCHANGED <<disk, events, senders, scanning, pending, nextGen,
                       worker, closing, requests, sync, page>>
    BY <1>2 DEF AddRoot
  <2>2. TypeOK'
    BY <1>1, <2>1 DEF TypeOK, page, States, Following
  <2>3. WakeIsOnItsWay'
    BY <2>1 DEF WakeIsOnItsWay
  <2>4. ScansAreTheWorkers'
    BY <1>1, <2>1, NoRootIsNone DEF ScansAreTheWorkers
  <2>5. ClosedIsEmpty' /\ Live' = Live
    BY <1>1, <2>1 DEF ClosedIsEmpty, Shut, Live
  <2>6. \A x \in Live' : nextGen'[x] # 0 /\ Past(x, pending[x])'
    BY <1>1, <2>1, <2>5 DEF GensArePast, Past
  <2>7. \A g \in Gens : /\ \A x \in scope : Tracked(x, g) => Tracked(x, g)'
                        /\ \A x \in Live' : Past(x, g) => Past(x, g)'
    BY <2>1 DEF Tracked, Past
  <2> QED BY <2>1, <2>2, <2>3, <2>4, <2>5, <2>6, <2>7, NativeHolds
<1>3. CASE RemoveRoot(r)
  <2>1. /\ scope' = scope \ {r} /\ closing = "open"
        /\ UNCHANGED <<disk, events, signals, used, table, worker, closing, requests, sync, page>>
    BY <1>3 DEF RemoveRoot
  <2> USE DEF table, signals
  <2>2. TypeOK'
    BY <1>1, <2>1 DEF TypeOK, page, States, Following
  <2>3. WakeIsOnItsWay'
    BY <1>1, <2>1 DEF WakeIsOnItsWay
  <2>4. ScansAreTheWorkers'
    BY <1>1, <2>1 DEF ScansAreTheWorkers
  <2>5. ClosedIsEmpty' /\ Live' = Live
    BY <1>1, <2>1 DEF ClosedIsEmpty, Shut, Live
  <2>6. \A x \in Live' : nextGen'[x] # 0 /\ Past(x, pending[x])'
    BY <1>1, <2>1, <2>5 DEF GensArePast, Past
  <2>7. \A g \in Gens : /\ \A x \in scope : Tracked(x, g) => Tracked(x, g)'
                        /\ \A x \in Live' : Past(x, g) => Past(x, g)'
    BY <2>1 DEF Tracked, Past
  <2> QED BY <2>1, <2>2, <2>3, <2>4, <2>5, <2>6, <2>7, NativeHolds
<1> QED BY <1>2, <1>3

(* A record that goes takes its flag and its generation with it, and nobody   *)
(* who counts remembers them.                                                 *)
LEMMA DropHolds ==
    ASSUME IInv, NEW gone, gone \subseteq watched \ scope, Dropped(gone),
           UNCHANGED <<disk, senders, token, scope, used, worker, requests, sync, page>>,
           closing' \in {"open", "shut"}, closing' = "open" => closing = "open",
           closing' = "shut" => gone = watched /\ closing # "open"
    PROVE  IInv'
<1>1. /\ TypeOK /\ WakeIsOnItsWay /\ ScansAreTheWorkers /\ ClosedIsEmpty /\ GensArePast
      /\ Live \subseteq Roots /\ watched \subseteq Live /\ scope \subseteq watched
  BY ScopeIsWatched DEF IInv
<1>2. /\ watched' = watched \ gone /\ dirty' = dirty \ gone /\ scanning' = scanning \ gone
      /\ events' = events \ gone
      /\ pending' = [r \in Roots |-> IF r \in gone THEN 0 ELSE pending[r]]
      /\ nextGen' = [r \in Roots |-> IF r \in gone THEN 1 ELSE nextGen[r]]
  BY DEF Dropped
<1>3. 0 \in Gens /\ 1 \in Gens
  BY BoundsAreNat DEF Gens
<1>4. pending' \in [Roots -> Gens] /\ nextGen' \in [Roots -> Gens]
  BY <1>1, <1>2, <1>3 DEF TypeOK
<1>5. Live' \subseteq Live \ gone
  BY <1>1, <1>2 DEF Live, TypeOK
<1>6. \A r \in Live' : r \in Roots /\ pending'[r] = pending[r] /\ nextGen'[r] = nextGen[r]
  BY <1>1, <1>2, <1>5
<1>7. TypeOK'
  BY <1>1, <1>2, <1>4 DEF TypeOK, page, States, Following
<1>8. WakeIsOnItsWay'
  <2>1. \A r \in watched' \cap dirty' : r \in watched \cap dirty /\ pending'[r] = pending[r]
    BY <1>1, <1>2
  <2> QED BY <1>1, <2>1 DEF WakeIsOnItsWay
<1>9. ScansAreTheWorkers'
  <2>1. \A r \in scanning' : r \in scanning /\ pending'[r] = pending[r]
    BY <1>1, <1>2 DEF TypeOK
  <2> QED BY <1>1, <2>1 DEF ScansAreTheWorkers
<1>10. ClosedIsEmpty'
  BY <1>1, <1>2 DEF ClosedIsEmpty, Shut
<1>11. \A r \in Live' : nextGen'[r] # 0 /\ Past(r, pending[r])'
  BY <1>1, <1>5, <1>6 DEF GensArePast, Past
<1>12. \A r \in Live', g \in Gens : Past(r, g) => Past(r, g)'
  BY <1>6 DEF Past
<1>13. \A r \in scope, g \in Gens : Tracked(r, g) => Tracked(r, g)'
  <2>1. \A r \in scope : r \in Roots /\ r \notin gone /\ pending'[r] = pending[r]
    BY <1>1, <1>2 DEF TypeOK
  <2> QED BY <1>2, <2>1 DEF Tracked
<1> QED BY <1>5, <1>7, <1>8, <1>9, <1>10, <1>11, <1>12, <1>13, NativeHolds

(* The last steps of close, and the end of the revocation of a root.          *)
LEMMA CloseHolds ==
    ASSUME IInv, CloseStep
    PROVE  IInv'
<1>1. /\ TypeOK /\ WakeIsOnItsWay /\ ScansAreTheWorkers /\ ClosedIsEmpty /\ GensArePast
      /\ Live \subseteq Roots /\ watched \subseteq Live /\ scope \subseteq watched
  BY ScopeIsWatched DEF IInv
<1> USE DEF rooted
<1>2. CASE CloseWatcher
  BY <1>1, <1>2, DropHolds DEF CloseWatcher, ClosedIsEmpty
<1>3. ASSUME NEW r \in Roots, Revoke(r) PROVE IInv'
  <2>1. {r} \subseteq watched \ scope /\ closing = "open" /\ closing' = "open"
    BY <1>3 DEF Revoke
  <2> QED BY <1>3, <2>1, DropHolds DEF Revoke
<1>4. CASE WakeForClose \/ JoinWorker
  <2> USE DEF table, signals
  <2>1. /\ UNCHANGED <<disk, events, senders, dirty, rooted, table, worker, requests, sync, page>>
        /\ token' \in BOOLEAN /\ (token' = token \/ token' = TRUE)
        /\ closing \in {"shut", "joining"} /\ closing' \in {"joining", "joined"}
    BY <1>1, <1>4 DEF WakeForClose, JoinWorker, TypeOK
  <2>2. TypeOK'
    BY <1>1, <2>1 DEF TypeOK, page, States, Following
  <2>3. WakeIsOnItsWay'
    BY <1>1, <2>1 DEF WakeIsOnItsWay
  <2>4. ScansAreTheWorkers'
    BY <1>1, <2>1 DEF ScansAreTheWorkers
  <2>5. ClosedIsEmpty' /\ Live' = Live
    BY <1>1, <2>1 DEF ClosedIsEmpty, Shut, Live
  <2>6. \A x \in Live' : nextGen'[x] # 0 /\ Past(x, pending[x])'
    BY <1>1, <2>1, <2>5 DEF GensArePast, Past
  <2>7. \A g \in Gens : /\ \A x \in scope : Tracked(x, g) => Tracked(x, g)'
                        /\ \A x \in Live' : Past(x, g) => Past(x, g)'
    BY <2>1 DEF Tracked, Past
  <2> QED BY <2>1, <2>2, <2>3, <2>4, <2>5, <2>6, <2>7, NativeHolds
<1> QED BY <1>2, <1>3, <1>4 DEF CloseStep

(* A change on disk is an event until the callback has seen it.               *)
LEMMA ChangeHolds ==
    ASSUME IInv, NEW r \in Roots, Change(r)
    PROVE  IInv'
<1>1. /\ TypeOK /\ WakeIsOnItsWay /\ ScansAreTheWorkers /\ ClosedIsEmpty /\ GensArePast
      /\ AcksAreHeard /\ OnePull /\ DeliveryStands /\ SubsAreUsed /\ MissedIsTracked
  BY DEF IInv
<1>2. /\ r \in watched /\ disk[r] < MaxChanges
      /\ disk' = [disk EXCEPT ![r] = @ + 1] /\ events' = events \cup {r}
      /\ UNCHANGED <<signals, rooted, table, worker, closing, requests, sync, page>>
  BY DEF Change
<1> USE DEF signals, rooted, table, page
<1>3. disk' \in [Roots -> 0..MaxChanges] /\ \A x \in Roots \ {r} : disk'[x] = disk[x]
  <2>1. disk[r] + 1 \in 0..MaxChanges
    <3>1. disk[r] \in 0..MaxChanges
      BY <1>1 DEF TypeOK
    <3> QED BY <1>2, <3>1, BoundsAreNat
  <2> QED BY <1>1, <1>2, <2>1 DEF TypeOK
<1>4. TypeOK'
  BY <1>1, <1>2, <1>3 DEF TypeOK, States, Following
<1>5. WakeIsOnItsWay' /\ ScansAreTheWorkers' /\ ClosedIsEmpty' /\ SubsAreUsed'
  BY <1>1, <1>2 DEF WakeIsOnItsWay, ScansAreTheWorkers, ClosedIsEmpty, Shut, SubsAreUsed
<1>6. GensArePast' /\ AcksAreHeard' /\ OnePull'
  BY <1>1, <1>2 DEF GensArePast, Past, Live, InFlight, AcksAreHeard, Outdates, OnePull
<1>7. \A x, g : Tracked(x, g) => Tracked(x, g)'
  BY <1>2 DEF Tracked
<1>8. \A x \in scope : x \in Roots /\ (disk'[x] = disk[x] \/ x \in events')
  BY <1>1, <1>2, <1>3 DEF TypeOK
<1>9. DeliveryStands'
  <2>1. Following(pull.root)' = Following(pull.root)
    BY <1>2 DEF Following
  <2>2. pull.pc = "delivering" /\ pull.root \in scope /\ pull.current # {}
          /\ pull.readAt < disk'[pull.root] => Tracked(pull.root, pull.found[pull.root])'
    BY <1>1, <1>2, <1>8 DEF DeliveryStands, Tracked
  <2> QED BY <1>1, <1>2, <2>1, <2>2 DEF DeliveryStands, InFlight
<1>10. MissedIsTracked'
  <2>1. ASSUME NEW s \in Subs, sub[s].root \in scope, sub[s].seen < disk'[sub[s].root], sub[s].last # 0
        PROVE  Tracked(sub[s].root, sub[s].last)'
    <3>1. CASE sub[s].root \in events'
      BY <1>2, <3>1 DEF Tracked
    <3>2. CASE disk'[sub[s].root] = disk[sub[s].root]
      BY <1>1, <1>2, <2>1, <3>2 DEF MissedIsTracked, Tracked
    <3> QED BY <1>8, <2>1, <3>1, <3>2
  <2> QED BY <1>2, <2>1 DEF MissedIsTracked
<1> QED BY <1>4, <1>5, <1>6, <1>9, <1>10 DEF IInv

(* A request or a sync whose page is gone acknowledges what it did before.    *)
LEMMA PageGoneHolds ==
    ASSUME IInv, PageGone,
           UNCHANGED <<disk, events, signals, used, table, worker>>,
           scope' \subseteq scope, fresh' \subseteq fresh,
           (closing' = closing /\ scope' = scope) \/ (closing' = "closed" /\ scope' = {}),
           requests' \subseteq Requests,
           \A q \in requests' : ~q.mine /\ \E old \in requests : q.acks = old.acks,
           sync = Idle => sync' = Idle,
           sync # Idle => sync' \in Syncs /\ ~sync'.mine /\ sync'.stage = sync.stage
                          /\ sync'.firsts = sync.firsts /\ sync'.found = sync.found
    PROVE  IInv'
<1>1. /\ TypeOK /\ WakeIsOnItsWay /\ ScansAreTheWorkers /\ ClosedIsEmpty /\ GensArePast
      /\ AcksAreHeard /\ OnePull /\ DeliveryStands /\ SubsAreUsed /\ MissedIsTracked
      /\ Live \subseteq Roots
  BY ScopeIsWatched DEF IInv
<1>2. /\ sub' = [s \in Subs |-> NoSub] /\ acked' = [r \in Roots |-> 0] /\ known' = {}
      /\ pull' = NoPull
  BY DEF PageGone
<1> USE DEF signals, table
<1>3. /\ \A s \in Subs : sub'[s] = NoSub /\ sub'[s].root = NoRoot
      /\ sub' \in [Subs -> [root : Roots \cup {NoRoot}, last : Gens, seen : 0..MaxChanges]]
      /\ acked' \in [Roots -> Gens]
  BY <1>2, GensAreNat, BoundsAreNat DEF NoSub
<1>4. States' = {}
  BY <1>3, NoRootIsNone DEF States, Following
<1>5. TypeOK'
  BY <1>1, <1>2, <1>3, <1>4 DEF TypeOK
<1>6. WakeIsOnItsWay'
  <2>1. sync'.stage = sync.stage /\ (sync.stage = "marked" => sync'.firsts = sync.firsts)
    BY NothingApart
  <2> QED BY <1>1, <2>1 DEF WakeIsOnItsWay
<1>7. ScansAreTheWorkers' /\ ClosedIsEmpty'
  BY <1>1 DEF ScansAreTheWorkers, ClosedIsEmpty, Shut
<1>8. Live' = Live /\ ~InFlight' /\ (sync' = Idle \/ ~sync'.mine)
  BY <1>2, NothingApart DEF Live, InFlight
<1>9. GensArePast'
  <2>1. \A r \in Live : Past(r, 0)'
    <3>1. \A r \in Live : nextGen[r] \in Gens /\ pending[r] \in Gens /\ nextGen[r] # 0
      BY <1>1 DEF GensArePast, TypeOK
    <3> QED BY <3>1, BoundsAreNat DEF Past, Gens
  <2>2. \A r \in Live : /\ nextGen'[r] # 0 /\ Past(r, pending[r])'
                        /\ \A q \in requests' : r \in DOMAIN q.acks => Past(r, q.acks[r])'
    BY <1>1 DEF GensArePast, Past
  <2>3. ASSUME sync' # Idle, NEW r \in Live PROVE Past(r, sync.found[r]) /\ sync'.found = sync.found
    BY <1>1, <2>3 DEF GensArePast
  <2>4. \A r \in Live : sync' # Idle => Past(r, sync.found[r])'
    BY <2>3 DEF Past
  <2>5. \A r \in Live : r # NoRoot /\ Past(r, acked[r])'
    BY <1>1, <1>2, <2>1, NoRootIsNone DEF Past
  <2>6. \A r \in Live : \A s \in Subs : sub'[s].root # r
    BY <1>3, <2>5
  <2> QED BY <1>8, <2>2, <2>4, <2>5, <2>6 DEF GensArePast
<1>10. AcksAreHeard' /\ OnePull'
  BY <1>2, <1>3, <1>8, NoRootIsNone, NothingApart DEF AcksAreHeard, OnePull
<1>11. DeliveryStands' /\ SubsAreUsed' /\ MissedIsTracked'
  <2>1. NoRoot \notin scope'
    BY <1>1, NoRootIsNone DEF TypeOK
  <2>2. pull'.pc # "delivering"
    BY <1>2, NothingApart
  <2> QED BY <1>2, <1>3, <1>8, <2>1, <2>2 DEF DeliveryStands, SubsAreUsed, MissedIsTracked
<1> QED BY <1>5, <1>6, <1>7, <1>9, <1>10, <1>11 DEF IInv

(* The window is destroyed, or its page is loaded again.                      *)
LEMMA GoneHolds ==
    ASSUME IInv, CloseWorkspace \/ Reload
    PROVE  IInv'
<1>1. TypeOK
  BY DEF IInv
<1>2. CASE CloseWorkspace
  <2>1. sync = Idle /\ sync' = sync
    BY <1>2 DEF CloseWorkspace, GateFree
  <2> QED BY <1>2, <2>1, PageGoneHolds DEF CloseWorkspace
<1>3. CASE Reload
  <2>1. /\ PageGone /\ fresh' = fresh
        /\ requests' = {[q EXCEPT !.mine = FALSE] : q \in requests}
        /\ sync' = IF GateFree THEN sync ELSE [sync EXCEPT !.mine = FALSE]
        /\ UNCHANGED <<disk, events, signals, rooted, table, worker, closing>>
    BY <1>3 DEF Reload
  <2>2. ASSUME NEW q \in requests'
        PROVE  q \in Requests /\ ~q.mine /\ \E old \in requests : q.acks = old.acks
    <3>1. PICK old \in requests : q = [old EXCEPT !.mine = FALSE]
      BY <2>1, <2>2
    <3>2. old \in Requests
      BY <1>1, <3>1 DEF TypeOK
    <3>3. q \in Requests /\ q.mine = FALSE /\ q.acks = old.acks
      BY <3>1, <3>2 DEF Requests
    <3> QED BY <3>1, <3>3
  <2>3. ASSUME sync # Idle
        PROVE  sync' \in Syncs /\ ~sync'.mine /\ sync'.stage = sync.stage
               /\ sync'.firsts = sync.firsts /\ sync'.found = sync.found
    <3>1. sync \in Syncs /\ sync' = [sync EXCEPT !.mine = FALSE]
      BY <1>1, <2>1, <2>3 DEF TypeOK, GateFree
    <3>2. sync' \in Syncs /\ sync'.mine = FALSE /\ sync'.stage = sync.stage
               /\ sync'.firsts = sync.firsts /\ sync'.found = sync.found
      BY <3>1 DEF Syncs
    <3> QED BY <3>2
  <2>4. sync = Idle => sync' = Idle
    BY <2>1 DEF GateFree
  <2>5. requests' \subseteq Requests
    BY <2>2
  <2>6. /\ UNCHANGED <<disk, events, signals, used, table, worker>>
        /\ scope' \subseteq scope /\ fresh' \subseteq fresh
        /\ (closing' = closing /\ scope' = scope) \/ (closing' = "closed" /\ scope' = {})
    <3>1. /\ UNCHANGED <<disk, events, signals, used, table, worker>>
          /\ scope' = scope /\ closing' = closing /\ fresh' = fresh
      BY <2>1 DEF rooted
    <3> QED BY <3>1
  <2>7. /\ \A q \in requests' : ~q.mine /\ \E old \in requests : q.acks = old.acks
        /\ sync # Idle => sync' \in Syncs /\ ~sync'.mine /\ sync'.stage = sync.stage
                          /\ sync'.firsts = sync.firsts /\ sync'.found = sync.found
    BY <2>2, <2>3
  <2>8. PageGone
    BY <2>1
  <2> HIDE <2>1, <2>2
  <2> QED BY <2>4, <2>5, <2>6, <2>7, <2>8, PageGoneHolds
<1> QED BY <1>2, <1>3

-----------------------------------------------------------------------------
(* watch_sync *)

(* A sync that goes on: it only raises flags and tokens.                      *)
LEMMA SyncMoves ==
    ASSUME IInv, UNCHANGED <<disk, events, senders, rooted, table, worker, closing, requests, page>>,
           sync # Idle, sync' \in Syncs, sync'.mine = sync.mine, sync'.found = sync.found,
           dirty \subseteq dirty', dirty' \subseteq watched, token' \in BOOLEAN, WakeIsOnItsWay'
    PROVE  IInv'
<1>1. /\ TypeOK /\ ScansAreTheWorkers /\ ClosedIsEmpty /\ GensArePast
      /\ AcksAreHeard /\ OnePull /\ DeliveryStands /\ SubsAreUsed /\ MissedIsTracked
  BY DEF IInv
<1>2. sync' # Idle
  BY NothingApart
<1> USE DEF rooted, table, page
<1>3. TypeOK'
  BY <1>1 DEF TypeOK, States, Following
<1>4. ScansAreTheWorkers' /\ ClosedIsEmpty' /\ SubsAreUsed'
  BY <1>1 DEF ScansAreTheWorkers, ClosedIsEmpty, Shut, SubsAreUsed
<1>5. GensArePast'
  BY <1>1, <1>2 DEF GensArePast, Past, Live, InFlight
<1>6. AcksAreHeard'
  BY <1>1, <1>2 DEF AcksAreHeard, Outdates, InFlight
<1>7. OnePull'
  BY <1>1, <1>2 DEF OnePull
<1>8. \A x, g : Tracked(x, g) => Tracked(x, g)'
  BY DEF Tracked
<1>9. DeliveryStands'
  BY <1>1, <1>8 DEF DeliveryStands, InFlight, Following, Tracked
<1>10. MissedIsTracked'
  BY <1>1, <1>8 DEF MissedIsTracked, Tracked
<1> QED BY <1>3, <1>4, <1>5, <1>6, <1>7, <1>9, <1>10 DEF IInv

(* Flags first, then the token: whoever raised one still has the other.       *)
LEMMA SyncGoesOn ==
    ASSUME IInv, WakeFromSync \/ MarkFirsts \/ SendForFirsts
    PROVE  IInv'
<1>1. TypeOK /\ WakeIsOnItsWay
  BY DEF IInv
<1> USE DEF table, page, signals, rooted
<1>2. CASE WakeFromSync
  <2>1. sync \in Syncs /\ sync' = [sync EXCEPT !.stage = "synced"] /\ token' = TRUE
        /\ UNCHANGED <<disk, events, senders, dirty, rooted, table, worker, closing, requests, page>>
    BY <1>1, <1>2, NothingApart DEF WakeFromSync, TypeOK
  <2>2. sync' \in Syncs /\ sync'.mine = sync.mine /\ sync'.found = sync.found /\ sync # Idle
    BY <2>1, NothingApart DEF Syncs
  <2>3. WakeIsOnItsWay'
    BY <2>1 DEF WakeIsOnItsWay
  <2>4. dirty \subseteq dirty' /\ dirty' \subseteq watched /\ token' \in BOOLEAN
    BY <1>1, <2>1 DEF TypeOK
  <2> QED BY <2>1, <2>2, <2>3, <2>4, SyncMoves
<1>3. CASE MarkFirsts
  <2>1. /\ sync \in Syncs /\ sync.stage = "synced" /\ sync' = [sync EXCEPT !.stage = "marked"]
        /\ dirty' = dirty \cup (sync.firsts \cap watched)
        /\ UNCHANGED <<disk, events, senders, token, rooted, table, worker, closing, requests, page>>
    BY <1>1, <1>3, NothingApart DEF MarkFirsts, TypeOK
  <2>2. sync' \in Syncs /\ sync'.mine = sync.mine /\ sync'.found = sync.found /\ sync # Idle
        /\ sync'.stage = "marked" /\ sync'.firsts = sync.firsts
    BY <2>1, NothingApart DEF Syncs
  <2>3. WakeIsOnItsWay'
    BY <1>1, <2>1, <2>2 DEF WakeIsOnItsWay
  <2>4. dirty \subseteq dirty' /\ dirty' \subseteq watched /\ token' \in BOOLEAN
    BY <1>1, <2>1 DEF TypeOK
  <2> QED BY <2>1, <2>2, <2>3, <2>4, SyncMoves
<1>4. CASE SendForFirsts
  <2>1. /\ sync \in Syncs /\ sync' = [sync EXCEPT !.stage = "sent"] /\ token' = TRUE
        /\ dirty' = IF token THEN dirty \cup (sync.firsts \cap watched) ELSE dirty
        /\ UNCHANGED <<disk, events, senders, rooted, table, worker, closing, requests, page>>
    BY <1>1, <1>4, NothingApart DEF SendForFirsts, TypeOK
  <2>2. sync' \in Syncs /\ sync'.mine = sync.mine /\ sync'.found = sync.found /\ sync # Idle
    BY <2>1, NothingApart DEF Syncs
  <2>3. WakeIsOnItsWay'
    BY <2>1 DEF WakeIsOnItsWay
  <2>4. dirty \subseteq dirty' /\ dirty' \subseteq watched /\ token' \in BOOLEAN
    BY <1>1, <2>1 DEF TypeOK
  <2> QED BY <2>1, <2>2, <2>3, <2>4, SyncMoves
<1> QED BY <1>2, <1>3, <1>4

(* What a request acknowledges is a generation of its root.                   *)
LEMMA AcksAreGens ==
    ASSUME TypeOK, NEW q \in requests
    PROVE  /\ q \in Requests /\ q.mine \in BOOLEAN /\ DOMAIN q.acks \subseteq Roots
           /\ \A r \in DOMAIN q.acks : q.acks[r] \in Gens
<1>1. q \in Requests
  BY DEF TypeOK
<1>2. PICK asked \in SUBSET Roots : q.acks \in [asked -> Gens]
  BY <1>1 DEF Requests
<1> QED BY <1>1, <1>2 DEF Requests

(* What is pending outdates every acknowledgement that is under way.          *)
LEMMA PendingIsNewest ==
    ASSUME TypeOK, GensArePast, NEW asked, NEW cleared
    PROVE  /\ PendingOf(asked, cleared) \in [Roots -> Gens]
           /\ \A r \in Live \cap Roots : Past(r, PendingOf(asked, cleared)[r])
           /\ \A r \in Roots : PendingOf(asked, cleared)[r] = 0 \/ Outdates(PendingOf(asked, cleared)[r], r)
<1> DEFINE found == PendingOf(asked, cleared)
<1>1. /\ found \in [Roots -> Gens]
      /\ \A r \in Roots : found[r] = 0 \/ (found[r] = pending[r] /\ r \in watched)
  BY GensAreNat DEF PendingOf, TypeOK
<1> HIDE DEF found
<1>2. ASSUME NEW r \in Live \cap Roots PROVE Past(r, found[r])
  <2>1. CASE found[r] = pending[r]
    BY <2>1 DEF GensArePast
  <2>2. CASE found[r] = 0
    <3>1. nextGen[r] \in Gens /\ pending[r] \in Gens /\ nextGen[r] # 0
      BY DEF GensArePast, TypeOK
    <3> QED BY <2>2, <3>1, BoundsAreNat DEF Past, Gens
  <2> QED BY <1>1, <2>1, <2>2
<1>3. ASSUME NEW r \in Roots, found[r] # 0 PROVE Outdates(found[r], r)
  <2>1. found[r] = pending[r] /\ r \in Live
    BY <1>1, <1>3 DEF Live
  <2>2. \A q \in requests : r \in DOMAIN q.acks => Past(r, q.acks[r])
    BY <2>1 DEF GensArePast
  <2> QED BY <1>3, <2>1, <2>2 DEF Outdates, Past
<1> QED BY <1>1, <1>2, <1>3 DEF found

(* What is tracked for a subscription stays so when a request begins, for the *)
(* generation it clears was heard of.                                         *)
LEMMA ClearedWasHeard ==
    ASSUME TypeOK, NEW q \in requests, NEW r \in Roots, NEW g \in Gens,
           Outdates(g, r), Tracked(r, g), UNCHANGED <<events, dirty, scanning>>,
           pending'[r] = pending[r] \/ (/\ r \in DOMAIN q.acks /\ q.acks[r] < MaxGen
                                        /\ pending[r] = q.acks[r])
    PROVE  Tracked(r, g)'
<1>1. pending[r] \in Nat /\ g \in Nat /\ MaxGen \in Nat
  BY GensAreNat DEF TypeOK
<1>2. CASE pending'[r] = pending[r]
  BY <1>2 DEF Tracked
<1>3. CASE r \in DOMAIN q.acks /\ q.acks[r] < MaxGen /\ pending[r] = q.acks[r]
  <2>1. pending[r] <= g /\ pending[r] < MaxGen
    BY <1>3 DEF Outdates
  <2> QED BY <1>1, <2>1 DEF Tracked
<1> QED BY <1>2, <1>3

(* An acknowledgement clears the generation it names: what changed since is   *)
(* in the flag, and the flag gets its token.                                  *)
LEMMA BeginSyncHolds ==
    ASSUME IInv, NEW q \in requests, BeginSync(q)
    PROVE  IInv'
<1>1. /\ TypeOK /\ WakeIsOnItsWay /\ ScansAreTheWorkers /\ ClosedIsEmpty /\ GensArePast
      /\ AcksAreHeard /\ OnePull /\ DeliveryStands /\ SubsAreUsed /\ MissedIsTracked
      /\ Live \subseteq Roots /\ scope \subseteq Live
  BY ScopeIsWatched DEF IInv
<1>2. q \in Requests /\ q.mine \in BOOLEAN
  BY <1>1, AcksAreGens
<1> DEFINE asked == DOMAIN q.acks \cap scope
           cleared == Cleared([r \in asked |-> q.acks[r]])
           firsts == {r \in asked : q.acks[r] = 0 /\ pending[r] = 0}
           found == PendingOf(asked, cleared)
<1>3. /\ sync = Idle /\ requests' = requests \ {q}
      /\ pending' = [r \in Roots |-> IF r \in cleared THEN 0 ELSE pending[r]]
      /\ sync' = [stage |-> IF Wakes(cleared) THEN "wake" ELSE "synced", mine |-> q.mine,
                  asked |-> asked, firsts |-> firsts, found |-> found]
      /\ UNCHANGED <<disk, events, signals, rooted, watched, scanning, nextGen, worker, closing, page>>
  BY DEF BeginSync, GateFree
<1>4. \A r \in cleared : /\ r \in DOMAIN q.acks /\ q.acks[r] < MaxGen /\ pending[r] = q.acks[r]
                         /\ r \in watched
  BY DEF Cleared
<1>5. /\ found \in [Roots -> Gens] /\ \A r \in Live : Past(r, found[r])
      /\ \A r \in Roots : found[r] = 0 \/ Outdates(found[r], r)
  <2> HIDE DEF asked, cleared
  <2> QED BY <1>1, PendingIsNewest
<1>6. asked \subseteq Roots /\ firsts \subseteq Roots
  BY <1>1 DEF TypeOK
<1> HIDE DEF found, cleared, firsts, asked
<1>7. /\ sync' \in Syncs /\ sync'.found = found /\ sync'.mine = q.mine
      /\ Wakes(cleared) => sync'.stage = "wake"
  BY <1>2, <1>3, <1>5, <1>6 DEF Syncs
<1>8. sync' # Idle
  BY <1>7, NothingApart
<1> USE DEF signals, rooted, page
<1>9. /\ pending' \in [Roots -> Gens]
      /\ \A r \in Roots : pending'[r] = IF r \in cleared THEN 0 ELSE pending[r]
  BY <1>1, <1>3, GensAreNat DEF TypeOK
<1>10. TypeOK'
  BY <1>1, <1>3, <1>7, <1>9 DEF TypeOK, States, Following
<1>11. WakeIsOnItsWay'
  <2>1. sync.stage = "idle"
    BY <1>3, NothingApart
  <2>2. ASSUME NEW r \in watched \cap dirty, pending'[r] = 0
        PROVE  \/ token \/ r \in senders
               \/ worker.pc \in {"pacing", "drained", "collect"} \/ sync'.stage = "wake"
    <3>1. r \in Roots
      BY <1>1 DEF TypeOK
    <3>2. CASE r \in cleared
      BY <1>7, <2>2, <3>2 DEF Wakes
    <3>3. CASE pending[r] = 0
      BY <1>1, <2>1, <2>2, <3>3 DEF WakeIsOnItsWay
    <3> QED BY <1>9, <2>2, <3>1, <3>2, <3>3
  <2> QED BY <1>3, <2>2 DEF WakeIsOnItsWay
<1>12. ScansAreTheWorkers' /\ ClosedIsEmpty' /\ SubsAreUsed'
  <2>1. \A r \in scanning : r \in Roots /\ pending'[r] = 0
    BY <1>1, <1>9 DEF ScansAreTheWorkers, TypeOK
  <2> QED BY <1>1, <1>3, <2>1 DEF ScansAreTheWorkers, ClosedIsEmpty, Shut, SubsAreUsed
<1>13. Live' = Live /\ InFlight' = InFlight
  BY <1>3 DEF Live, InFlight
<1>14. GensArePast'
  <2>1. \A r \in Live : \A g : Past(r, g) => Past(r, g)'
    BY <1>1, <1>3, <1>9 DEF Past
  <2>2. \A r \in Live : Past(r, pending[r])'
    <3>1. ASSUME NEW r \in Live PROVE Past(r, 0)
      <4>1. nextGen[r] \in Gens /\ pending[r] \in Gens /\ nextGen[r] # 0
        BY <1>1, <3>1 DEF GensArePast, TypeOK
      <4> QED BY <4>1, BoundsAreNat DEF Past, Gens
    <3>2. \A r \in Live : pending'[r] \in {0, pending[r]}
      BY <1>1, <1>9
    <3> QED BY <1>1, <1>3, <3>1, <3>2 DEF GensArePast, Past
  <2>3. \A r \in Live : Past(r, sync.found[r])'
    BY <1>1, <1>3, <1>5, <1>7, <1>9 DEF Past
  <2> QED BY <1>1, <1>3, <1>13, <2>1, <2>2, <2>3 DEF GensArePast, Past
<1>15. \A r, g : Outdates(g, r) => Outdates(g, r)'
  BY <1>3 DEF Outdates
<1>16. AcksAreHeard'
  <2>1. \A r \in Roots : sync'.found[r] = 0 \/ Outdates(sync.found[r], r)'
    BY <1>3, <1>5, <1>7 DEF Outdates
  <2> QED BY <1>1, <1>3, <1>13, <1>15, <2>1 DEF AcksAreHeard, Outdates
<1>17. OnePull'
  BY <1>1, <1>2, <1>3, <1>7, <1>8 DEF OnePull
<1>18. ASSUME NEW r \in Roots, NEW g \in Gens, Outdates(g, r), Tracked(r, g)
       PROVE  Tracked(r, g)'
  BY <1>1, <1>3, <1>4, <1>9, <1>18, ClearedWasHeard
<1>19. DeliveryStands'
  <2>1. Following(pull.root)' = Following(pull.root)
    BY <1>3 DEF Following
  <2>2. ASSUME pull.pc = "delivering", pull.root \in scope, pull.current # {},
               pull.readAt < disk[pull.root]
        PROVE  Tracked(pull.root, pull.found[pull.root])'
    <3>1. InFlight /\ pull.root \in Roots
      BY <1>1, <2>2 DEF InFlight, DeliveryStands
    <3>2. pull.found[pull.root] \in Gens
      BY <1>1, <3>1, FlightIs
    <3>3. Outdates(pull.found[pull.root], pull.root) /\ Tracked(pull.root, pull.found[pull.root])
      BY <1>1, <2>2, <3>1 DEF AcksAreHeard, DeliveryStands
    <3> QED BY <1>3, <1>18, <3>1, <3>2, <3>3 DEF Tracked
  <2> QED BY <1>1, <1>3, <1>13, <2>1, <2>2 DEF DeliveryStands
<1>20. MissedIsTracked'
  <2>1. ASSUME NEW s \in Subs, sub[s].root \in scope, sub[s].seen < disk[sub[s].root], sub[s].last # 0
        PROVE  Tracked(sub[s].root, sub[s].last)'
    <3>1. sub[s].root \in Roots /\ sub[s].last \in Gens
      BY <1>1, <2>1 DEF TypeOK
    <3>2. Outdates(sub[s].last, sub[s].root) /\ Tracked(sub[s].root, sub[s].last)
      BY <1>1, <2>1, <3>1 DEF AcksAreHeard, MissedIsTracked
    <3> QED BY <1>3, <1>18, <3>1, <3>2 DEF Tracked
  <2> QED BY <1>3, <2>1 DEF MissedIsTracked
<1> QED BY <1>10, <1>11, <1>12, <1>14, <1>16, <1>17, <1>19, <1>20 DEF IInv

(* The answer reaches the page that waits for it, if it is still there.       *)
LEMMA EndSyncHolds ==
    ASSUME IInv, EndSync
    PROVE  IInv'
<1>1. /\ TypeOK /\ WakeIsOnItsWay /\ ScansAreTheWorkers /\ ClosedIsEmpty /\ GensArePast
      /\ AcksAreHeard /\ OnePull /\ DeliveryStands /\ SubsAreUsed /\ MissedIsTracked
      /\ Live \subseteq Roots
  BY ScopeIsWatched DEF IInv
<1>2. /\ sync \in Syncs /\ sync.stage \in {"synced", "sent"} /\ sync' = Idle
      /\ sync.stage = "synced" => sync.firsts = {}
      /\ UNCHANGED <<disk, events, signals, rooted, table, worker, closing, requests, sub, acked, known, fresh>>
  BY <1>1, NothingApart DEF EndSync, TypeOK
<1>3. PICK found \in {sync.found, PendingOf(sync.asked, {})} : Reply(sync.mine, found)
  BY DEF EndSync
<1>4. sync # Idle /\ Idle.stage = "idle" /\ sync.mine \in BOOLEAN
  BY <1>2, NothingApart DEF Syncs
<1> USE DEF signals, rooted, table, page
<1>5. WakeIsOnItsWay' /\ ScansAreTheWorkers' /\ ClosedIsEmpty' /\ SubsAreUsed' /\ MissedIsTracked'
  BY <1>1, <1>2, <1>4 DEF WakeIsOnItsWay, ScansAreTheWorkers, ClosedIsEmpty, Shut, SubsAreUsed,
     MissedIsTracked, Tracked
<1>6. CASE ~sync.mine
  <2>1. pull' = pull
    BY <1>3, <1>6 DEF Reply
  <2>2. TypeOK'
    BY <1>1, <1>2, <2>1 DEF TypeOK, States, Following
  <2>3. GensArePast'
    BY <1>1, <1>2, <2>1 DEF GensArePast, Past, Live, InFlight
  <2>4. AcksAreHeard' /\ OnePull'
    BY <1>1, <1>2, <2>1 DEF AcksAreHeard, Outdates, InFlight, OnePull
  <2>5. DeliveryStands'
    BY <1>1, <1>2, <2>1 DEF DeliveryStands, InFlight, Following, Tracked
  <2> QED BY <1>5, <2>2, <2>3, <2>4, <2>5 DEF IInv
<1>7. CASE sync.mine
  <2>1. pull.pc = "sent" /\ \A q \in requests : ~q.mine
    BY <1>1, <1>4, <1>7 DEF OnePull
  <2>2. InFlight /\ pull \in Pulls /\ pull.current = {}
    BY <1>1, <2>1, FlightIs DEF InFlight, DeliveryStands
  <2>3. /\ found \in [Roots -> Gens] /\ \A r \in Live : Past(r, found[r])
        /\ \A r \in Roots : found[r] = 0 \/ Outdates(found[r], r)
    <3>1. CASE found = sync.found
      BY <1>1, <1>4, <1>7, <3>1, FlightIs DEF GensArePast, AcksAreHeard
    <3>2. CASE found = PendingOf(sync.asked, {})
      BY <1>1, <3>2, PendingIsNewest
    <3> QED BY <3>1, <3>2
  <2>4. pull' = [pull EXCEPT !.pc = "replied", !.found = found]
    BY <1>3, <1>7 DEF Reply
  <2>5. pull' \in Pulls /\ pull'.pc = "replied" /\ pull'.found = found /\ pull'.current = {}
    BY <2>2, <2>3, <2>4 DEF Pulls
  <2>6. TypeOK'
    BY <1>1, <1>2, <2>5, NothingApart DEF TypeOK, States, Following
  <2>7. GensArePast'
    BY <1>1, <1>2, <2>3, <2>5 DEF GensArePast, Past, Live
  <2>8. AcksAreHeard' /\ OnePull'
    BY <1>1, <1>2, <2>1, <2>3, <2>5 DEF AcksAreHeard, Outdates, OnePull
  <2>9. DeliveryStands'
    BY <2>5 DEF DeliveryStands
  <2> QED BY <1>5, <2>6, <2>7, <2>8, <2>9 DEF IInv
<1> QED BY <1>6, <1>7

-----------------------------------------------------------------------------
(* The page *)

(* What the page does leaves native alone.                                    *)
LEMMA PageFrame ==
    ASSUME IInv, UNCHANGED <<disk, events, signals, rooted, table, worker, closing, sync>>
    PROVE  /\ WakeIsOnItsWay' /\ ScansAreTheWorkers' /\ ClosedIsEmpty' /\ Live' = Live
           /\ \A r, g : Past(r, g)' = Past(r, g) /\ Tracked(r, g)' = Tracked(r, g)
<1> USE DEF signals, rooted, table
<1>1. WakeIsOnItsWay' /\ ScansAreTheWorkers' /\ ClosedIsEmpty'
  BY DEF IInv, WakeIsOnItsWay, ScansAreTheWorkers, ClosedIsEmpty, Shut
<1>2. Live' = Live /\ \A r, g : Past(r, g)' = Past(r, g) /\ Tracked(r, g)' = Tracked(r, g)
  BY DEF Live, Past, Tracked
<1> QED BY <1>1, <1>2

(* The generation that every root starts before.                              *)
LEMMA ZeroIsPast ==
    ASSUME TypeOK, GensArePast, NEW r \in Live, r \in Roots
    PROVE  Past(r, 0) /\ 0 \in Gens
<1>1. nextGen[r] \in Gens /\ pending[r] \in Gens /\ nextGen[r] # 0
  BY DEF GensArePast, TypeOK
<1> QED BY <1>1, BoundsAreNat DEF Past, Gens

(* Subscriptions that end take what they were told, and what is under way for *)
(* them, along.                                                               *)
LEMMA CancelledHolds ==
    ASSUME IInv, NEW gone, gone \subseteq Subs, Cancelled(gone), known' \subseteq used,
           UNCHANGED <<disk, events, signals, rooted, table, worker, closing, requests, sync, fresh>>
    PROVE  IInv'
<1>1. /\ TypeOK /\ GensArePast /\ AcksAreHeard /\ OnePull /\ DeliveryStands /\ SubsAreUsed
      /\ MissedIsTracked /\ Live \subseteq Roots
  BY ScopeIsWatched DEF IInv
<1>2. /\ WakeIsOnItsWay' /\ ScansAreTheWorkers' /\ ClosedIsEmpty' /\ Live' = Live
      /\ \A r, g : Past(r, g)' = Past(r, g) /\ Tracked(r, g)' = Tracked(r, g)
  BY PageFrame
<1> USE DEF signals, rooted, table
<1> DEFINE empty == {r \in States : Following(r) \subseteq gone}
<1>3. /\ sub' = [s \in Subs |-> IF s \in gone THEN NoSub ELSE sub[s]]
      /\ acked' = [r \in Roots |-> IF r \in empty THEN 0 ELSE acked[r]]
      /\ pull' = IF pull.pc = "scheduled"
                 THEN IF States \subseteq empty THEN NoPull ELSE pull
                 ELSE IF pull = NoPull THEN pull
                 ELSE [pull EXCEPT !.asked = @ \ empty, !.todo = @ \ gone, !.current = @ \ gone]
  BY DEF Cancelled
<1>4. States' \subseteq States \ empty
  BY <1>3, NoRootIsNone DEF States, Following, NoSub
<1> HIDE DEF empty
<1>5. /\ sub' \in [Subs -> [root : Roots \cup {NoRoot}, last : Gens, seen : 0..MaxChanges]]
      /\ acked' \in [Roots -> Gens] /\ 0 \in Gens
      /\ \A r \in Roots : acked'[r] = 0 \/ acked'[r] = acked[r]
      /\ \A s \in Subs : sub'[s].root \in Roots => s \notin gone /\ sub'[s] = sub[s]
      /\ \A s \in Subs : sub'[s].root \in {NoRoot, sub[s].root}
  <2>1. NoSub \in [root : Roots \cup {NoRoot}, last : Gens, seen : 0..MaxChanges]
    BY GensAreNat, BoundsAreNat DEF NoSub
  <2>2. NoSub.root = NoRoot
    BY DEF NoSub
  <2> HIDE DEF NoSub
  <2> QED BY <1>1, <1>3, <2>1, <2>2, GensAreNat, NoRootIsNone DEF TypeOK
<1>6. /\ InFlight => /\ pull' \in Pulls /\ pull'.pc = pull.pc /\ pull'.found = pull.found
                     /\ pull'.root = pull.root /\ pull'.readAt = pull.readAt
                     /\ pull'.todo = pull.todo \ gone /\ pull'.current = pull.current \ gone
      /\ ~InFlight => pull' \in {NoPull, [pc |-> "scheduled"]} /\ (pull' = NoPull => States' = {})
  <2>1. CASE InFlight
    <3>1. pull \in Pulls /\ pull # NoPull /\ pull.pc # "scheduled"
      BY <1>1, <2>1, FlightIs, NothingApart DEF InFlight
    <3>2. pull' = [pull EXCEPT !.asked = @ \ empty, !.todo = @ \ gone, !.current = @ \ gone]
      BY <1>3, <3>1
    <3> QED BY <2>1, <3>1, <3>2 DEF Pulls
  <2>2. CASE ~InFlight
    <3>1. pull \in {NoPull, [pc |-> "scheduled"]}
      BY <1>1, <2>2, FlightIs DEF TypeOK
    <3>2. pull = NoPull => States = {}
      BY <1>1 DEF TypeOK
    <3> QED BY <1>3, <1>4, <2>2, <3>1, <3>2, NothingApart
  <2> QED BY <2>1, <2>2
<1>7. InFlight' = InFlight
  BY <1>6, NothingApart DEF InFlight
<1>8. TypeOK'
  <2>1. pull' \in Pulls \cup {NoPull, [pc |-> "scheduled"]} /\ (States' # {} => pull' # NoPull)
    BY <1>6, NothingApart
  <2>2. known' \subseteq Roots
    BY <1>1 DEF TypeOK
  <2> QED BY <1>1, <1>5, <2>1, <2>2 DEF TypeOK
<1>9. GensArePast'
  <2>1. ASSUME NEW r \in Live
        PROVE  /\ Past(r, acked'[r]) /\ \A s \in Subs : sub'[s].root = r => Past(r, sub'[s].last)
               /\ InFlight => Past(r, pull'.found[r])
    BY <1>1, <1>5, <1>6, ZeroIsPast DEF GensArePast
  <2>2. ASSUME NEW r \in Live
        PROVE  /\ nextGen[r] # 0 /\ Past(r, pending[r])
               /\ \A q \in requests : r \in DOMAIN q.acks => Past(r, q.acks[r])
               /\ sync # Idle => Past(r, sync.found[r])
    BY <1>1 DEF GensArePast
  <2> QED BY <1>2, <1>7, <2>1, <2>2 DEF GensArePast, Past
<1>10. AcksAreHeard'
  <2>1. \A r \in Roots : \A s \in Subs : sub'[s].root = r => sub'[s] = sub[s] /\ sub[s].last \in Nat
    BY <1>1, <1>5, GensAreNat DEF TypeOK
  <2>2. \A r \in Roots : \A s \in Subs : sub'[s].root = r => acked'[r] <= sub'[s].last
    BY <1>1, <1>5, <2>1 DEF AcksAreHeard
  <2> QED BY <1>1, <1>5, <1>6, <1>7, <2>1, <2>2 DEF AcksAreHeard, Outdates
<1>11. OnePull'
  BY <1>1, <1>6 DEF OnePull, InFlight
<1>12. DeliveryStands'
  <2>1. ASSUME InFlight, pull'.pc = "delivering"
        PROVE  /\ pull.pc = "delivering" /\ pull.root \in Roots
               /\ pull'.todo \cup pull'.current \subseteq Following(pull.root)'
               /\ acked'[pull.root] <= pull.found[pull.root]
    <3>1. pull.pc = "delivering" /\ pull.root \in Roots
      BY <1>1, <1>6, <2>1 DEF DeliveryStands
    <3>2. pull'.todo \cup pull'.current \subseteq Following(pull.root) \ gone
      BY <1>1, <1>6, <2>1, <3>1 DEF DeliveryStands
    <3>3. Following(pull.root) \ gone \subseteq {s \in Subs : sub'[s].root = pull.root}
      BY <1>3 DEF Following
    <3>4. pull.found[pull.root] \in Nat
      BY <1>1, <2>1, <3>1, FlightIs, GensAreNat
    <3>5. acked'[pull.root] <= pull.found[pull.root]
      BY <1>1, <1>5, <3>1, <3>4 DEF DeliveryStands
    <3>6. Following(pull.root)' = {s \in Subs : sub'[s].root = pull.root}
      BY <1>6, <2>1 DEF Following
    <3> QED BY <3>1, <3>2, <3>3, <3>5, <3>6
  <2>2. pull'.pc = "delivering" => InFlight
    BY <1>6, NothingApart
  <2>3. ASSUME InFlight, pull'.pc = "delivering", pull.root \in scope, pull'.current # {},
               pull.readAt < disk[pull.root]
        PROVE  Tracked(pull.root, pull.found[pull.root])
    BY <1>1, <1>6, <2>1, <2>3 DEF DeliveryStands
  <2>4. InFlight /\ pull'.pc # "delivering" => pull'.current = {}
    BY <1>1, <1>6 DEF DeliveryStands
  <2>5. InFlight => pull'.found = pull.found /\ pull'.root = pull.root /\ pull'.readAt = pull.readAt
    BY <1>6
  <2>6. pull.pc = "delivering" => pull.found[pull.root] # 0
    BY <1>1 DEF DeliveryStands
  <2> QED BY <1>2, <1>7, <2>1, <2>2, <2>3, <2>4, <2>5, <2>6 DEF DeliveryStands, Tracked
<1>13. SubsAreUsed'
  BY <1>1, <1>5, NoRootIsNone DEF SubsAreUsed
<1>14. MissedIsTracked'
  <2>1. ASSUME NEW s \in Subs, sub'[s].root \in scope, sub'[s].seen < disk[sub'[s].root], sub'[s].last # 0
        PROVE  Tracked(sub'[s].root, sub'[s].last)
    BY <1>1, <1>5, <2>1 DEF MissedIsTracked, TypeOK
  <2> QED BY <2>1 DEF MissedIsTracked, Tracked
<1> QED BY <1>2, <1>8, <1>9, <1>10, <1>11, <1>12, <1>13, <1>14 DEF IInv

(* reconcileRoots, and unsubscribe.                                           *)
LEMMA EndOfSubsHolds ==
    ASSUME IInv, ReconcileRoots \/ \E s \in Subs : Unsubscribe(s)
    PROVE  IInv'
<1>1. known \subseteq used /\ scope \subseteq used
  BY DEF IInv, SubsAreUsed, TypeOK
<1>2. CASE ReconcileRoots
  <2> DEFINE gone == {s \in Subs : sub[s].root \notin scope}
  <2>1. gone \subseteq Subs /\ Cancelled(gone) /\ known' = scope
        /\ UNCHANGED <<disk, events, signals, rooted, table, worker, closing, requests, sync, fresh>>
    BY <1>2 DEF ReconcileRoots
  <2> HIDE DEF gone
  <2>2. known' \subseteq used
    BY <1>1, <2>1
  <2> QED BY <2>1, <2>2, CancelledHolds
<1>3. ASSUME NEW s \in Subs, Unsubscribe(s) PROVE IInv'
  <2>1. {s} \subseteq Subs /\ Cancelled({s}) /\ known' = known
        /\ UNCHANGED <<disk, events, signals, rooted, table, worker, closing, requests, sync, fresh>>
    BY <1>3 DEF Unsubscribe
  <2>2. known' \subseteq used
    BY <1>1, <2>1
  <2> QED BY <2>1, <2>2, CancelledHolds
<1> QED BY <1>2, <1>3

(* A new subscription was told what its page acknowledged, and has read what  *)
(* changed since.                                                             *)
LEMMA WatchHolds ==
    ASSUME IInv, NEW s \in Subs, NEW r \in Roots, WorkspaceWatch(s, r)
    PROVE  IInv'
<1>1. /\ TypeOK /\ GensArePast /\ AcksAreHeard /\ OnePull /\ DeliveryStands /\ SubsAreUsed
      /\ MissedIsTracked /\ Live \subseteq Roots
  BY ScopeIsWatched DEF IInv
<1> USE DEF signals, rooted, table
<1> DEFINE new == [root |-> r, last |-> acked[r], seen |-> IF acked[r] = 0 THEN 0 ELSE disk[r]]
<1>2. /\ s \in fresh /\ r \in known /\ fresh' = fresh \ {s} /\ sub' = [sub EXCEPT ![s] = new]
      /\ pull' = SchedulePull
      /\ UNCHANGED <<disk, events, signals, rooted, table, worker, closing, requests, sync, acked, known>>
  BY DEF WorkspaceWatch
<1>3. /\ WakeIsOnItsWay' /\ ScansAreTheWorkers' /\ ClosedIsEmpty' /\ Live' = Live
      /\ \A x, g : Past(x, g)' = Past(x, g) /\ Tracked(x, g)' = Tracked(x, g)
  BY <1>2, PageFrame
<1>4. /\ new \in [root : Roots \cup {NoRoot}, last : Gens, seen : 0..MaxChanges]
      /\ new.root = r /\ new.last = acked[r] /\ (acked[r] # 0 => new.seen = disk[r])
      /\ r \in used /\ sub[s].root = NoRoot /\ acked[r] \in Gens
  BY <1>1, <1>2, BoundsAreNat DEF TypeOK, SubsAreUsed
<1> HIDE DEF new
<1>5. /\ sub'[s] = new /\ \A t \in Subs \ {s} : sub'[t] = sub[t]
      /\ sub' \in [Subs -> [root : Roots \cup {NoRoot}, last : Gens, seen : 0..MaxChanges]]
  BY <1>1, <1>2, <1>4 DEF TypeOK
<1>6. /\ InFlight' = InFlight /\ (InFlight => pull' = pull)
      /\ pull' \in Pulls \cup {NoPull, [pc |-> "scheduled"]} /\ pull' # NoPull
      /\ ~InFlight => pull'.pc = "scheduled"
      /\ pull.pc = "sent" => pull' = pull
  BY <1>1, <1>2, NothingApart DEF TypeOK, SchedulePull, InFlight
<1>7. TypeOK'
  BY <1>1, <1>2, <1>5, <1>6 DEF TypeOK
<1>8. GensArePast'
  <2>1. \A x \in Live : \A t \in Subs : sub'[t].root = x => Past(x, sub'[t].last)
    BY <1>1, <1>4, <1>5 DEF GensArePast
  <2> QED BY <1>1, <1>2, <1>3, <1>6, <2>1 DEF GensArePast, Past
<1>9. AcksAreHeard'
  <2>1. acked[r] <= acked[r]
    <3>1. acked[r] \in Nat
      BY <1>4, GensAreNat
    <3> QED BY <3>1
  <2>2. \A x \in Roots : \A t \in Subs : sub'[t].root = x =>
           acked[x] <= sub'[t].last /\ (sub'[t].last = 0 \/ Outdates(sub'[t].last, x))
    BY <1>1, <1>4, <1>5, <2>1 DEF AcksAreHeard
  <2> QED BY <1>1, <1>2, <1>6, <2>2 DEF AcksAreHeard, Outdates
<1>10. OnePull'
  BY <1>1, <1>2, <1>6 DEF OnePull
<1>11. DeliveryStands'
  <2>1. pull'.pc = "delivering" => InFlight /\ pull' = pull
    BY <1>6
  <2>2. ASSUME pull.pc = "delivering"
        PROVE  pull.todo \cup pull.current \subseteq {t \in Subs : sub'[t].root = pull.root}
    <3>1. pull.root \in Roots /\ pull.todo \cup pull.current \subseteq Following(pull.root)
      BY <1>1, <2>2 DEF DeliveryStands
    <3>2. \A t \in Following(pull.root) : t \in Subs /\ sub'[t].root = pull.root
      BY <1>4, <1>5, <3>1, NoRootIsNone DEF Following
    <3> QED BY <3>1, <3>2
  <2> QED BY <1>1, <1>2, <1>3, <1>6, <2>1, <2>2 DEF DeliveryStands, Following, Tracked
<1>12. SubsAreUsed'
  BY <1>1, <1>2, <1>4, <1>5 DEF SubsAreUsed
<1>13. MissedIsTracked'
  <2>1. ASSUME NEW t \in Subs, sub'[t].root \in scope, sub'[t].seen < disk[sub'[t].root], sub'[t].last # 0
        PROVE  Tracked(sub'[t].root, sub'[t].last)
    <3>1. CASE t # s
      BY <1>1, <1>5, <2>1, <3>1 DEF MissedIsTracked
    <3>2. CASE t = s
      <4>1. disk[r] \in Nat /\ sub'[t].seen = disk[r]
        BY <1>1, <1>4, <1>5, <2>1, <3>2, BoundsAreNat DEF TypeOK
      <4> QED BY <1>4, <1>5, <2>1, <3>2, <4>1
    <3> QED BY <3>1, <3>2
  <2> QED BY <1>2, <2>1 DEF MissedIsTracked, Tracked
<1> QED BY <1>3, <1>7, <1>8, <1>9, <1>10, <1>11, <1>12, <1>13 DEF IInv

(* A request acknowledges what every subscription of its page was told.       *)
LEMMA PullHolds ==
    ASSUME IInv, Pull
    PROVE  IInv'
<1>1. /\ TypeOK /\ GensArePast /\ AcksAreHeard /\ OnePull /\ DeliveryStands /\ SubsAreUsed
      /\ MissedIsTracked /\ Live \subseteq Roots
  BY ScopeIsWatched DEF IInv
<1> USE DEF signals, rooted, table
<1> DEFINE zero == [r \in Roots |-> 0]
           q == [mine |-> TRUE, acks |-> [r \in States |-> acked[r]]]
<1>2. /\ pull.pc = "scheduled" /\ requests' = requests \cup {q}
      /\ pull' = [pc |-> "sent", asked |-> States, found |-> zero,
                  root |-> NoRoot, todo |-> {}, current |-> {}, readAt |-> 0]
      /\ UNCHANGED <<disk, events, signals, rooted, table, worker, closing, sync, sub, acked, known, fresh>>
  BY DEF Pull
<1>3. /\ WakeIsOnItsWay' /\ ScansAreTheWorkers' /\ ClosedIsEmpty' /\ Live' = Live
      /\ \A x, g : Past(x, g)' = Past(x, g) /\ Tracked(x, g)' = Tracked(x, g)
  BY <1>2, PageFrame
<1>4. States \subseteq Roots /\ zero \in [Roots -> Gens]
  BY GensAreNat DEF States
<1>5. /\ q \in Requests /\ q.mine = TRUE /\ DOMAIN q.acks \subseteq Roots
      /\ \A r \in DOMAIN q.acks : q.acks[r] = acked[r]
  <2>1. [r \in States |-> acked[r]] \in [States -> Gens]
    BY <1>1, <1>4 DEF TypeOK
  <2>2. States \in SUBSET Roots
    BY <1>4
  <2>3. [r \in States |-> acked[r]] \in UNION {[asked -> Gens] : asked \in SUBSET Roots}
    BY <2>1, <2>2
  <2> QED BY <1>4, <2>3 DEF Requests
<1>6. /\ pull' \in Pulls /\ pull'.pc = "sent" /\ pull'.found = zero /\ pull'.current = {}
      /\ pull' # NoPull
  BY <1>2, <1>4, BoundsAreNat, NothingApart DEF Pulls
<1> HIDE DEF q
<1>7. \A p \in requests : ~p.mine
  BY <1>1, <1>2 DEF OnePull
<1>8. sync # Idle => ~sync.mine
  BY <1>1, <1>2 DEF OnePull
<1>9. InFlight' /\ \A r \in Roots : pull'.found[r] = 0
  BY <1>6 DEF InFlight
<1>10. TypeOK'
  BY <1>1, <1>2, <1>5, <1>6 DEF TypeOK, States, Following
<1>11. GensArePast'
  <2>1. \A r \in Live : Past(r, pull'.found[r])
    BY <1>1, <1>9, ZeroIsPast
  <2>2. \A r \in Live : \A p \in requests' : r \in DOMAIN p.acks => Past(r, p.acks[r])
    BY <1>1, <1>2, <1>5 DEF GensArePast
  <2> QED BY <1>1, <1>2, <1>3, <2>1, <2>2 DEF GensArePast, Past
<1>12. AcksAreHeard'
  <2>1. \A r \in Roots : acked[r] \in Nat /\ acked[r] <= acked[r]
    <3>1. \A r \in Roots : acked[r] \in Nat
      BY <1>1, GensAreNat DEF TypeOK
    <3> QED BY <3>1
  <2>2. ASSUME NEW r \in Roots, NEW g, acked[r] <= g, Outdates(g, r)
        PROVE  Outdates(g, r)'
    BY <1>2, <1>5, <2>2 DEF Outdates
  <2>3. \A r \in Roots : acked[r] = 0 \/ Outdates(acked[r], r)'
    BY <1>1, <1>2, <2>1, <2>2 DEF AcksAreHeard, Outdates
  <2>4. \A r \in Roots : \A s \in Subs : sub[s].root = r =>
          acked[r] <= sub[s].last /\ (sub[s].last = 0 \/ Outdates(sub[s].last, r)')
    BY <1>1, <1>2, <2>2 DEF AcksAreHeard, Outdates
  <2> QED BY <1>2, <1>8, <1>9, <2>3, <2>4 DEF AcksAreHeard, Outdates
<1>13. OnePull'
  BY <1>2, <1>5, <1>6, <1>7, <1>8 DEF OnePull
<1>14. DeliveryStands' /\ SubsAreUsed'
  BY <1>1, <1>2, <1>6 DEF DeliveryStands, SubsAreUsed
<1>15. MissedIsTracked'
  BY <1>1, <1>2, <1>3 DEF MissedIsTracked, Tracked
<1> QED BY <1>3, <1>10, <1>11, <1>12, <1>13, <1>14, <1>15 DEF IInv

(* The pull of a page changes, and nothing else does.                         *)
LEMMA PullMoves ==
    ASSUME IInv, InFlight, pull' \in Pulls, pull'.found = pull.found, pull'.pc # "sent", pull.pc # "sent",
           DeliveryStands',
           UNCHANGED <<disk, events, signals, rooted, table, worker, closing, requests, sync,
                       sub, acked, known, fresh>>
    PROVE  IInv'
<1>1. /\ TypeOK /\ GensArePast /\ AcksAreHeard /\ OnePull /\ SubsAreUsed /\ MissedIsTracked
  BY DEF IInv
<1> USE DEF signals, rooted, table
<1>2. WakeIsOnItsWay' /\ ScansAreTheWorkers' /\ ClosedIsEmpty'
  BY PageFrame
<1>3. InFlight' /\ pull' # NoPull
  BY NothingApart DEF InFlight
<1>4. TypeOK'
  BY <1>1, <1>3 DEF TypeOK, States, Following
<1>5. GensArePast'
  BY <1>1, <1>3 DEF GensArePast, Past, Live
<1>6. AcksAreHeard' /\ OnePull' /\ SubsAreUsed' /\ MissedIsTracked'
  BY <1>1, <1>3 DEF AcksAreHeard, Outdates, OnePull, SubsAreUsed, MissedIsTracked, Tracked
<1> QED BY <1>2, <1>4, <1>5, <1>6 DEF IInv

(* #deliver begins with news: a generation newer than the acknowledged one.   *)
LEMMA DeliverHolds ==
    ASSUME IInv, NEW r \in Roots, Deliver(r)
    PROVE  IInv'
<1>1. TypeOK /\ DeliveryStands
  BY DEF IInv
<1>2. /\ pull.pc = "replied" /\ r \in News
      /\ pull' = [pull EXCEPT !.pc = "delivering", !.root = r,
                    !.todo = {s \in Following(r) : sub[s].last < pull.found[r] \/ SaturatedReplay(r)}]
      /\ UNCHANGED <<disk, events, signals, rooted, table, worker, closing, requests, sync,
                     sub, acked, known, fresh>>
  BY DEF Deliver
<1>3. InFlight /\ pull \in Pulls /\ pull.current = {}
  BY <1>1, <1>2, FlightIs DEF InFlight, DeliveryStands
<1>4. pull.found[r] # 0 /\ acked[r] <= pull.found[r]
  <2>1. pull.found[r] \in Nat /\ acked[r] \in Nat /\ MaxGen \in Nat /\ MaxGen # 0
    BY <1>1, <1>3, FlightIs, GensAreNat DEF TypeOK
  <2>2. pull.found[r] > acked[r] \/ (pull.found[r] = MaxGen /\ acked[r] = MaxGen)
    BY <1>2 DEF News, SaturatedReplay
  <2> QED BY <2>1, <2>2
<1>5. /\ pull' \in Pulls /\ pull'.found = pull.found /\ pull'.pc = "delivering" /\ pull'.root = r
      /\ pull'.todo \subseteq Following(r) /\ pull'.current = {}
  <2> DEFINE todo == {s \in Following(r) : sub[s].last < pull.found[r] \/ SaturatedReplay(r)}
  <2>1. todo \subseteq Following(r) /\ todo \in SUBSET Subs
    BY DEF Following
  <2>2. pull' = [pull EXCEPT !.pc = "delivering", !.root = r, !.todo = todo]
    BY <1>2
  <2> HIDE DEF todo
  <2> QED BY <1>3, <2>1, <2>2 DEF Pulls
<1>6. DeliveryStands'
  <2>1. Following(r)' = Following(r)
    BY <1>2 DEF Following
  <2> QED BY <1>2, <1>4, <1>5, <2>1 DEF DeliveryStands, Following
<1> QED BY <1>2, <1>3, <1>5, <1>6, PullMoves

(* A listener reads what is on disk when it is called.                        *)
LEMMA CallHolds ==
    ASSUME IInv, NEW s \in Subs, CallListener(s)
    PROVE  IInv'
<1>1. TypeOK /\ DeliveryStands
  BY DEF IInv
<1>2. /\ pull.pc = "delivering" /\ s \in pull.todo
      /\ pull' = [pull EXCEPT !.todo = @ \ {s}, !.current = {s}, !.readAt = disk[pull.root]]
      /\ UNCHANGED <<disk, events, signals, rooted, table, worker, closing, requests, sync,
                     sub, acked, known, fresh>>
  BY DEF CallListener, Callable
<1>3. InFlight /\ pull \in Pulls /\ pull.root \in Roots /\ disk[pull.root] \in 0..MaxChanges
  BY <1>1, <1>2, FlightIs DEF InFlight, DeliveryStands, TypeOK
<1>4. /\ pull' \in Pulls /\ pull'.found = pull.found /\ pull'.pc = "delivering" /\ pull'.root = pull.root
      /\ pull'.todo \cup pull'.current \subseteq pull.todo /\ pull'.readAt = disk[pull.root]
  BY <1>2, <1>3 DEF Pulls
<1>5. DeliveryStands'
  <2>1. /\ Following(pull.root)' = Following(pull.root)
        /\ pull.todo \subseteq Following(pull.root)
    BY <1>1, <1>2, <1>4 DEF Following, DeliveryStands
  <2>2. ~(disk[pull.root] < disk[pull.root])
    BY <1>3, BoundsAreNat
  <2> QED BY <1>1, <1>2, <1>4, <2>1, <2>2 DEF DeliveryStands, Following
<1> QED BY <1>2, <1>3, <1>4, <1>5, PullMoves

(* A listener that returned heard of the generation; what it missed is        *)
(* tracked for it.                                                            *)
LEMMA ReturnHolds ==
    ASSUME IInv, NEW s \in Subs, NEW ok \in BOOLEAN, ListenerReturns(s, ok)
    PROVE  IInv'
<1>1. /\ TypeOK /\ GensArePast /\ AcksAreHeard /\ OnePull /\ DeliveryStands /\ SubsAreUsed
      /\ MissedIsTracked /\ Live \subseteq Roots /\ scope \subseteq Live
  BY ScopeIsWatched DEF IInv
<1>2. /\ pull.pc = "delivering" /\ s \in pull.current
      /\ pull' = [pull EXCEPT !.current = {}, !.readAt = 0]
      /\ UNCHANGED <<disk, events, signals, rooted, table, worker, closing, requests, sync,
                     acked, known, fresh>>
  BY DEF ListenerReturns
<1> DEFINE root == pull.root
           gen == pull.found[pull.root]
           heard == [sub[s] EXCEPT !.last = gen, !.seen = pull.readAt]
<1>3. /\ InFlight /\ pull \in Pulls /\ root \in Roots /\ gen \in Gens /\ sub[s].root = root
      /\ gen # 0 /\ acked[root] <= gen
  BY <1>1, <1>2, FlightIs DEF InFlight, DeliveryStands, Following
<1>4. /\ pull' \in Pulls /\ pull'.found = pull.found /\ pull'.pc = "delivering" /\ pull'.root = root
      /\ pull'.todo = pull.todo /\ pull'.current = {}
  <2>1. 0 \in 0..MaxChanges
    BY BoundsAreNat
  <2> QED BY <1>2, <1>3, <2>1 DEF Pulls
<1>5. sub' = sub \/ sub' = [sub EXCEPT ![s] = heard]
  <2>1. CASE ok = TRUE
    BY <1>1, <2>1 DEF ListenerReturns, TypeOK
  <2>2. CASE ok = FALSE
    BY <2>2 DEF ListenerReturns
  <2> QED BY <2>1, <2>2
<1> USE DEF signals, rooted, table
<1>6. CASE sub' = sub
  <2>1. DeliveryStands'
    BY <1>1, <1>2, <1>4, <1>6 DEF DeliveryStands, Following
  <2> QED BY <1>2, <1>3, <1>4, <1>6, <2>1, PullMoves
<1>7. CASE sub' = [sub EXCEPT ![s] = heard]
  <2>1. /\ heard \in [root : Roots \cup {NoRoot}, last : Gens, seen : 0..MaxChanges]
        /\ heard.root = root /\ heard.last = gen /\ heard.seen = pull.readAt
    BY <1>1, <1>3 DEF TypeOK, Pulls
  <2> HIDE DEF heard, root, gen
  <2>2. /\ sub'[s] = heard /\ \A t \in Subs \ {s} : sub'[t] = sub[t]
        /\ sub' \in [Subs -> [root : Roots \cup {NoRoot}, last : Gens, seen : 0..MaxChanges]]
        /\ \A t \in Subs : sub'[t].root = sub[t].root
    BY <1>1, <1>3, <1>7, <2>1 DEF TypeOK
  <2>3. \A r : Following(r)' = Following(r)
    BY <2>2 DEF Following
  <2>4. /\ WakeIsOnItsWay' /\ ScansAreTheWorkers' /\ ClosedIsEmpty' /\ Live' = Live
        /\ \A x, g : Past(x, g)' = Past(x, g) /\ Tracked(x, g)' = Tracked(x, g)
    BY <1>2, PageFrame
  <2>5. InFlight' /\ pull' # NoPull
    BY <1>4, NothingApart DEF InFlight
  <2>6. TypeOK'
    BY <1>1, <1>2, <1>4, <2>2, <2>5 DEF TypeOK
  <2>7. GensArePast'
    <3>1. root \in Live => Past(root, gen)
      BY <1>1, <1>3 DEF GensArePast, root, gen
    <3>2. \A r \in Live : \A t \in Subs : sub'[t].root = r => Past(r, sub'[t].last)
      BY <1>1, <2>1, <2>2, <3>1 DEF GensArePast
    <3> QED BY <1>1, <1>2, <1>3, <1>4, <2>4, <3>2 DEF GensArePast, Past
  <2>8. AcksAreHeard'
    <3>1. Outdates(gen, root)
      BY <1>1, <1>3 DEF AcksAreHeard, root, gen
    <3>2. \A r \in Roots : \A t \in Subs : sub'[t].root = r =>
             acked[r] <= sub'[t].last /\ (sub'[t].last = 0 \/ Outdates(sub'[t].last, r))
      BY <1>1, <1>3, <2>1, <2>2, <3>1 DEF AcksAreHeard
    <3> QED BY <1>1, <1>2, <1>3, <1>4, <3>2 DEF AcksAreHeard, Outdates
  <2>9. OnePull' /\ SubsAreUsed'
    BY <1>1, <1>2, <1>4, <2>2 DEF OnePull, SubsAreUsed
  <2>10. DeliveryStands'
    BY <1>1, <1>2, <1>4, <2>3 DEF DeliveryStands, root
  <2>11. MissedIsTracked'
    <3>1. ASSUME NEW t \in Subs, sub'[t].root \in scope, sub'[t].seen < disk[sub'[t].root], sub'[t].last # 0
          PROVE  Tracked(sub'[t].root, sub'[t].last)
      <4>1. CASE t # s
        BY <1>1, <2>2, <3>1, <4>1 DEF MissedIsTracked
      <4>2. CASE t = s
        <5>1. pull.root \in scope /\ pull.current # {} /\ pull.readAt < disk[pull.root]
          BY <1>2, <2>1, <2>2, <3>1, <4>2 DEF root
        <5> QED BY <1>1, <1>2, <2>1, <2>2, <4>2, <5>1 DEF DeliveryStands, root, gen
      <4> QED BY <4>1, <4>2
    <3> QED BY <1>2, <3>1 DEF MissedIsTracked, Tracked
  <2> QED BY <2>4, <2>6, <2>7, <2>8, <2>9, <2>10, <2>11 DEF IInv
<1> QED BY <1>5, <1>6, <1>7

(* A generation is acknowledged when every subscription of its root heard it. *)
LEMMA EndDeliveryHolds ==
    ASSUME IInv, EndDelivery
    PROVE  IInv'
<1>1. /\ TypeOK /\ GensArePast /\ AcksAreHeard /\ OnePull /\ DeliveryStands /\ SubsAreUsed
      /\ MissedIsTracked /\ Live \subseteq Roots
  BY ScopeIsWatched DEF IInv
<1> DEFINE root == pull.root
           gen == pull.found[pull.root]
           found == [pull.found EXCEPT ![root] = 0]
<1>2. /\ pull.pc = "delivering" /\ pull.current = {}
      /\ acked' = (IF root \in pull.asked /\ AllDelivered THEN [acked EXCEPT ![root] = gen] ELSE acked)
      /\ pull' = [pull EXCEPT !.pc = "replied", !.root = NoRoot, !.todo = {}, !.found = found]
      /\ UNCHANGED <<disk, events, signals, rooted, table, worker, closing, requests, sync, sub, known, fresh>>
  <2>1. pull \in Pulls
    BY <1>1, FlightIs DEF EndDelivery, InFlight
  <2> QED BY <2>1 DEF EndDelivery, Pulls
<1>3. /\ InFlight /\ pull \in Pulls /\ root \in Roots /\ gen \in Gens
      /\ pull.found \in [Roots -> Gens]
  BY <1>1, <1>2, FlightIs DEF InFlight, DeliveryStands
<1>4. found \in [Roots -> Gens] /\ \A r \in Roots : found[r] \in {0, pull.found[r]}
  BY <1>3, GensAreNat
<1> HIDE DEF found
<1>5. /\ pull' \in Pulls /\ pull'.found = found /\ pull'.pc = "replied" /\ pull'.current = {}
  BY <1>2, <1>3, <1>4 DEF Pulls
<1>6. /\ acked' \in [Roots -> Gens]
      /\ \A r \in Roots : acked'[r] = acked[r] \/ (r = root /\ acked'[r] = gen /\ AllDelivered)
  BY <1>1, <1>2, <1>3 DEF TypeOK
<1> USE DEF signals, rooted, table
<1>7. /\ WakeIsOnItsWay' /\ ScansAreTheWorkers' /\ ClosedIsEmpty' /\ Live' = Live
      /\ \A x, g : Past(x, g)' = Past(x, g) /\ Tracked(x, g)' = Tracked(x, g)
  BY <1>2, PageFrame
<1>8. InFlight' /\ pull' # NoPull
  BY <1>5, NothingApart DEF InFlight
<1>9. TypeOK'
  BY <1>1, <1>2, <1>5, <1>6, <1>8 DEF TypeOK, States, Following
<1>10. GensArePast'
  <2>1. \A r \in Live : Past(r, acked'[r])
    BY <1>1, <1>3, <1>6 DEF GensArePast
  <2>2. \A r \in Live : Past(r, found[r])
    BY <1>1, <1>3, <1>4, ZeroIsPast DEF GensArePast
  <2> QED BY <1>1, <1>2, <1>5, <1>7, <2>1, <2>2 DEF GensArePast, Past
<1>11. AcksAreHeard'
  <2>1. \A r \in Roots : acked'[r] = 0 \/ Outdates(acked'[r], r)
    BY <1>1, <1>3, <1>6 DEF AcksAreHeard
  <2>2. \A r \in Roots : \A s \in Subs : sub[s].root = r => acked'[r] <= sub[s].last
    <3>1. ASSUME AllDelivered, NEW s \in Subs, sub[s].root = root PROVE gen <= sub[s].last
      <4>1. sub[s].last >= gen /\ sub[s].last \in Nat /\ gen \in Nat
        BY <1>1, <1>3, <3>1, GensAreNat DEF AllDelivered, Following, TypeOK
      <4> QED BY <4>1
    <3> QED BY <1>1, <1>6, <3>1 DEF AcksAreHeard
  <2>3. \A r \in Roots : found[r] = 0 \/ Outdates(found[r], r)
    BY <1>1, <1>3, <1>4 DEF AcksAreHeard
  <2> QED BY <1>1, <1>2, <1>5, <2>1, <2>2, <2>3 DEF AcksAreHeard, Outdates
<1>12. OnePull'
  BY <1>1, <1>2, <1>5 DEF OnePull
<1>13. DeliveryStands' /\ SubsAreUsed'
  BY <1>1, <1>2, <1>5 DEF DeliveryStands, SubsAreUsed
<1>14. MissedIsTracked'
  BY <1>1, <1>2, <1>7 DEF MissedIsTracked, Tracked
<1> QED BY <1>7, <1>9, <1>10, <1>11, <1>12, <1>13, <1>14 DEF IInv

(* A page with subscriptions pulls again.                                     *)
LEMMA EndPullHolds ==
    ASSUME IInv, EndPull
    PROVE  IInv'
<1>1. /\ TypeOK /\ GensArePast /\ AcksAreHeard /\ OnePull /\ DeliveryStands /\ SubsAreUsed
      /\ MissedIsTracked
  BY DEF IInv
<1> USE DEF signals, rooted, table
<1>2. /\ pull.pc = "replied"
      /\ pull' \in {NoPull, [pc |-> "scheduled"]} /\ (States # {} => pull' # NoPull)
      /\ UNCHANGED <<disk, events, signals, rooted, table, worker, closing, requests, sync,
                     sub, acked, known, fresh>>
  BY NothingApart DEF EndPull
<1>3. WakeIsOnItsWay' /\ ScansAreTheWorkers' /\ ClosedIsEmpty'
  BY <1>2, PageFrame
<1>4. ~InFlight' /\ pull'.pc \in {"idle", "scheduled"}
  BY <1>2, NothingApart DEF InFlight
<1>5. TypeOK'
  BY <1>1, <1>2 DEF TypeOK, States, Following
<1>6. GensArePast'
  BY <1>1, <1>2, <1>4 DEF GensArePast, Past, Live
<1>7. AcksAreHeard' /\ OnePull'
  BY <1>1, <1>2, <1>4 DEF AcksAreHeard, Outdates, OnePull
<1>8. DeliveryStands' /\ SubsAreUsed' /\ MissedIsTracked'
  BY <1>1, <1>2, <1>4 DEF DeliveryStands, SubsAreUsed, MissedIsTracked, Tracked
<1> QED BY <1>3, <1>5, <1>6, <1>7, <1>8 DEF IInv

-----------------------------------------------------------------------------
(* The theorems *)

(* Nothing is authorized, and no page has subscribed.                         *)
LEMMA InitHolds == Init => IInv
<1> SUFFICES ASSUME Init PROVE IInv
  OBVIOUS
<1> USE DEF Init
<1>1. 0 \in Gens /\ 1 \in Gens /\ 0 \in 0..MaxChanges
  BY BoundsAreNat DEF Gens
<1>2. /\ \A s \in Subs : sub[s] = NoSub /\ sub[s].root = NoRoot
      /\ sub \in [Subs -> [root : Roots \cup {NoRoot}, last : Gens, seen : 0..MaxChanges]]
  BY <1>1 DEF NoSub
<1>3. States = {}
  BY <1>2, NoRootIsNone DEF States, Following
<1>4. TypeOK
  <2>1. worker \in Workers
    BY DEF Workers
  <2> QED BY <1>1, <1>2, <1>3, <2>1 DEF TypeOK
<1>5. WakeIsOnItsWay /\ ScansAreTheWorkers /\ ClosedIsEmpty
  BY DEF WakeIsOnItsWay, ScansAreTheWorkers, ClosedIsEmpty, Shut
<1>6. ~InFlight
  BY NothingApart DEF InFlight
<1>7. GensArePast
  <2>1. \A r \in Roots : nextGen[r] # 0 /\ Past(r, 0)
    BY BoundsAreNat DEF Past
  <2>2. \A r \in Live : r \in Roots /\ r # NoRoot
    BY NoRootIsNone DEF Live
  <2> QED BY <1>2, <1>6, <2>1, <2>2 DEF GensArePast
<1>8. AcksAreHeard /\ OnePull
  BY <1>2, <1>6, NoRootIsNone DEF AcksAreHeard, OnePull
<1>9. DeliveryStands /\ SubsAreUsed /\ MissedIsTracked
  BY <1>2, <1>6, NothingApart DEF DeliveryStands, SubsAreUsed, MissedIsTracked
<1> QED BY <1>4, <1>5, <1>7, <1>8, <1>9 DEF IInv

(* A step that changes nothing.                                               *)
LEMMA StutterHolds ==
    ASSUME IInv, UNCHANGED vars
    PROVE  IInv'
<1> USE DEF vars, signals, rooted, table, page
<1>1. TypeOK'
  BY DEF IInv, TypeOK, States, Following
<1>2. WakeIsOnItsWay' /\ ScansAreTheWorkers' /\ ClosedIsEmpty'
  BY PageFrame
<1>3. GensArePast'
  BY DEF IInv, GensArePast, Past, Live, InFlight
<1>4. AcksAreHeard' /\ OnePull'
  BY DEF IInv, AcksAreHeard, Outdates, InFlight, OnePull
<1>5. DeliveryStands' /\ SubsAreUsed' /\ MissedIsTracked'
  BY DEF IInv, DeliveryStands, InFlight, Following, SubsAreUsed, MissedIsTracked, Tracked
<1> QED BY <1>1, <1>2, <1>3, <1>4, <1>5 DEF IInv

(* The invariant is inductive: one case per action.                           *)
LEMMA StepHolds == IInv /\ [Next]_vars => IInv'
<1> SUFFICES ASSUME IInv, [Next]_vars PROVE IInv'
  OBVIOUS
<1>1. CASE Callbacks \/ Resume
  BY <1>1, CallbackHolds DEF Callbacks
<1>2. CASE WorkerStep
  BY <1>2, WorkerHolds, CollectHolds, FinishHolds DEF WorkerStep
<1>3. CASE ScanSome
  BY <1>3, ScanHolds DEF ScanSome
<1>4. CASE SyncStep
  BY <1>4, SyncGoesOn, EndSyncHolds, BeginSyncHolds DEF SyncStep
<1>5. CASE CloseStep
  BY <1>5, CloseHolds
<1>6. CASE PullStep
  BY <1>6, PullHolds, EndDeliveryHolds, EndPullHolds, DeliverHolds, CallHolds DEF PullStep
<1>7. ASSUME NEW s \in Subs, NEW ok \in BOOLEAN, ListenerReturns(s, ok) PROVE IInv'
  BY <1>7, ReturnHolds
<1>8. ASSUME NEW r \in Roots, Change(r) \/ AddRoot(r) \/ RemoveRoot(r) PROVE IInv'
  BY <1>8, ChangeHolds, RootHolds
<1>9. CASE CloseWorkspace \/ Reload
  BY <1>9, GoneHolds
<1>10. CASE ReconcileRoots \/ \E s \in Subs : Unsubscribe(s)
  BY <1>10, EndOfSubsHolds
<1>11. ASSUME NEW s \in Subs, NEW r \in Roots, WorkspaceWatch(s, r) PROVE IInv'
  BY <1>11, WatchHolds
<1>12. CASE UNCHANGED vars
  BY <1>12, StutterHolds
<1> QED BY <1>1, <1>2, <1>3, <1>4, <1>5, <1>6, <1>7, <1>8, <1>9, <1>10, <1>11, <1>12 DEF Next

(* What the theorems below rest on.                                           *)
LEMMA Inductive == Spec => []IInv
BY InitHolds, StepHolds, PTL DEF Spec

(* The watcher's table, the queues to and from the page and what the page     *)
(* knows stay well formed, and a page that follows a root pulls.              *)
THEOREM TypeCorrect == Spec => []TypeOK
<1>1. IInv => TypeOK
  BY DEF IInv
<1> QED BY <1>1, Inductive, PTL

(* RootSignal, run_worker, WindowWatcher::sync and workspace-watcher.ts lose  *)
(* no change between them: what a subscription has not read leads to it, and  *)
(* a flag that is up has its wake-up.                                         *)
THEOREM NothingIsForgotten == Spec => []NothingForgotten
<1>1. ASSUME IInv PROVE NoLostWake
  BY <1>1 DEF IInv, WakeIsOnItsWay, NoLostWake
<1>2. ASSUME IInv PROVE UnseenIsTracked
  <2>1. ASSUME NEW s \in Subs, sub[s].root \in scope, sub[s].seen < disk[sub[s].root],
               acked[sub[s].root] # 0
        PROVE  Tracked(sub[s].root, sub[s].last)
    <3>1. sub[s].root \in Roots /\ acked[sub[s].root] \in Nat /\ sub[s].last \in Nat
      BY <1>2, <2>1, GensAreNat DEF IInv, TypeOK
    <3>2. acked[sub[s].root] <= sub[s].last
      BY <1>2, <3>1 DEF IInv, AcksAreHeard
    <3>3. sub[s].last # 0
      BY <2>1, <3>1, <3>2
    <3> QED BY <1>2, <2>1, <3>3 DEF IInv, MissedIsTracked
  <2> QED BY <2>1 DEF UnseenIsTracked, Tracked
<1>3. IInv => NothingForgotten
  BY <1>1, <1>2 DEF NothingForgotten
<1> QED BY <1>3, Inductive, PTL
=============================================================================
