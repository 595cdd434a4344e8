---------------------------- MODULE RemoteSession ----------------------------
(* The SSH sessions of a window to one host, and the page's remote roots that  *)
(* live on them (remote/session.rs, plain-remote-host-key-confirmation.ts,     *)
(* plain-remote-workspace-commands.ts).                                        *)
(*                                                                             *)
(* An attempt is one resolveRemoteSessionConnect: a first connect, the dialog  *)
(* that shows an unknown key, and the connect that follows its confirmation.   *)
(* It also names the session it may become.  SSH itself is external: a         *)
(* handshake presents any key, and a transport may end at any moment.  A       *)
(* cancelled connect is one of those that fail; its flag is left out.          *)
EXTENDS Naturals, FiniteSets, Sequences

CONSTANTS
    Attempts,    \* attempts to connect, and the ids of the sessions they become
    Keys,        \* host keys the server may present
    Roots,       \* remote folders of the window
    None,        \* no key, no root, no record
    MaxSessions  \* MAX_REMOTE_SESSIONS_PER_WINDOW

ASSUME NoneIsApart == None \notin Attempts \cup Keys \cup Roots
ASSUME LimitIsPositive == MaxSessions \in Nat \ {0}

VARIABLES
    \* native
    table,      \* the sessions listed for the window
    pinned,     \* the host's entry in the known-hosts store
    conn,       \* per attempt: where it is, and what it goes by
    key,        \* per session, the key its handshake matched
    transport,  \* per session
    permit,     \* sessions whose `ended` holds a permit
    monitor,    \* per session, its reactive-disconnect task
    discon,     \* per session, its remote_session_disconnect
    wire,       \* Disconnected events on their way to the page
    \* page
    window,     \* is the window there
    rec,        \* knownRemoteRoots
    job,        \* per root, the add or reconnect that is being awaited
    \* history
    confirmed,  \* keys the user agreed to in a dialog that showed them
    told        \* per session, how often its end was reported

link == <<key, transport, permit>>
ends == <<monitor, discon, wire, told>>
page == <<window, rec, job>>
vars == <<table, pinned, conn, link, ends, page, confirmed>>

NewAttempt == [pc |-> "idle", goal |-> None, expected |-> None, shown |-> None]

(* A pin of an earlier run was confirmed then.                                *)
Init ==
    /\ table = {} /\ pinned \in Keys \cup {None}
    /\ conn = [a \in Attempts |-> NewAttempt]
    /\ key = [a \in Attempts |-> None]
    /\ transport = [a \in Attempts |-> "none"] /\ permit = {}
    /\ monitor = [a \in Attempts |-> "none"] /\ discon = [a \in Attempts |-> "none"]
    /\ wire = <<>> /\ told = [a \in Attempts |-> 0]
    /\ window = "open" /\ rec = [r \in Roots |-> None] /\ job = [r \in Roots |-> None]
    /\ confirmed = {pinned} \ {None}

Goto(a, pc) == conn' = [conn EXCEPT ![a].pc = pc]

Over(a) == conn' = [conn EXCEPT ![a] = [NewAttempt EXCEPT !.pc = "over"]]

-----------------------------------------------------------------------------
(* Connecting *)

(* session_capacity_gate: what is being connected does not count.             *)
HasRoom == Cardinality(table) < MaxSessions

(* The first connect: for nothing yet, or for a root that lost its session.   *)
Connect(a, goal) ==
    /\ conn[a].pc = "idle" /\ window = "open"
    /\ goal # None => rec[goal] # None /\ rec[goal].disconnected
    /\ IF HasRoom THEN conn' = [conn EXCEPT ![a].pc = "looking", ![a].goal = goal]
                  ELSE Over(a)
    /\ UNCHANGED <<table, pinned, link, ends, page, confirmed>>

(* lookup_host_key answers.                                                   *)
LooksUp(a) ==
    /\ conn[a].pc = "looking"
    /\ conn' = [conn EXCEPT ![a].pc = "handshake", ![a].expected = pinned]
    /\ UNCHANGED <<table, pinned, link, ends, page, confirmed>>

(* Cancelled, timed out, refused by the server or by the agent, or the key    *)
(* differs from the pinned one: the transport is shut down.                   *)
ConnectFails(a) ==
    /\ conn[a].pc \in {"handshake", "auth"}
    /\ Over(a)
    /\ transport' = [transport EXCEPT ![a] = IF @ = "open" THEN "ended" ELSE @]
    /\ UNCHANGED <<table, pinned, key, permit, ends, page, confirmed>>

(* mutant: an unknown key is accepted                                         *)
KeyUnknownAccepted(a, k) ==
    /\ conn[a].pc = "handshake" /\ conn[a].expected = None
    /\ Goto(a, "auth") /\ transport' = [transport EXCEPT ![a] = "open"]
    /\ UNCHANGED <<table, pinned, key, permit, ends, page, confirmed>>

(* check_server_key with nothing pinned: the handshake ends, and the page     *)
(* shows the key unless it has already asked.                                 *)
KeyUnknown(a, k) ==
    /\ conn[a].pc = "handshake" /\ conn[a].expected = None
    /\ IF conn[a].shown # None THEN Over(a)
       ELSE conn' = [conn EXCEPT ![a].pc = "dialog", ![a].shown = k]
    /\ UNCHANGED <<table, pinned, link, ends, page, confirmed>>

(* mutant: any pinned entry is taken for a match                              *)
MatchesAny(a, k) == conn[a].expected # None

Matches(a, k) == k = conn[a].expected

KeyAccepted(a, k) ==
    /\ conn[a].pc = "handshake" /\ Matches(a, k)
    /\ conn' = [conn EXCEPT ![a].pc = "auth", ![a].expected = None, ![a].shown = None]
    /\ key' = [key EXCEPT ![a] = k]
    /\ transport' = [transport EXCEPT ![a] = "open"]
    /\ UNCHANGED <<table, pinned, permit, ends, page, confirmed>>

(* Authenticated: the session is listed, though the window may have filled up *)
(* or gone since the gate was passed.                                         *)
Inserts(a) ==
    /\ conn[a].pc = "auth"
    /\ Goto(a, "inserted")
    /\ table' = table \cup {a}
    /\ monitor' = [monitor EXCEPT ![a] = "spawned"]
    /\ UNCHANGED <<pinned, link, discon, wire, told, page, confirmed>>

ConnectReturns(a) ==
    /\ conn[a].pc = "inserted"
    /\ Goto(a, "connected")
    /\ UNCHANGED <<table, pinned, link, ends, page, confirmed>>

(* The dialog: confirm_host_key is asked for the key it showed, or nothing.   *)
Confirms(a) ==
    /\ conn[a].pc = "dialog" /\ window = "open"
    /\ IF HasRoom THEN Goto(a, "pinning") ELSE Over(a)
    /\ confirmed' = confirmed \cup {conn[a].shown}
    /\ UNCHANGED <<table, pinned, link, ends, page>>

Declines(a) ==
    /\ conn[a].pc = "dialog" /\ window = "open"
    /\ Over(a)
    /\ UNCHANGED <<table, pinned, link, ends, page, confirmed>>

Pins(a) ==
    /\ conn[a].pc = "pinning"
    /\ Goto(a, "looking") /\ pinned' = conn[a].shown
    /\ UNCHANGED <<table, link, ends, page, confirmed>>

Forget ==
    /\ window = "open" /\ pinned # None
    /\ pinned' = None
    /\ UNCHANGED <<table, conn, link, ends, page, confirmed>>

-----------------------------------------------------------------------------
(* How a session ends *)

(* mutant: notify_waiters, which keeps no permit                              *)
TransportEndsUnheard(s) ==
    /\ transport[s] = "open"
    /\ transport' = [transport EXCEPT ![s] = "ended"]
    /\ permit' = IF monitor[s] = "waiting" THEN permit \cup {s} ELSE permit
    /\ UNCHANGED <<table, pinned, conn, key, ends, page, confirmed>>

(* RemoteClientHandler::disconnected: the network, the server, the disconnect *)
(* message or the drop of the last handle ended it; notify_one keeps a permit. *)
TransportEnds(s) ==
    /\ transport[s] = "open"
    /\ transport' = [transport EXCEPT ![s] = "ended"]
    /\ permit' = permit \cup {s}
    /\ UNCHANGED <<table, pinned, conn, key, ends, page, confirmed>>

MonitorWaits(s) ==
    /\ monitor[s] = "spawned"
    /\ monitor' = [monitor EXCEPT ![s] = "waiting"]
    /\ UNCHANGED <<table, pinned, conn, link, discon, wire, told, page, confirmed>>

(* mutant: the record is not asked for before the end is reported             *)
MonitorWakesAlways(s) ==
    /\ monitor[s] = "waiting" /\ s \in permit
    /\ permit' = permit \ {s} /\ table' = table \ {s}
    /\ monitor' = [monitor EXCEPT ![s] = "emitting"]
    /\ UNCHANGED <<pinned, conn, key, transport, discon, wire, told, page, confirmed>>

(* The task removes the session; if it was no longer listed, its end is known. *)
MonitorWakes(s) ==
    /\ monitor[s] = "waiting" /\ s \in permit
    /\ permit' = permit \ {s} /\ table' = table \ {s}
    /\ monitor' = [monitor EXCEPT ![s] = IF s \in table THEN "emitting" ELSE "done"]
    /\ UNCHANGED <<pinned, conn, key, transport, discon, wire, told, page, confirmed>>

Reports(s, reason) ==
    /\ wire' = IF window = "open" THEN Append(wire, [session |-> s, reason |-> reason])
                                  ELSE wire
    /\ told' = [told EXCEPT ![s] = @ + 1]

MonitorEmits(s) ==
    /\ monitor[s] = "emitting"
    /\ monitor' = [monitor EXCEPT ![s] = "done"]
    /\ Reports(s, "transportClosed")
    /\ UNCHANGED <<table, pinned, conn, link, discon, page, confirmed>>

(* remote_session_disconnect: unlisted, then shut down, then reported.        *)
Disconnect(s) ==
    /\ window = "open" /\ s \in table
    /\ table' = table \ {s}
    /\ discon' = [discon EXCEPT ![s] = "shutting"]
    /\ UNCHANGED <<pinned, conn, link, monitor, wire, told, page, confirmed>>

DisconnectEnds(s) ==
    /\ discon[s] = "shutting"
    /\ discon' = [discon EXCEPT ![s] = "done"]
    /\ Reports(s, "userRequested")
    /\ UNCHANGED <<table, pinned, conn, link, monitor, page, confirmed>>

(* WindowEvent::Destroyed: close_window drops what is listed; the page is gone. *)
CloseWindow ==
    /\ window = "open"
    /\ window' = "gone" /\ table' = {} /\ wire' = <<>>
    /\ job' = [r \in Roots |-> None]
    /\ UNCHANGED <<pinned, conn, link, monitor, discon, told, rec, confirmed>>

-----------------------------------------------------------------------------
(* The page's remote roots *)

(* applyRemoteSessionDisconnectedEvent                                        *)
Marked(e) ==
    [r \in Roots |->
        IF rec[r] # None /\ e.reason = "transportClosed" /\ rec[r].session = e.session
        THEN [rec[r] EXCEPT !.disconnected = TRUE] ELSE rec[r]]

Dispatch ==
    /\ wire # <<>>
    /\ rec' = Marked(Head(wire)) /\ wire' = Tail(wire)
    /\ UNCHANGED <<table, pinned, conn, link, monitor, discon, told, window, job, confirmed>>

Asked(r, s) == job' = [job EXCEPT ![r] = [session |-> s, stage |-> "asked"]]

(* mountRemoteRoot, on a session remote_session_state lists or that was just  *)
(* connected.                                                                 *)
Mount(r, s) ==
    /\ window = "open" /\ rec[r] = None /\ job[r] = None
    /\ \/ s \in table
       \/ conn[s].pc = "connected" /\ conn[s].goal = None
    /\ Asked(r, s)
    /\ UNCHANGED <<table, pinned, conn, link, ends, window, rec, confirmed>>

(* runReconnectRemoteSession, once its connect has returned.                  *)
Rebind(r, s) ==
    /\ window = "open" /\ rec[r] # None /\ job[r] = None
    /\ conn[s].pc = "connected" /\ conn[s].goal = r
    /\ conn' = [conn EXCEPT ![s].goal = None]
    /\ Asked(r, s)
    /\ UNCHANGED <<table, pinned, link, ends, window, rec, confirmed>>

(* canonicalize_for_root asks the server, over a session that is listed and,  *)
(* for a reconnect, speaks for the host the root was authorized under.        *)
Resolves(r) ==
    /\ job[r] # None /\ job[r].stage = "asked"
    /\ job[r].session \in table /\ transport[job[r].session] = "open"
    /\ rec[r] # None => key[job[r].session] = rec[r].key
    /\ job' = [job EXCEPT ![r].stage = "resolved"]
    /\ UNCHANGED <<table, pinned, conn, link, ends, window, rec, confirmed>>

(* remote_workspace_add_root looks for the session again before it authorizes *)
(* the root; remote_workspace_reconnect_root binds the root without.          *)
Granted(r) ==
    /\ job[r] # None /\ job[r].stage = "resolved"
    /\ rec[r] # None \/ job[r].session \in table
    /\ job' = [job EXCEPT ![r].stage = "granted"]
    /\ UNCHANGED <<table, pinned, conn, link, ends, window, rec, confirmed>>

(* The session is not listed, speaks for another host or fails to answer; or  *)
(* a new root was authorized, and the list of recent ones could not be kept.  *)
Refused(r) ==
    /\ job[r] # None /\ (job[r].stage # "granted" \/ rec[r] = None)
    /\ job' = [job EXCEPT ![r] = None]
    /\ UNCHANGED <<table, pinned, conn, link, ends, window, rec, confirmed>>

(* The page hears of it and records the root as live, whatever it was told    *)
(* of the session in the meantime.                                            *)
Records(r) ==
    /\ job[r] # None /\ job[r].stage = "granted"
    /\ rec' = [rec EXCEPT ![r] = [session |-> job[r].session, key |-> key[job[r].session],
                                  disconnected |-> FALSE]]
    /\ job' = [job EXCEPT ![r] = None]
    /\ UNCHANGED <<table, pinned, conn, link, ends, window, confirmed>>

-----------------------------------------------------------------------------
Native(a) ==
    \/ LooksUp(a) \/ ConnectFails(a) \/ Inserts(a) \/ ConnectReturns(a) \/ Pins(a)
    \/ \E k \in Keys : KeyUnknown(a, k) \/ KeyAccepted(a, k)

Next ==
    \/ \E a \in Attempts :
         \/ \E goal \in Roots \cup {None} : Connect(a, goal)
         \/ Native(a) \/ Confirms(a) \/ Declines(a)
         \/ TransportEnds(a) \/ Disconnect(a) \/ DisconnectEnds(a)
         \/ MonitorWaits(a) \/ MonitorWakes(a) \/ MonitorEmits(a)
         \/ \E r \in Roots : Mount(r, a) \/ Rebind(r, a)
    \/ \E r \in Roots : Resolves(r) \/ Granted(r) \/ Refused(r) \/ Records(r)
    \/ Dispatch \/ Forget \/ CloseWindow

(* Tasks that can run do, and events are dispatched.                          *)
Fairness ==
    /\ WF_vars(Dispatch)
    /\ \A s \in Attempts :
         WF_vars(MonitorWaits(s)) /\ WF_vars(MonitorWakes(s)) /\ WF_vars(MonitorEmits(s))

Spec == Init /\ [][Next]_vars
FairSpec == Spec /\ Fairness

-----------------------------------------------------------------------------
(* Properties *)

States == [pc : {"idle", "looking", "handshake", "dialog", "pinning", "auth", "inserted",
                 "connected", "over"},
           goal : Roots \cup {None}, expected : Keys \cup {None}, shown : Keys \cup {None}]
Events == [session : Attempts, reason : {"transportClosed", "userRequested"}]
Recorded == [session : Attempts, key : Keys, disconnected : BOOLEAN]
Jobs == [session : Attempts, stage : {"asked", "resolved", "granted"}]

TypeOK ==
    /\ table \subseteq Attempts /\ pinned \in Keys \cup {None}
    /\ conn \in [Attempts -> States]
    /\ key \in [Attempts -> Keys \cup {None}]
    /\ transport \in [Attempts -> {"none", "open", "ended"}] /\ permit \subseteq Attempts
    /\ monitor \in [Attempts -> {"none", "spawned", "waiting", "emitting", "done"}]
    /\ discon \in [Attempts -> {"none", "shutting", "done"}]
    /\ wire \in Seq(Events)
    /\ told \in [Attempts -> Nat] /\ confirmed \subseteq Keys
    /\ window \in {"open", "gone"}
    /\ rec \in [Roots -> Recorded \cup {None}] /\ job \in [Roots -> Jobs \cup {None}]
    /\ \A s \in table : key[s] # None /\ monitor[s] \in {"spawned", "waiting"}

(* The agent signs for, and a session is opened with, only a key the user has *)
(* agreed to: another attempt may pin, and the user forget, any key while     *)
(* this one waits for its lookup, its handshake or its dialog.                *)
KeyWasConfirmed == \A a \in Attempts : transport[a] # "none" => key[a] \in confirmed

(* However a session ends, the page is told at most once, and never of one    *)
(* that is still listed; a root offered for reconnection has really lost its  *)
(* session, and no event of an older one marks it.                            *)
OneEndPerSession == \A s \in Attempts : told[s] <= 1 /\ (told[s] = 1 => s \notin table)
OnlyDeadReconnect ==
    \A r \in Roots : rec[r] # None /\ rec[r].disconnected => rec[r].session \notin table
EndsAreTrue == OneEndPerSession /\ OnlyDeadReconnect

(* A root recorded while its session was listed learns that the transport     *)
(* ended, also when that was before the monitor first waited, unless the user *)
(* disconnects it.                                                            *)
LiveOn(r, s) == rec[r] # None /\ rec[r].session = s /\ ~rec[r].disconnected
RootLearnsOfTheEnd ==
    \A r \in Roots, s \in Attempts :
        (LiveOn(r, s) /\ s \in table /\ transport[s] = "ended") ~>
            (~LiveOn(r, s) \/ discon[s] # "none" \/ window = "gone")

-----------------------------------------------------------------------------
(* What comments say and the code does not keep *)

(* dto.rs: "Every window may hold at most this many live SSH sessions at once". *)
CapacityHeld == Cardinality(table) <= MaxSessions

(* handleRemoteSessionEventForWorkspaceLifecycle: "keep knownRemoteRoots      *)
(* accurate".  With nothing on its way, a root believed live has a session.   *)
RootsKnowTheirEnd ==
    \A r \in Roots :
        rec[r] # None /\ ~rec[r].disconnected /\ window = "open" =>
            LET s == rec[r].session
            IN s \in table \/ discon[s] # "none" \/ monitor[s] = "emitting"
               \/ \E i \in DOMAIN wire : wire[i].session = s
=============================================================================
