------------------------- MODULE RemoteSessionProofs -------------------------
(* Theorems about RemoteSession, for any number of attempts, keys and roots.   *)
EXTENDS RemoteSession, TLAPS

(* A key the user never saw is nowhere an attempt could take it from.          *)
KeysComeFromTheUser ==
    /\ pinned \in confirmed \cup {None}
    /\ \A a \in Attempts :
         /\ conn[a].expected \in confirmed \cup {None}
         /\ conn[a].pc = "dialog" => conn[a].shown # None
         /\ conn[a].pc = "pinning" => conn[a].shown \in confirmed
         /\ transport[a] # "none" => key[a] \in confirmed

(* A session has no past before it is listed.                                  *)
Early == {"idle", "looking", "handshake", "dialog", "pinning", "auth"}
Unborn(a) == a \notin table /\ monitor[a] = "none" /\ discon[a] = "none" /\ told[a] = 0

(* Who may report the end of a session: nobody else has, or will.              *)
OneReporter ==
    \A a \in Attempts :
        /\ conn[a].pc \in Early => Unborn(a)
        /\ conn[a].pc = "auth" => key[a] # None
        /\ a \in table => told[a] = 0 /\ discon[a] = "none"
        /\ monitor[a] = "emitting" => told[a] = 0 /\ a \notin table /\ discon[a] = "none"
        /\ discon[a] = "shutting" => told[a] = 0 /\ a \notin table
        /\ told[a] <= 1

(* What is on its way to the page, or has arrived there, was reported.         *)
PageWasTold ==
    /\ \A i \in DOMAIN wire : told[wire[i].session] = 1
    /\ \A r \in Roots : rec[r] # None /\ rec[r].disconnected => told[rec[r].session] = 1
    /\ \A r \in Roots : job[r] # None /\ job[r].stage # "asked" => key[job[r].session] # None

IInv == TypeOK /\ KeysComeFromTheUser /\ OneReporter /\ PageWasTold
-----------------------------------------------------------------------------
(* Steps of one attempt *)

(* What a step of one attempt leaves alone.                                    *)
OnlyMoves(a) == conn' \in [Attempts -> States] /\ \A b \in Attempts : b # a => conn'[b] = conn[b]

(* One attempt gets a new state.                                              *)
LEMMA AttemptMoves ==
    ASSUME TypeOK, NEW a \in Attempts, NEW s \in States, conn' = [conn EXCEPT ![a] = s]
    PROVE  OnlyMoves(a) /\ conn'[a] = s
BY DEF TypeOK, OnlyMoves

(* One attempt goes on and keeps its keys.                                    *)
LEMMA GotoMoves ==
    ASSUME TypeOK, NEW a \in Attempts, Goto(a, "pinning") \/ Goto(a, "looking") \/ Goto(a, "inserted")
                                       \/ Goto(a, "connected")
    PROVE  /\ OnlyMoves(a)
           /\ conn'[a].expected = conn[a].expected /\ conn'[a].shown = conn[a].shown
           /\ \A pc : Goto(a, pc) => conn'[a].pc = pc
<1>1. ASSUME NEW pc \in {"pinning", "looking", "inserted", "connected"}, Goto(a, pc)
      PROVE  /\ OnlyMoves(a)
             /\ conn'[a].expected = conn[a].expected /\ conn'[a].shown = conn[a].shown
  <2>1. conn[a] \in States
    BY DEF TypeOK
  <2>2. [conn[a] EXCEPT !.pc = pc] \in States
    BY <2>1 DEF States
  <2>3. conn' = [conn EXCEPT ![a] = [conn[a] EXCEPT !.pc = pc]]
    BY <1>1 DEF Goto
  <2>4. OnlyMoves(a) /\ conn'[a] = [conn[a] EXCEPT !.pc = pc]
    BY <2>2, <2>3, AttemptMoves
  <2> QED BY <2>1, <2>4 DEF States
<1>2. \A pc : Goto(a, pc) => conn'[a].pc = pc
  BY DEF Goto, TypeOK, States
<1> QED BY <1>1, <1>2

(* One attempt is over and forgets its keys.                                  *)
LEMMA OverMoves ==
    ASSUME TypeOK, NEW a \in Attempts, Over(a)
    PROVE  /\ OnlyMoves(a)
           /\ conn'[a].pc = "over" /\ conn'[a].expected = None
<1>1. [NewAttempt EXCEPT !.pc = "over"] = [pc |-> "over", goal |-> None, expected |-> None, shown |-> None]
  BY DEF NewAttempt
<1>2. [NewAttempt EXCEPT !.pc = "over"] \in States
  BY <1>1 DEF States
<1> QED BY <1>1, <1>2, AttemptMoves DEF Over

(* An attempt that fails, or waits for something, upsets nothing.              *)
LEMMA Harmless ==
    ASSUME IInv, NEW a \in Attempts, OnlyMoves(a),
           conn'[a].pc \in Early => conn[a].pc \in Early,
           conn'[a].pc \notin {"dialog", "pinning", "auth"},
           conn'[a].expected \in confirmed \cup {None},
           UNCHANGED <<table, pinned, link, ends, page, confirmed>>
    PROVE  IInv'
<1> USE DEF IInv, link, ends, page
<1>1. TypeOK'
  BY DEF TypeOK, OnlyMoves
<1>2. KeysComeFromTheUser'
  BY DEF KeysComeFromTheUser, OnlyMoves
<1>3. OneReporter' /\ PageWasTold'
  BY DEF OneReporter, PageWasTold, OnlyMoves, Unborn
<1> QED BY <1>1, <1>2, <1>3

(* What a connect, its dialog and its native half do keeps the invariant.     *)
LEMMA AttemptStep ==
    ASSUME IInv, NEW a \in Attempts,
           \/ \E goal \in Roots \cup {None} : Connect(a, goal)
           \/ Native(a) \/ Confirms(a) \/ Declines(a)
    PROVE  IInv'
<1> USE DEF IInv, link, ends, page
<1>1. conn[a] \in States
  BY DEF TypeOK
<1>2. ASSUME NEW goal \in Roots \cup {None}, Connect(a, goal) PROVE IInv'
  <2>1. CASE Over(a)
    BY <1>2, <2>1, OverMoves, Harmless DEF Connect, Early
  <2>2. CASE conn' = [conn EXCEPT ![a].pc = "looking", ![a].goal = goal]
    <3> DEFINE st == [conn[a] EXCEPT !.pc = "looking", !.goal = goal]
    <3>1. st \in States /\ st.pc = "looking" /\ st.expected = conn[a].expected
      BY <1>1 DEF States
    <3>2. conn' = [conn EXCEPT ![a] = st]
      BY <2>2 DEF TypeOK
    <3>3. OnlyMoves(a) /\ conn'[a].pc = "looking" /\ conn'[a].expected = conn[a].expected
      BY <3>1, <3>2, AttemptMoves
    <3>4. conn[a].pc = "idle" /\ UNCHANGED <<table, pinned, link, ends, page, confirmed>>
      BY <1>2 DEF Connect
    <3> QED BY <3>3, <3>4, Harmless DEF Early, KeysComeFromTheUser
  <2> QED BY <1>2, <2>1, <2>2 DEF Connect
<1>3. CASE LooksUp(a)
  <2> DEFINE st == [conn[a] EXCEPT !.pc = "handshake", !.expected = pinned]
  <2>1. st \in States /\ st.pc = "handshake" /\ st.expected = pinned
    BY <1>1 DEF States, TypeOK
  <2>2. conn' = [conn EXCEPT ![a] = st]
    BY <1>3 DEF TypeOK, LooksUp
  <2>3. OnlyMoves(a) /\ conn'[a].pc = "handshake" /\ conn'[a].expected = pinned
    BY <2>1, <2>2, AttemptMoves
  <2>4. conn[a].pc = "looking" /\ UNCHANGED <<table, pinned, link, ends, page, confirmed>>
    BY <1>3 DEF LooksUp
  <2> QED BY <2>3, <2>4, Harmless DEF Early, KeysComeFromTheUser
<1>4. CASE ConnectFails(a)
  <2>1. OnlyMoves(a) /\ conn'[a].pc = "over" /\ conn'[a].expected = None
    BY <1>4, OverMoves DEF ConnectFails
  <2>2. /\ transport' \in [Attempts -> {"none", "open", "ended"}]
        /\ \A b \in Attempts : transport'[b] # "none" => transport[b] # "none"
        /\ UNCHANGED <<table, pinned, key, permit, ends, page, confirmed>>
    BY <1>4 DEF ConnectFails, TypeOK
  <2>3. TypeOK'
    BY <2>1, <2>2 DEF TypeOK, OnlyMoves
  <2>4. KeysComeFromTheUser'
    BY <2>1, <2>2 DEF KeysComeFromTheUser, OnlyMoves
  <2>5. OneReporter' /\ PageWasTold'
    BY <2>1, <2>2 DEF OneReporter, PageWasTold, OnlyMoves, Unborn, Early
  <2> QED BY <2>3, <2>4, <2>5
<1>5. ASSUME NEW k \in Keys, KeyUnknown(a, k) PROVE IInv'
  <2>1. CASE Over(a)
    BY <1>5, <2>1, OverMoves, Harmless DEF KeyUnknown, Early
  <2>2. CASE conn' = [conn EXCEPT ![a].pc = "dialog", ![a].shown = k]
    <3> DEFINE st == [conn[a] EXCEPT !.pc = "dialog", !.shown = k]
    <3>1. st \in States /\ st.pc = "dialog" /\ st.expected = conn[a].expected /\ st.shown = k
      BY <1>1 DEF States
    <3>2. conn' = [conn EXCEPT ![a] = st]
      BY <2>2 DEF TypeOK
    <3>3. OnlyMoves(a) /\ conn'[a].pc = "dialog" /\ conn'[a].expected = conn[a].expected /\ conn'[a].shown = k
      BY <3>1, <3>2, AttemptMoves
    <3>4. conn[a].pc = "handshake" /\ UNCHANGED <<table, pinned, link, ends, page, confirmed>>
      BY <1>5 DEF KeyUnknown
    <3>5. k # None
      BY NoneIsApart
    <3>6. TypeOK'
      BY <3>3, <3>4 DEF TypeOK, OnlyMoves
    <3>7. KeysComeFromTheUser'
      BY <3>3, <3>4, <3>5 DEF KeysComeFromTheUser, OnlyMoves
    <3>8. OneReporter' /\ PageWasTold'
      BY <3>3, <3>4 DEF OneReporter, PageWasTold, OnlyMoves, Unborn, Early
    <3> QED BY <3>6, <3>7, <3>8
  <2> QED BY <1>5, <2>1, <2>2 DEF KeyUnknown
<1>6. ASSUME NEW k \in Keys, KeyAccepted(a, k) PROVE IInv'
  <2> DEFINE st == [conn[a] EXCEPT !.pc = "auth", !.expected = None, !.shown = None]
  <2>1. st \in States /\ st.pc = "auth" /\ st.expected = None
    BY <1>1 DEF States
  <2>2. conn' = [conn EXCEPT ![a] = st]
    BY <1>6 DEF TypeOK, KeyAccepted
  <2>3. OnlyMoves(a) /\ conn'[a].pc = "auth" /\ conn'[a].expected = None
    BY <2>1, <2>2, AttemptMoves
  <2>4. /\ conn[a].pc = "handshake" /\ k = conn[a].expected /\ k # None
        /\ key' = [key EXCEPT ![a] = k]
        /\ transport' = [transport EXCEPT ![a] = "open"]
        /\ UNCHANGED <<table, pinned, permit, ends, page, confirmed>>
    BY <1>6, NoneIsApart DEF KeyAccepted, Matches
  <2>5. TypeOK'
    BY <2>3, <2>4 DEF TypeOK, OnlyMoves
  <2>6. KeysComeFromTheUser'
    BY <2>3, <2>4 DEF TypeOK, KeysComeFromTheUser, OnlyMoves
  <2>7. OneReporter'
    BY <2>3, <2>4 DEF TypeOK, OneReporter, OnlyMoves, Unborn, Early
  <2>8. PageWasTold'
    BY <2>4 DEF TypeOK, PageWasTold
  <2> QED BY <2>5, <2>6, <2>7, <2>8
<1>7. CASE Inserts(a)
  <2>1. /\ OnlyMoves(a) /\ conn'[a].pc = "inserted" /\ conn'[a].expected = conn[a].expected
    BY <1>7, GotoMoves DEF Inserts
  <2>2. /\ conn[a].pc = "auth" /\ table' = table \cup {a}
        /\ monitor' = [monitor EXCEPT ![a] = "spawned"]
        /\ UNCHANGED <<pinned, link, discon, wire, told, page, confirmed>>
    BY <1>7 DEF Inserts
  <2>3. TypeOK'
    BY <2>1, <2>2 DEF TypeOK, OnlyMoves, OneReporter
  <2>4. KeysComeFromTheUser' /\ PageWasTold'
    BY <2>1, <2>2 DEF KeysComeFromTheUser, PageWasTold, OnlyMoves
  <2>5. OneReporter'
    BY <2>1, <2>2 DEF TypeOK, OneReporter, OnlyMoves, Unborn, Early
  <2> QED BY <2>3, <2>4, <2>5
<1>8. CASE ConnectReturns(a)
  BY <1>8, GotoMoves, Harmless DEF ConnectReturns, Early, KeysComeFromTheUser
<1>9. CASE Confirms(a)
  <2>1. \/ Over(a)
        \/ Goto(a, "pinning")
    BY <1>9 DEF Confirms
  <2>2. /\ OnlyMoves(a) /\ conn'[a].pc \in {"over", "pinning"}
        /\ conn'[a].expected \in {None, conn[a].expected}
        /\ conn'[a].pc = "pinning" => conn'[a].shown = conn[a].shown
    BY <2>1, GotoMoves, OverMoves
  <2>3. /\ conn[a].pc = "dialog" /\ confirmed' = confirmed \cup {conn[a].shown}
        /\ conn[a].shown \in Keys
        /\ UNCHANGED <<table, pinned, link, ends, page>>
    BY <1>1, <1>9 DEF Confirms, KeysComeFromTheUser, States
  <2>4. TypeOK'
    BY <2>2, <2>3 DEF TypeOK, OnlyMoves
  <2>5. KeysComeFromTheUser'
    BY <2>2, <2>3 DEF KeysComeFromTheUser, OnlyMoves
  <2>6. OneReporter' /\ PageWasTold'
    BY <2>2, <2>3 DEF OneReporter, PageWasTold, OnlyMoves, Unborn, Early
  <2> QED BY <2>4, <2>5, <2>6
<1>10. CASE Declines(a)
  BY <1>10, OverMoves, Harmless DEF Declines, Early
<1>11. CASE Pins(a)
  <2>1. /\ OnlyMoves(a) /\ conn'[a].pc = "looking" /\ conn'[a].expected = conn[a].expected
    BY <1>11, GotoMoves DEF Pins
  <2>2. /\ conn[a].pc = "pinning" /\ pinned' = conn[a].shown /\ pinned' \in confirmed
        /\ UNCHANGED <<table, link, ends, page, confirmed>>
    BY <1>11 DEF Pins, KeysComeFromTheUser
  <2>3. TypeOK'
    BY <2>1, <2>2 DEF TypeOK, OnlyMoves
  <2>4. KeysComeFromTheUser'
    BY <2>1, <2>2 DEF KeysComeFromTheUser, OnlyMoves
  <2>5. OneReporter' /\ PageWasTold'
    BY <2>1, <2>2 DEF OneReporter, PageWasTold, OnlyMoves, Unborn, Early
  <2> QED BY <2>3, <2>4, <2>5
<1> QED
  BY <1>2, <1>3, <1>4, <1>5, <1>6, <1>7, <1>8, <1>9, <1>10, <1>11 DEF Native

-----------------------------------------------------------------------------
(* How a session ends *)

(* The end of a transport and whoever hears of it first keep the invariant.   *)
LEMMA EndStep ==
    ASSUME IInv, NEW s \in Attempts,
           TransportEnds(s) \/ Disconnect(s) \/ MonitorWaits(s) \/ MonitorWakes(s)
    PROVE  IInv'
<1> USE DEF IInv, link, ends, page
<1>1. CASE TransportEnds(s)
  <2> USE <1>1 DEF TransportEnds
  <2>1. TypeOK'
    BY DEF TypeOK
  <2>2. KeysComeFromTheUser'
    BY DEF TypeOK, KeysComeFromTheUser
  <2>3. OneReporter' /\ PageWasTold'
    BY DEF OneReporter, Unborn, PageWasTold
  <2> QED BY <2>1, <2>2, <2>3
<1>2. CASE Disconnect(s)
  <2> USE <1>2 DEF Disconnect
  <2>1. TypeOK'
    BY DEF TypeOK
  <2>2. KeysComeFromTheUser' /\ PageWasTold'
    BY DEF KeysComeFromTheUser, PageWasTold
  <2>3. OneReporter'
    BY DEF TypeOK, OneReporter, Unborn
  <2> QED BY <2>1, <2>2, <2>3
<1>3. CASE MonitorWaits(s)
  <2> USE <1>3 DEF MonitorWaits
  <2>1. TypeOK'
    BY DEF TypeOK
  <2>2. KeysComeFromTheUser' /\ PageWasTold'
    BY DEF KeysComeFromTheUser, PageWasTold
  <2>3. OneReporter'
    BY DEF TypeOK, OneReporter, Unborn
  <2> QED BY <2>1, <2>2, <2>3
<1>4. CASE MonitorWakes(s)
  <2> USE <1>4 DEF MonitorWakes
  <2>1. TypeOK'
    BY DEF TypeOK
  <2>2. KeysComeFromTheUser' /\ PageWasTold'
    BY DEF KeysComeFromTheUser, PageWasTold
  <2>3. OneReporter'
    BY DEF TypeOK, OneReporter, Unborn
  <2> QED BY <2>1, <2>2, <2>3
<1> QED BY <1>1, <1>2, <1>3, <1>4

(* A report of an end that nobody has reported keeps the page's view.          *)
LEMMA ReportIsFirst ==
    ASSUME IInv, NEW s \in Attempts, NEW reason \in {"transportClosed", "userRequested"},
           Reports(s, reason), told[s] = 0,
           UNCHANGED <<key, page>>
    PROVE  /\ wire' \in Seq(Events) /\ told' \in [Attempts -> Nat]
           /\ told'[s] = 1 /\ \A b \in Attempts \ {s} : told'[b] = told[b]
           /\ PageWasTold'
<1> USE DEF IInv, page
<1> DEFINE e == [session |-> s, reason |-> reason]
<1>1. told' \in [Attempts -> Nat] /\ told'[s] = 1 /\ \A b \in Attempts \ {s} : told'[b] = told[b]
  BY DEF Reports, TypeOK
<1>2. \A b \in Attempts : told[b] = 1 => told'[b] = 1
  BY <1>1
<1>3. e \in Events /\ e.session = s
  BY DEF Events
<1>4. wire \in Seq(Events)
  BY DEF TypeOK
<1>5. wire' \in Seq(Events) /\ \A i \in DOMAIN wire' : wire'[i] = e \/ (i \in DOMAIN wire /\ wire'[i] = wire[i])
  <2>1. CASE wire' = wire
    BY <1>4, <2>1
  <2>2. CASE wire' = Append(wire, e)
    BY <1>3, <1>4, <2>2
  <2> QED BY <2>1, <2>2 DEF Reports
<1>6. \A i \in DOMAIN wire : wire[i].session \in Attempts
  <2>1. \A i \in DOMAIN wire : wire[i] \in Events
    BY <1>4
  <2> QED BY <2>1 DEF Events
<1>7. \A i \in DOMAIN wire' : told'[wire'[i].session] = 1
  BY <1>1, <1>2, <1>3, <1>5, <1>6 DEF PageWasTold
<1>8. \A r \in Roots : rec[r] # None => rec[r].session \in Attempts
  BY DEF TypeOK, Recorded
<1>9. PageWasTold'
  BY <1>2, <1>7, <1>8 DEF PageWasTold
<1> QED BY <1>1, <1>5, <1>9

(* Both reporters keep the invariant.                                         *)
LEMMA ReportStep ==
    ASSUME IInv, NEW s \in Attempts, MonitorEmits(s) \/ DisconnectEnds(s)
    PROVE  IInv'
<1> USE DEF IInv, link, page
<1>1. CASE MonitorEmits(s)
  <2>1. told[s] = 0 /\ s \notin table /\ discon[s] = "none" /\ monitor[s] = "emitting"
    BY <1>1 DEF MonitorEmits, OneReporter
  <2>2. /\ wire' \in Seq(Events) /\ told' \in [Attempts -> Nat]
        /\ told'[s] = 1 /\ \A b \in Attempts \ {s} : told'[b] = told[b]
        /\ PageWasTold'
    BY <1>1, <2>1, ReportIsFirst DEF MonitorEmits
  <2>3. /\ monitor' = [monitor EXCEPT ![s] = "done"]
        /\ UNCHANGED <<table, pinned, conn, link, discon, page, confirmed>>
    BY <1>1 DEF MonitorEmits
  <2>4. TypeOK'
    BY <2>1, <2>2, <2>3 DEF TypeOK
  <2>5. KeysComeFromTheUser'
    BY <2>3 DEF KeysComeFromTheUser
  <2>6. OneReporter'
    BY <2>1, <2>2, <2>3 DEF TypeOK, OneReporter, Unborn
  <2> QED BY <2>2, <2>4, <2>5, <2>6
<1>2. CASE DisconnectEnds(s)
  <2>1. told[s] = 0 /\ s \notin table /\ monitor[s] # "emitting" /\ discon[s] = "shutting"
    BY <1>2 DEF DisconnectEnds, OneReporter
  <2>2. /\ wire' \in Seq(Events) /\ told' \in [Attempts -> Nat]
        /\ told'[s] = 1 /\ \A b \in Attempts \ {s} : told'[b] = told[b]
        /\ PageWasTold'
    BY <1>2, <2>1, ReportIsFirst DEF DisconnectEnds
  <2>3. /\ discon' = [discon EXCEPT ![s] = "done"]
        /\ UNCHANGED <<table, pinned, conn, link, monitor, page, confirmed>>
    BY <1>2 DEF DisconnectEnds
  <2>4. TypeOK'
    BY <2>1, <2>2, <2>3 DEF TypeOK
  <2>5. KeysComeFromTheUser'
    BY <2>3 DEF KeysComeFromTheUser
  <2>6. OneReporter'
    BY <2>1, <2>2, <2>3 DEF TypeOK, OneReporter, Unborn
  <2> QED BY <2>2, <2>4, <2>5, <2>6
<1> QED BY <1>1, <1>2

(* The user forgets the pinned key, or the window goes.                        *)
LEMMA WindowStep ==
    ASSUME IInv, Forget \/ CloseWindow
    PROVE  IInv'
<1> USE DEF IInv, link, ends, page
<1>1. CASE Forget
  <2> USE <1>1 DEF Forget
  <2>1. TypeOK'
    BY DEF TypeOK
  <2>2. KeysComeFromTheUser' /\ OneReporter' /\ PageWasTold'
    BY DEF KeysComeFromTheUser, OneReporter, Unborn, PageWasTold
  <2> QED BY <2>1, <2>2
<1>2. CASE CloseWindow
  <2> USE <1>2 DEF CloseWindow
  <2>1. TypeOK'
    BY DEF TypeOK
  <2>2. KeysComeFromTheUser' /\ OneReporter'
    BY DEF KeysComeFromTheUser, OneReporter, Unborn
  <2>3. PageWasTold'
    BY DEF PageWasTold
  <2> QED BY <2>1, <2>2, <2>3
<1> QED BY <1>1, <1>2

-----------------------------------------------------------------------------
(* The page's remote roots *)

(* The page hears of an end.                                                  *)
LEMMA DispatchStep ==
    ASSUME IInv, Dispatch
    PROVE  IInv'
<1> USE DEF IInv, link, page
<1> DEFINE e == Head(wire)
<1>1. /\ wire # <<>> /\ wire \in Seq(Events)
      /\ rec' = Marked(e) /\ wire' = Tail(wire)
      /\ UNCHANGED <<table, pinned, conn, link, monitor, discon, told, window, job, confirmed>>
  BY DEF Dispatch, TypeOK
<1>2. e \in Events /\ told[e.session] = 1
  BY <1>1 DEF PageWasTold
<1>3. wire' \in Seq(Events) /\ \A i \in DOMAIN wire' : told'[wire'[i].session] = 1
  <2>1. wire' \in Seq(Events) /\ \A i \in DOMAIN wire' : i + 1 \in DOMAIN wire /\ wire'[i] = wire[i + 1]
    BY <1>1
  <2> QED BY <1>1, <2>1 DEF PageWasTold
<1>4. ASSUME NEW r \in Roots
      PROVE  /\ rec'[r] \in Recorded \cup {None}
             /\ rec'[r] # None /\ rec'[r].disconnected => told[rec'[r].session] = 1
  <2>1. CASE rec'[r] = rec[r]
    BY <2>1 DEF TypeOK, PageWasTold
  <2>2. CASE rec[r] # None /\ rec[r].session = e.session /\ rec'[r] = [rec[r] EXCEPT !.disconnected = TRUE]
    <3>1. rec[r] \in Recorded
      BY <2>2 DEF TypeOK
    <3>2. rec'[r] \in Recorded /\ rec'[r].session = e.session
      BY <2>2, <3>1 DEF Recorded
    <3> QED BY <1>2, <3>2
  <2> QED BY <1>1, <2>1, <2>2 DEF Marked
<1>5. rec' \in [Roots -> Recorded \cup {None}]
  <2>1. rec' = [r \in Roots |-> rec'[r]]
    BY <1>1 DEF Marked
  <2> QED BY <1>4, <2>1
<1>6. TypeOK'
  BY <1>1, <1>3, <1>5 DEF TypeOK
<1>7. KeysComeFromTheUser' /\ OneReporter'
  BY <1>1 DEF KeysComeFromTheUser, OneReporter, Unborn
<1>8. PageWasTold'
  BY <1>1, <1>3, <1>4 DEF PageWasTold
<1> QED BY <1>6, <1>7, <1>8

(* A root's job that is dropped, or moves with a session whose key is known.   *)
LEMMA JobMoves ==
    ASSUME IInv, NEW r \in Roots, NEW j \in Jobs \cup {None}, job' = [job EXCEPT ![r] = j],
           j # None /\ j.stage # "asked" => key[j.session] # None,
           UNCHANGED <<table, pinned, conn, link, ends, window, rec, confirmed>>
    PROVE  IInv'
<1> USE DEF IInv, link, ends
<1>1. TypeOK'
  BY DEF TypeOK
<1>2. KeysComeFromTheUser' /\ OneReporter'
  BY DEF KeysComeFromTheUser, OneReporter, Unborn
<1>3. job'[r] = j /\ \A q \in Roots \ {r} : job'[q] = job[q]
  BY DEF TypeOK
<1>4. PageWasTold'
  BY <1>3 DEF PageWasTold
<1> QED BY <1>1, <1>2, <1>4

(* An add or reconnect is asked for, goes on or is refused.                   *)
LEMMA JobStep ==
    ASSUME IInv, NEW r \in Roots,
           (\E s \in Attempts : Mount(r, s)) \/ Resolves(r) \/ Granted(r) \/ Refused(r)
    PROVE  IInv'
<1> USE DEF IInv
<1>1. ASSUME NEW s \in Attempts, Mount(r, s) PROVE IInv'
  <2> DEFINE j == [session |-> s, stage |-> "asked"]
  <2>1. j \in Jobs /\ j.stage = "asked"
    BY DEF Jobs
  <2>2. job' = [job EXCEPT ![r] = j] /\ UNCHANGED <<table, pinned, conn, link, ends, window, rec, confirmed>>
    BY <1>1 DEF Mount, Asked
  <2> QED BY <2>1, <2>2, JobMoves
<1>2. CASE Resolves(r)
  <2> DEFINE j == [job[r] EXCEPT !.stage = "resolved"]
  <2>1. job[r] \in Jobs /\ job[r].session \in table
    BY <1>2 DEF TypeOK, Resolves
  <2>2. j \in Jobs /\ j.session \in table
    BY <2>1 DEF Jobs
  <2>3. key[j.session] # None
    BY <2>2 DEF TypeOK
  <2>4. job' = [job EXCEPT ![r] = j] /\ UNCHANGED <<table, pinned, conn, link, ends, window, rec, confirmed>>
    BY <1>2 DEF TypeOK, Resolves
  <2> QED BY <2>2, <2>3, <2>4, JobMoves
<1>3. CASE Granted(r)
  <2> DEFINE j == [job[r] EXCEPT !.stage = "granted"]
  <2>1. job[r] \in Jobs /\ key[job[r].session] # None
    BY <1>3 DEF TypeOK, Granted, PageWasTold
  <2>2. j \in Jobs /\ key[j.session] # None
    BY <2>1 DEF Jobs
  <2>3. job' = [job EXCEPT ![r] = j] /\ UNCHANGED <<table, pinned, conn, link, ends, window, rec, confirmed>>
    BY <1>3 DEF TypeOK, Granted
  <2> QED BY <2>2, <2>3, JobMoves
<1>4. CASE Refused(r)
  BY <1>4, JobMoves DEF Refused
<1> QED BY <1>1, <1>2, <1>3, <1>4

(* A reconnect asks for its root on the session it opened.                    *)
LEMMA RebindStep ==
    ASSUME IInv, NEW r \in Roots, NEW s \in Attempts, Rebind(r, s)
    PROVE  IInv'
<1> USE DEF IInv, link, ends
<1> DEFINE st == [conn[s] EXCEPT !.goal = None]
           j  == [session |-> s, stage |-> "asked"]
<1>1. conn[s] \in States /\ conn[s].pc = "connected"
  BY DEF TypeOK, Rebind
<1>2. st \in States /\ st.pc = conn[s].pc /\ st.expected = conn[s].expected /\ st.shown = conn[s].shown
  BY <1>1 DEF States
<1>3. conn' = [conn EXCEPT ![s] = st]
  BY DEF TypeOK, Rebind
<1>4. /\ OnlyMoves(s) /\ conn'[s].pc = "connected"
      /\ conn'[s].expected = conn[s].expected /\ conn'[s].shown = conn[s].shown
  BY <1>1, <1>2, <1>3, AttemptMoves
<1>5. j \in Jobs /\ j.stage = "asked"
  BY DEF Jobs
<1>6. /\ job' = [job EXCEPT ![r] = j]
      /\ UNCHANGED <<table, pinned, link, ends, window, rec, confirmed>>
  BY DEF Rebind, Asked
<1>7. TypeOK'
  BY <1>4, <1>5, <1>6 DEF TypeOK, OnlyMoves
<1>8. KeysComeFromTheUser'
  BY <1>4, <1>6 DEF KeysComeFromTheUser, OnlyMoves
<1>9. OneReporter'
  BY <1>1, <1>4, <1>6 DEF OneReporter, Unborn, OnlyMoves, Early
<1>10. job'[r] = j /\ \A q \in Roots \ {r} : job'[q] = job[q]
  BY <1>6 DEF TypeOK
<1>11. PageWasTold'
  BY <1>5, <1>6, <1>10 DEF PageWasTold
<1> QED BY <1>7, <1>8, <1>9, <1>11

(* The page records a root as live.                                           *)
LEMMA RecordStep ==
    ASSUME IInv, NEW r \in Roots, Records(r)
    PROVE  IInv'
<1> USE DEF IInv, link, ends
<1> DEFINE n == [session |-> job[r].session, key |-> key[job[r].session], disconnected |-> FALSE]
<1>1. /\ rec' = [rec EXCEPT ![r] = n] /\ job' = [job EXCEPT ![r] = None]
      /\ UNCHANGED <<table, pinned, conn, link, ends, window, confirmed>>
  BY DEF Records
<1>2. job[r].session \in Attempts /\ key[job[r].session] # None
  BY DEF Records, PageWasTold, TypeOK, Jobs
<1>3. n \in Recorded /\ ~n.disconnected
  BY <1>2 DEF TypeOK, Recorded
<1>4. TypeOK'
  BY <1>1, <1>3 DEF TypeOK
<1>5. KeysComeFromTheUser' /\ OneReporter'
  BY <1>1 DEF KeysComeFromTheUser, OneReporter, Unborn
<1>6. /\ rec'[r] = n /\ \A q \in Roots \ {r} : rec'[q] = rec[q]
      /\ job'[r] = None /\ \A q \in Roots \ {r} : job'[q] = job[q]
  BY <1>1 DEF TypeOK
<1>7. PageWasTold'
  BY <1>1, <1>3, <1>6 DEF PageWasTold
<1> QED BY <1>4, <1>5, <1>7

-----------------------------------------------------------------------------
(* The invariant *)

(* The invariant holds at the start,                                          *)
LEMMA InitHolds == Init => IInv
<1> SUFFICES ASSUME Init PROVE IInv
  OBVIOUS
<1> USE DEF Init
<1>1. NewAttempt \in States /\ NewAttempt.pc = "idle" /\ NewAttempt.expected = None
  BY DEF NewAttempt, States
<1>2. confirmed \subseteq Keys /\ pinned \in confirmed \cup {None}
  OBVIOUS
<1>3. TypeOK
  BY <1>1, <1>2 DEF TypeOK
<1>4. KeysComeFromTheUser
  BY <1>1, <1>2 DEF KeysComeFromTheUser
<1>5. OneReporter
  BY <1>1 DEF OneReporter, Unborn
<1>6. PageWasTold
  BY DEF PageWasTold
<1> QED BY <1>3, <1>4, <1>5, <1>6 DEF IInv

(* every step keeps it,                                                       *)
LEMMA StepHolds == IInv /\ [Next]_vars => IInv'
<1> SUFFICES ASSUME IInv, [Next]_vars PROVE IInv'
  OBVIOUS
<1>1. ASSUME NEW a \in Attempts,
             \/ \E goal \in Roots \cup {None} : Connect(a, goal)
             \/ Native(a) \/ Confirms(a) \/ Declines(a)
      PROVE  IInv'
  BY <1>1, AttemptStep
<1>2. ASSUME NEW s \in Attempts,
             TransportEnds(s) \/ Disconnect(s) \/ MonitorWaits(s) \/ MonitorWakes(s)
      PROVE  IInv'
  BY <1>2, EndStep
<1>3. ASSUME NEW s \in Attempts, MonitorEmits(s) \/ DisconnectEnds(s) PROVE IInv'
  BY <1>3, ReportStep
<1>4. ASSUME NEW r \in Roots,
             \/ \E s \in Attempts : Mount(r, s)
             \/ Resolves(r) \/ Granted(r) \/ Refused(r)
      PROVE  IInv'
  BY <1>4, JobStep
<1>5. ASSUME NEW r \in Roots, NEW s \in Attempts, Rebind(r, s) PROVE IInv'
  BY <1>5, RebindStep
<1>6. ASSUME NEW r \in Roots, Records(r) PROVE IInv'
  BY <1>6, RecordStep
<1>7. CASE Dispatch
  BY <1>7, DispatchStep
<1>8. CASE Forget \/ CloseWindow
  BY <1>8, WindowStep
<1>9. CASE UNCHANGED vars
  BY <1>9 DEF vars, link, ends, page, IInv, TypeOK, KeysComeFromTheUser, OneReporter, Unborn,
              PageWasTold
<1> QED BY <1>1, <1>2, <1>3, <1>4, <1>5, <1>6, <1>7, <1>8, <1>9 DEF Next

(* and so it always holds.                                                    *)
LEMMA Inductive == Spec => []IInv
BY InitHolds, StepHolds, PTL DEF Spec

(* Every variable keeps its type; a listed session has a key its handshake     *)
(* matched and a monitor that has not yet woken.                               *)
THEOREM TypeCorrect == Spec => []TypeOK
BY Inductive, PTL DEF IInv

(* A session is opened only with a key the user agreed to, however many        *)
(* attempts pin and forget keys meanwhile.                                     *)
THEOREM KeysConfirmed == Spec => []KeyWasConfirmed
<1>1. IInv => KeyWasConfirmed
  BY DEF IInv, KeysComeFromTheUser, KeyWasConfirmed
<1> QED BY <1>1, Inductive, PTL

(* The end of a session is reported at most once and never while it is listed, *)
(* and a root offered for reconnection has lost its session.                   *)
THEOREM EndsTrue == Spec => []EndsAreTrue
<1>1. IInv => EndsAreTrue
  <2> SUFFICES ASSUME IInv PROVE EndsAreTrue
    OBVIOUS
  <2>1. OneEndPerSession
    BY DEF IInv, OneReporter, OneEndPerSession
  <2>2. \A r \in Roots : rec[r] # None => rec[r].session \in Attempts
    BY DEF IInv, TypeOK, Recorded
  <2>3. OnlyDeadReconnect
    BY <2>1, <2>2 DEF IInv, PageWasTold, OneEndPerSession, OnlyDeadReconnect
  <2> QED BY <2>1, <2>3 DEF EndsAreTrue
<1> QED BY <1>1, Inductive, PTL
=============================================================================
