------------------------ MODULE CloseHandshakeProofs ------------------------
(* Theorems about CloseHandshake, for any number of windows and ids and any   *)
(* number of events that wait on the event loop.                              *)
EXTENDS CloseHandshake, SequenceTheorems, TLAPS

(* No request is on its way to a page twice, or after the page took it up or  *)
(* answered it.                                                               *)
InboxIsNew ==
    \A w \in Windows : \A i \in DOMAIN inbox[w] :
        /\ \A j \in DOMAIN inbox[w] : i # j => inbox[w][i].id # inbox[w][j].id
        /\ inbox[w][i].id # front[w].id
        /\ \A a \in answers : a.window = w => a.id # inbox[w][i].id

(* An answer in flight is the last word its page has said on the request, and *)
(* the page that allowed one waits for the result before anything else.       *)
AnswerStands ==
    \A a \in answers :
        /\ a.outcome = "allow" => front[a.window].id = a.id
        /\ front[a.window].id = a.id =>
             front[a.window].phase = IF a.outcome = "allow" THEN "allowing" ELSE "vetoing"
        /\ quitIds[a.window] = a.id => votes[a.window] = a.outcome

(* The close native waits for is the newest one of its window.                *)
CloseIsNewest ==
    \A w \in Windows : pendingWin[w] # None =>
        /\ w \in open
        /\ \A i \in DOMAIN inbox[w] : inbox[w][i].id = pendingWin[w].id =>
             /\ inbox[w][i].reason = "close"
             /\ \A j \in DOMAIN inbox[w] : j > i => inbox[w][j].reason = "quit"
        /\ front[w].id = pendingWin[w].id =>
             /\ front[w].reason = "close"
             /\ \A i \in DOMAIN inbox[w] : inbox[w][i].reason = "quit"

(* A page that allows its close keeps to it until native has answered.        *)
AllowIsConsent ==
    \A w \in Windows :
        front[w] # None /\ front[w].phase = "allowing" /\ front[w].reason = "close" => w \in consent

(* Nothing can take the consent back from a window that is armed or closing.  *)
ArmedStays ==
    /\ allowWin \subseteq open \ closing
    /\ \A w \in allowWin \cup closing :
         /\ w \in consent /\ pendingWin[w] = None
         /\ \A i \in DOMAIN inbox[w] : inbox[w][i].reason = "quit"
         /\ front[w] # None => front[w].reason = "quit" \/ front[w].phase = "settling"
    /\ \A w \in allowWin : Posted(w)

(* A window the quit no longer waits for has agreed to it, and has nothing    *)
(* left to say.                                                               *)
QuitIsTold ==
    /\ \A w \in Windows \ born : quitIds[w] = "none"
    /\ Quitting =>
         /\ \A w \in DOMAIN pendingQuit.requests : pendingQuit.requests[w] = quitIds[w]
         /\ \A w \in open \ DOMAIN pendingQuit.requests : quitIds[w] # "none" =>
              /\ votes[w] = "allow"
              /\ front[w].id = quitIds[w] => front[w].phase = "settling"
              /\ \A i \in DOMAIN inbox[w] : inbox[w][i].id # quitIds[w]

IInv == /\ TypeOK /\ InboxIsNew /\ AnswerStands /\ CloseIsNewest /\ AllowIsConsent /\ ArmedStays
        /\ QuitIsTold /\ QuitWaitsOnOpenWindow
-----------------------------------------------------------------------------
(* Facts about the state *)

(* Nothing that is pending or active is None.                                 *)
LEMMA NoneApart ==
    /\ None \notin Closes \cup Fronts \cup Quits /\ None.id = "none"
    /\ \A x \in Closes \cup Fronts : x.id \in Ids
BY NamesApart DEF None, Closes, Fronts, Quits

(* expire only ever forgets.                                                  *)
LEMMA LiveWinIs ==
    ASSUME TypeOK
    PROVE  /\ LiveWin \in [Windows -> Closes \cup {None}]
           /\ \A w \in Windows : LiveWin[w] \in {pendingWin[w], None}
BY DEF TypeOK, LiveWin

(* Nor does it forget half of a quit.                                        *)
LEMMA LiveQuitIs ==
    ASSUME TypeOK
    PROVE  LiveQuit \in Quits \cup {None} /\ LiveQuit \in {pendingQuit, None}
BY DEF TypeOK, LiveQuit

(* A request at the end of an inbox: the others stay where they are.          *)
LEMMA InboxGrows ==
    ASSUME NEW q \in Seq(Requests), NEW r \in Requests, NEW p, p = Append(q, r)
    PROVE  /\ p \in Seq(Requests) /\ p[Len(q) + 1] = r
           /\ \A i \in DOMAIN p : i \in DOMAIN q \/ i = Len(q) + 1
           /\ \A i \in DOMAIN q : p[i] = q[i] /\ i < Len(q) + 1
           /\ Len(q) + 1 \notin DOMAIN q /\ Len(q) \in Nat
BY AppendProperties, LenProperties

(* The first request taken out of an inbox: the others move up.               *)
LEMMA InboxShrinks ==
    ASSUME NEW q \in Seq(Requests), q # <<>>, NEW p, p = Tail(q)
    PROVE  /\ p \in Seq(Requests) /\ Head(q) = q[1] /\ 1 \in DOMAIN q /\ q[1] \in Requests
           /\ \A i \in DOMAIN p : i \in Nat \ {0} /\ i + 1 \in DOMAIN q /\ p[i] = q[i + 1]
<1>1. p \in Seq(Requests) /\ Len(p) = Len(q) - 1 /\ \A i \in 1..Len(p) : p[i] = q[i + 1]
  BY HeadTailProperties
<1>2. Len(q) \in Nat \ {0} /\ DOMAIN q = 1..Len(q) /\ DOMAIN p = 1..Len(p) /\ Head(q) = q[1]
  BY <1>1, LenProperties
<1>3. q[1] \in Requests
  BY <1>2
<1> QED BY <1>1, <1>2, <1>3

(* What the event loop has taken up is not posted any more, the rest is.      *)
LEMMA PostedRest ==
    ASSUME TypeOK, posted # <<>>, posted' = Tail(posted)
    PROVE  /\ posted' \in Seq(Windows \cup {"exit"}) /\ Head(posted) \in Windows \cup {"exit"}
           /\ \A event : event # Head(posted) /\ Posted(event) => Posted(event)'
<1>1. posted \in Seq(Windows \cup {"exit"})
  BY DEF TypeOK
<1>2. /\ posted' \in Seq(Windows \cup {"exit"}) /\ Head(posted) \in Windows \cup {"exit"}
      /\ Len(posted') = Len(posted) - 1 /\ \A i \in 1..Len(posted') : posted'[i] = posted[i + 1]
  BY <1>1, HeadTailProperties
<1>3. /\ Len(posted) \in Nat \ {0} /\ DOMAIN posted = 1..Len(posted)
      /\ DOMAIN posted' = 1..Len(posted') /\ Head(posted) = posted[1]
  BY <1>1, <1>2, LenProperties
<1>4. ASSUME NEW event, event # Head(posted), NEW i \in DOMAIN posted, posted[i] = event
      PROVE  Posted(event)'
  <2>1. i # 1 /\ i - 1 \in 1..Len(posted') /\ (i - 1) + 1 = i
    BY <1>2, <1>3, <1>4
  <2>2. posted'[i - 1] = event /\ i - 1 \in DOMAIN posted'
    BY <1>2, <1>3, <1>4, <2>1
  <2> QED BY <2>2 DEF Posted
<1> QED BY <1>2, <1>4 DEF Posted

(* What was posted before stays posted when an event is added.                *)
LEMMA PostedMore ==
    ASSUME TypeOK, NEW event \in Windows \cup {"exit"}, posted' = Append(posted, event)
    PROVE  /\ posted' \in Seq(Windows \cup {"exit"}) /\ Posted(event)'
           /\ \A e : Posted(e) => Posted(e)'
<1>1. posted \in Seq(Windows \cup {"exit"})
  BY DEF TypeOK
<1>2. /\ posted' \in Seq(Windows \cup {"exit"}) /\ Len(posted') = Len(posted) + 1
      /\ \A i \in 1..Len(posted) : posted'[i] = posted[i]
      /\ posted'[Len(posted) + 1] = event
  BY <1>1, AppendProperties
<1>3. /\ Len(posted) \in Nat /\ DOMAIN posted = 1..Len(posted) /\ DOMAIN posted' = 1..Len(posted')
  BY <1>1, <1>2, LenProperties
<1>4. DOMAIN posted \subseteq DOMAIN posted' /\ Len(posted) + 1 \in DOMAIN posted'
  BY <1>2, <1>3
<1> QED BY <1>2, <1>3, <1>4 DEF Posted

-----------------------------------------------------------------------------
(* Native forgets *)

WinFades == \A w \in Windows :
    pendingWin'[w] # None => pendingWin[w] # None /\ pendingWin'[w].id = pendingWin[w].id
QuitFades == Quitting' => Quitting /\ pendingQuit'.requests = pendingQuit.requests

(* A step in which native forgets requests, or their deadlines pass, and no   *)
(* page takes part.                                                           *)
LEMMA FadesHolds ==
    ASSUME IInv, UNCHANGED <<windowVars, allowWin, pageVars, history>>,
           pendingWin' \in [Windows -> Closes \cup {None}], WinFades,
           pendingQuit' \in Quits \cup {None}, QuitFades,
           allowExit' \in BOOLEAN, exited' \in BOOLEAN, exited => exited',
           posted' \in Seq(Windows \cup {"exit"}), \A w \in allowWin : Posted(w)'
    PROVE  IInv'
<1> USE DEF IInv, windowVars, pageVars, history
<1>1. TypeOK'
  BY DEF TypeOK
<1>2. InboxIsNew' /\ AnswerStands' /\ AllowIsConsent'
  BY DEF InboxIsNew, AnswerStands, AllowIsConsent
<1>3. CloseIsNewest'
  BY DEF CloseIsNewest, WinFades
<1>4. ArmedStays'
  BY DEF ArmedStays, WinFades, TypeOK
<1>5. QuitIsTold' /\ QuitWaitsOnOpenWindow'
  BY DEF QuitIsTold, QuitWaitsOnOpenWindow, QuitFades
<1> QED BY <1>1, <1>2, <1>3, <1>4, <1>5

(* CLOSE_TIMEOUT passes: nothing but the flag that expire looks at.           *)
LEMMA DeadlineHolds ==
    ASSUME IInv, (\E w \in Windows : WindowDeadline(w)) \/ QuitDeadline \/ UNCHANGED vars
    PROVE  IInv'
<1> USE DEF IInv
<1>1. posted \in Seq(Windows \cup {"exit"}) /\ \A w \in allowWin : Posted(w)
  BY DEF TypeOK, ArmedStays
<1>2. allowExit \in BOOLEAN /\ exited \in BOOLEAN
  BY DEF TypeOK
<1>3. ASSUME NEW w \in Windows, WindowDeadline(w) PROVE IInv'
  <2> DEFINE late == [pendingWin[w] EXCEPT !.late = TRUE]
  <2>1. /\ pendingWin[w] # None /\ pendingWin' = [pendingWin EXCEPT ![w] = late]
        /\ UNCHANGED <<windowVars, pendingQuit, allowWin, allowExit, posted, exited, pageVars, history>>
    BY <1>3 DEF WindowDeadline, TypeOK
  <2>2. late \in Closes /\ late.id = pendingWin[w].id
    BY <2>1 DEF TypeOK, Closes
  <2>3. pendingWin' \in [Windows -> Closes \cup {None}] /\ WinFades
    BY <2>1, <2>2 DEF TypeOK, WinFades
  <2>4. pendingQuit' \in Quits \cup {None} /\ QuitFades
    BY <2>1 DEF TypeOK, QuitFades, Quitting
  <2> QED BY <1>1, <1>2, <2>1, <2>3, <2>4, FadesHolds DEF Posted
<1>4. CASE QuitDeadline
  <2> DEFINE late == [pendingQuit EXCEPT !.late = TRUE]
  <2>1. /\ pendingQuit \in Quits /\ pendingQuit' = late
        /\ UNCHANGED <<windowVars, pendingWin, allowWin, allowExit, posted, exited, pageVars, history>>
    BY <1>4 DEF QuitDeadline, Quitting, TypeOK
  <2>2. late \in Quits /\ late.requests = pendingQuit.requests
    BY <2>1 DEF Quits
  <2>3. pendingQuit' \in Quits \cup {None} /\ QuitFades
    BY <1>4, <2>1, <2>2 DEF QuitFades, QuitDeadline
  <2>4. pendingWin' \in [Windows -> Closes \cup {None}] /\ WinFades
    BY <2>1 DEF TypeOK, WinFades
  <2> QED BY <1>1, <1>2, <2>1, <2>3, <2>4, FadesHolds DEF Posted
<1>5. CASE UNCHANGED vars
  <2>1. UNCHANGED <<windowVars, coordinator, posted, exited, pageVars, history>>
    BY <1>5 DEF vars
  <2>2. pendingWin' \in [Windows -> Closes \cup {None}] /\ WinFades
    BY <2>1 DEF TypeOK, WinFades, coordinator
  <2>3. pendingQuit' \in Quits \cup {None} /\ QuitFades
    BY <2>1 DEF TypeOK, QuitFades, Quitting, coordinator
  <2> QED BY <1>1, <1>2, <2>1, <2>2, <2>3, FadesHolds DEF Posted, coordinator
<1> QED BY <1>3, <1>4, <1>5

-----------------------------------------------------------------------------
(* Windows *)

(* A new window was asked nothing; a page that listens has said nothing.      *)
LEMMA WindowHolds ==
    ASSUME IInv, NEW w \in Windows, CreateWindow(w) \/ Listen(w)
    PROVE  IInv'
<1> USE DEF IInv, coordinator, pageVars, history
<1>1. CASE CreateWindow(w)
  <2> USE <1>1 DEF CreateWindow
  <2>1. TypeOK'
    BY DEF TypeOK
  <2>2. InboxIsNew' /\ AnswerStands' /\ AllowIsConsent'
    BY DEF InboxIsNew, AnswerStands, AllowIsConsent
  <2>3. CloseIsNewest' /\ ArmedStays'
    BY DEF CloseIsNewest, ArmedStays, Posted
  <2>4. QuitIsTold' /\ QuitWaitsOnOpenWindow'
    BY DEF QuitIsTold, QuitWaitsOnOpenWindow, Quitting
  <2> QED BY <2>1, <2>2, <2>3, <2>4
<1>2. CASE Listen(w)
  <2> USE <1>2 DEF Listen
  <2>1. TypeOK'
    BY DEF TypeOK
  <2>2. InboxIsNew' /\ AnswerStands' /\ AllowIsConsent'
    BY DEF InboxIsNew, AnswerStands, AllowIsConsent
  <2>3. CloseIsNewest' /\ ArmedStays'
    BY DEF CloseIsNewest, ArmedStays, Posted
  <2>4. QuitIsTold' /\ QuitWaitsOnOpenWindow'
    BY DEF QuitIsTold, QuitWaitsOnOpenWindow, Quitting
  <2> QED BY <2>1, <2>2, <2>3, <2>4
<1> QED BY <1>1, <1>2
-----------------------------------------------------------------------------
(* Native asks *)

(* A fresh id is one that nothing names.                                      *)
LEMMA FreshIsNew ==
    ASSUME TypeOK, NEW id \in Fresh
    PROVE  /\ id \in Ids
           /\ \A w \in Windows : id # front[w].id /\ id # quitIds[w] /\ id # pendingWin[w].id
           /\ \A w \in Windows : \A i \in DOMAIN inbox[w] : inbox[w][i].id # id
           /\ \A a \in answers : a.id # id
<1> DEFINE ofInbox(w) == {inbox[w][i].id : i \in DOMAIN inbox[w]}
           ofWindow(w) == {pendingWin[w].id, front[w].id, quitIds[w]}
           held == UNION {{pendingWin[w].id, front[w].id, quitIds[w]} : w \in Windows}
           said == {a.id : a \in answers}
           sent == UNION {{inbox[w][i].id : i \in DOMAIN inbox[w]} : w \in Windows}
<1>1. Remembered = held \cup said \cup sent
  BY DEF Remembered
<1>2. \A a \in answers : a.id \in said
  OBVIOUS
<1>3. \A w \in Windows : \A i \in DOMAIN inbox[w] : inbox[w][i].id \in ofInbox(w)
  OBVIOUS
<1>4. \A w \in Windows : front[w].id \in ofWindow(w) /\ quitIds[w] \in ofWindow(w)
                         /\ pendingWin[w].id \in ofWindow(w)
  OBVIOUS
<1>5. \A w \in Windows : ofInbox(w) \subseteq sent /\ ofWindow(w) \subseteq held
  <2>1. sent = UNION {ofInbox(w) : w \in Windows} /\ held = UNION {ofWindow(w) : w \in Windows}
    OBVIOUS
  <2> HIDE DEF ofInbox, ofWindow, sent, held
  <2> QED BY <2>1
<1> HIDE DEF ofInbox, ofWindow, said
<1> HIDE DEF held, sent
<1>6. id \in Ids /\ id \notin held \cup said \cup sent
  BY <1>1 DEF Fresh
<1> QED BY <1>2, <1>3, <1>4, <1>5, <1>6

(* Requests with fresh ids keep every inbox free of repetitions.              *)
LEMMA AsksAnew ==
    ASSUME IInv, UNCHANGED <<front, answers>>,
           \A w \in Windows : \/ inbox'[w] = inbox[w]
                              \/ \E r \in Requests : r.id \in Fresh /\ inbox'[w] = Append(inbox[w], r)
    PROVE  InboxIsNew'
<1> USE DEF IInv
<1>1. ASSUME NEW w \in Windows, NEW i \in DOMAIN inbox'[w]
      PROVE  /\ \A j \in DOMAIN inbox'[w] : i # j => inbox'[w][i].id # inbox'[w][j].id
             /\ inbox'[w][i].id # front[w].id
             /\ \A a \in answers : a.window = w => a.id # inbox'[w][i].id
  <2>1. CASE inbox'[w] = inbox[w]
    BY <1>1, <2>1 DEF InboxIsNew
  <2>2. ASSUME NEW r \in Requests, r.id \in Fresh, inbox'[w] = Append(inbox[w], r)
        PROVE  /\ \A j \in DOMAIN inbox'[w] : i # j => inbox'[w][i].id # inbox'[w][j].id
               /\ inbox'[w][i].id # front[w].id
               /\ \A a \in answers : a.window = w => a.id # inbox'[w][i].id
    <3> DEFINE n == Len(inbox[w]) + 1
    <3>1. inbox[w] \in Seq(Requests)
      BY DEF TypeOK
    <3>2. /\ inbox'[w][n] = r
          /\ \A k \in DOMAIN inbox'[w] : k \in DOMAIN inbox[w] \/ k = n
          /\ \A k \in DOMAIN inbox[w] : inbox'[w][k] = inbox[w][k]
      BY <2>2, <3>1, InboxGrows
    <3>3. /\ \A k \in DOMAIN inbox[w] : inbox[w][k].id # r.id
          /\ r.id # front[w].id /\ \A a \in answers : a.id # r.id
      BY <2>2, FreshIsNew
    <3> HIDE DEF n
    <3>4. CASE i = n
      BY <3>2, <3>3, <3>4
    <3>5. CASE i \in DOMAIN inbox[w]
      BY <3>2, <3>3, <3>5 DEF InboxIsNew
    <3> QED BY <1>1, <3>2, <3>4, <3>5
  <2> QED BY <2>1, <2>2
<1> QED BY <1>1 DEF InboxIsNew

(* begin_window_close, by a click or by a posted close.                       *)
LEMMA BeginWindowCloseHolds ==
    ASSUME IInv, NEW w \in open \ closing, BeginWindowClose(w),
           UNCHANGED <<open, born, listening, allowExit, exited, front, answers, history>>,
           posted' \in Seq(Windows \cup {"exit"}), \A v \in allowWin \ {w} : Posted(v)'
    PROVE  IInv'
<1> USE DEF IInv, history
<1>1. /\ LiveWin \in [Windows -> Closes \cup {None}]
      /\ \A v \in Windows : LiveWin[v] \in {pendingWin[v], None}
      /\ LiveQuit \in Quits \cup {None} /\ LiveQuit \in {pendingQuit, None}
      /\ w \in Windows
  BY LiveWinIs, LiveQuitIs DEF TypeOK
<1>2. CASE w \in allowWin
  <2>1. /\ allowWin' = allowWin \ {w} /\ closing' = closing \cup {w}
        /\ pendingWin' = LiveWin /\ pendingQuit' = LiveQuit /\ inbox' = inbox
    BY <1>2 DEF BeginWindowClose
  <2>2. TypeOK'
    BY <1>1, <2>1 DEF TypeOK
  <2>3. InboxIsNew' /\ AnswerStands' /\ AllowIsConsent'
    BY <2>1 DEF InboxIsNew, AnswerStands, AllowIsConsent
  <2>4. CloseIsNewest'
    BY <1>1, <2>1 DEF CloseIsNewest
  <2>5. ArmedStays'
    BY <1>1, <1>2, <2>1 DEF ArmedStays, TypeOK
  <2>6. QuitIsTold' /\ QuitWaitsOnOpenWindow'
    BY <1>1, <2>1 DEF QuitIsTold, QuitWaitsOnOpenWindow, Quitting
  <2> QED BY <2>2, <2>3, <2>4, <2>5, <2>6
<1>3. CASE w \notin allowWin /\ pendingWin' = LiveWin /\ pendingQuit' = LiveQuit /\ inbox' = inbox
  <2>1. UNCHANGED <<windowVars, allowWin, pageVars>>
    BY <1>3 DEF BeginWindowClose, windowVars, pageVars
  <2>2. WinFades /\ QuitFades
    BY <1>1, <1>3 DEF WinFades, QuitFades, Quitting
  <2>3. allowExit' \in BOOLEAN /\ exited' \in BOOLEAN /\ (exited => exited')
    BY DEF TypeOK
  <2> QED BY <1>1, <1>3, <2>1, <2>2, <2>3, FadesHolds
<1>4. ASSUME w \notin allowWin, ~Busy(w), pendingQuit' = LiveQuit, UNCHANGED <<allowWin, closing>>,
             NEW id \in Fresh, pendingWin' = [LiveWin EXCEPT ![w] = [id |-> id, late |-> FALSE]],
             inbox' = Emitted(inbox, w, [id |-> id, reason |-> "close"])
      PROVE  IInv'
  <2> DEFINE r == [id |-> id, reason |-> "close"]
             p == [id |-> id, late |-> FALSE]
             n == Len(inbox[w]) + 1
  <2>1. /\ id \in Ids
        /\ id # front[w].id
        /\ \A i \in DOMAIN inbox[w] : inbox[w][i].id # id
    BY <1>1, <1>4, FreshIsNew
  <2>2. r \in Requests /\ r.id = id /\ r.reason = "close" /\ p \in Closes /\ p.id = id
    BY <2>1 DEF Requests, Reasons, Closes
  <2>3. /\ inbox'[w] = inbox[w] \/ inbox'[w] = Append(inbox[w], r)
        /\ \A v \in Windows \ {w} : inbox'[v] = inbox[v]
        /\ inbox' = [inbox EXCEPT ![w] = inbox'[w]]
    BY <1>1, <1>4 DEF Emitted, TypeOK
  <2>4. /\ pendingWin'[w] = p /\ \A v \in Windows \ {w} : pendingWin'[v] = LiveWin[v]
        /\ pendingWin' \in [Windows -> Closes \cup {None}]
    BY <1>1, <1>4, <2>2
  <2>5. pendingQuit' = None
    BY <1>4 DEF Busy
  <2> HIDE DEF r, p
  <2>6. inbox[w] \in Seq(Requests)
    BY <1>1 DEF TypeOK
  <2>7. /\ inbox'[w] \in Seq(Requests)
        /\ \A i \in DOMAIN inbox'[w] :
             (i \in DOMAIN inbox[w] /\ inbox'[w][i] = inbox[w][i]) \/ (i = n /\ inbox'[w][i] = r)
    <3>1. CASE inbox'[w] = inbox[w]
      BY <2>6, <3>1
    <3>2. CASE inbox'[w] = Append(inbox[w], r)
      BY <2>2, <2>6, <3>2, InboxGrows
    <3> QED BY <2>3, <3>1, <3>2
  <2>8. \A i \in DOMAIN inbox'[w] : i <= n
    <3>1. DOMAIN inbox[w] = 1..Len(inbox[w]) /\ Len(inbox[w]) \in Nat
      BY <2>6, LenProperties
    <3>2. \A i \in DOMAIN inbox[w] : i <= n
      BY <3>1
    <3>3. n <= n
      BY <3>1
    <3>4. \A i \in DOMAIN inbox'[w] : i \in DOMAIN inbox[w] \/ i = n
      BY <2>7
    <3> HIDE DEF n
    <3> QED BY <3>2, <3>3, <3>4
  <2>9. TypeOK'
    BY <1>1, <1>4, <2>3, <2>4, <2>5, <2>7 DEF TypeOK
  <2>10. InboxIsNew'
    BY <2>2, <2>3, AsksAnew
  <2>11. AnswerStands' /\ AllowIsConsent'
    BY DEF AnswerStands, AllowIsConsent
  <2>12. CloseIsNewest'
    <3>1. ASSUME NEW i \in DOMAIN inbox'[w], inbox'[w][i].id = id
          PROVE  inbox'[w][i].reason = "close" /\ \A j \in DOMAIN inbox'[w] : ~(j > i)
      <4>1. i = n /\ inbox'[w][i] = r
        BY <2>1, <2>7, <3>1
      <4>2. \A j \in DOMAIN inbox'[w] : j \in Nat /\ j <= n
        BY <2>7, <2>8, LenProperties
      <4>3. n \in Nat
        BY <2>6, LenProperties
      <4> HIDE DEF n
      <4> QED BY <2>2, <4>1, <4>2, <4>3
    <3>2. ASSUME NEW v \in Windows \ {w}, pendingWin'[v] # None
          PROVE  pendingWin[v] = pendingWin'[v] /\ inbox'[v] = inbox[v]
      BY <1>1, <2>3, <2>4, <3>2
    <3>3. pendingWin'[w].id = id /\ front'[w].id # id
      BY <2>1, <2>2, <2>4
    <3> QED BY <3>1, <3>2, <3>3 DEF CloseIsNewest
  <2>13. ArmedStays'
    <3>1. \A v \in allowWin \cup closing : v # w /\ v \in Windows
      BY <1>4 DEF TypeOK
    <3>2. \A v \in allowWin \cup closing : pendingWin'[v] = None /\ inbox'[v] = inbox[v]
      BY <1>1, <2>3, <2>4, <3>1 DEF ArmedStays
    <3> QED BY <1>4, <3>1, <3>2 DEF ArmedStays
  <2>14. QuitIsTold' /\ QuitWaitsOnOpenWindow'
    BY <2>5 DEF QuitIsTold, QuitWaitsOnOpenWindow, Quitting
  <2> QED BY <2>9, <2>10, <2>11, <2>12, <2>13, <2>14
<1> QED BY <1>2, <1>3, <1>4 DEF BeginWindowClose

(* The click, or lifecycle_request_close: nothing else changes.               *)
LEMMA CloseRequestedHolds ==
    ASSUME IInv, NEW w \in Windows, CloseRequested(w)
    PROVE  IInv'
<1>1. posted' \in Seq(Windows \cup {"exit"}) /\ \A v \in allowWin \ {w} : Posted(v)'
  BY DEF CloseRequested, IInv, TypeOK, ArmedStays, Posted
<1> QED BY <1>1, BeginWindowCloseHolds DEF CloseRequested

(* begin_exit asks every window that is open, or does nothing, or lets go.    *)
LEMMA BeginExitHolds ==
    ASSUME IInv, ~exited, BeginExit(open),
           UNCHANGED <<windowVars, allowWin, front, answers, consent>>,
           posted' \in Seq(Windows \cup {"exit"}), \A w \in allowWin : Posted(w)'
    PROVE  IInv'
<1> USE DEF IInv
<1>1. /\ LiveWin \in [Windows -> Closes \cup {None}]
      /\ \A v \in Windows : LiveWin[v] \in {pendingWin[v], None}
      /\ LiveQuit \in Quits \cup {None} /\ LiveQuit \in {pendingQuit, None}
  BY LiveWinIs, LiveQuitIs
<1>2. CASE pendingWin' = LiveWin /\ pendingQuit' = LiveQuit /\ UNCHANGED <<inbox, quitIds, votes>>
           /\ exited' \in BOOLEAN /\ allowExit' \in BOOLEAN
  <2>1. WinFades /\ QuitFades
    BY <1>1, <1>2 DEF WinFades, QuitFades, Quitting
  <2> QED BY <1>1, <1>2, <2>1, FadesHolds DEF pageVars, history
<1>3. ASSUME LiveQuit = None, open # {}, UNCHANGED <<exited, allowExit>>,
             NEW ask \in [open -> Fresh], NEW unreachable \in SUBSET open,
             pendingWin' = [w \in Windows |-> None],
             pendingQuit' = IF unreachable = {}
                            THEN [id |-> "quit", requests |-> ask, late |-> FALSE] ELSE None,
             inbox' = [w \in Windows |->
                         IF w \in (open \cap listening) \ unreachable
                         THEN Append(inbox[w], [id |-> ask[w], reason |-> "quit"]) ELSE inbox[w]],
             quitIds' = [w \in Windows |-> IF w \in open THEN ask[w] ELSE "none"],
             votes' = [w \in Windows |-> "none"]
      PROVE  IInv'
  <2> USE DEF windowVars
  <2>1. open \subseteq Windows /\ open \subseteq born
    BY DEF TypeOK
  <2>2. \A w \in open : /\ ask[w] \in Fresh /\ ask[w] \in Ids
                        /\ [id |-> ask[w], reason |-> "quit"] \in Requests
    BY <1>3, FreshIsNew DEF Requests, Reasons
  <2>3. ASSUME NEW w \in Windows
        PROVE  \/ inbox'[w] = inbox[w]
               \/ \E r \in Requests : r.id \in Fresh /\ r.reason = "quit" /\ inbox'[w] = Append(inbox[w], r)
    <3>1. CASE w \in (open \cap listening) \ unreachable
      <4> DEFINE r == [id |-> ask[w], reason |-> "quit"]
      <4>1. r \in Requests /\ r.id \in Fresh /\ r.reason = "quit"
        BY <2>2, <3>1
      <4>2. inbox'[w] = Append(inbox[w], r)
        BY <1>3, <3>1
      <4> HIDE DEF r
      <4> QED BY <4>1, <4>2
    <3>2. CASE w \notin (open \cap listening) \ unreachable
      BY <1>3, <3>2
    <3> QED BY <3>1, <3>2
  <2>4. ASSUME NEW w \in Windows
        PROVE  /\ inbox'[w] \in Seq(Requests)
               /\ \A i \in DOMAIN inbox'[w] :
                    (i \in DOMAIN inbox[w] /\ inbox'[w][i] = inbox[w][i]) \/ inbox'[w][i].reason = "quit"
    <3>1. inbox[w] \in Seq(Requests)
      BY DEF TypeOK
    <3>2. CASE inbox'[w] = inbox[w]
      BY <3>1, <3>2
    <3>3. ASSUME NEW r \in Requests, r.reason = "quit", inbox'[w] = Append(inbox[w], r)
          PROVE  /\ inbox'[w] \in Seq(Requests)
                 /\ \A i \in DOMAIN inbox'[w] :
                      (i \in DOMAIN inbox[w] /\ inbox'[w][i] = inbox[w][i]) \/ inbox'[w][i].reason = "quit"
      BY <3>1, <3>3, InboxGrows
    <3> QED BY <2>3, <3>2, <3>3
  <2>5. InboxIsNew'
    BY <2>3, AsksAnew
  <2>6. quitIds' \in [Windows -> Ids \cup {"none"}] /\ votes' \in [Windows -> {"none", "allow", "veto"}]
    BY <1>3, <2>2
  <2>7. pendingQuit' \in Quits \cup {None} /\ (Quitting' => pendingQuit'.requests = ask)
    <3>1. CASE unreachable = {}
      <4>1. ask \in [open -> Ids] /\ open \in SUBSET Windows
        BY <1>3, <2>1, <2>2
      <4>2. ask \in UNION {[labels -> Ids] : labels \in SUBSET Windows}
        BY <4>1
      <4> QED BY <1>3, <3>1, <4>2 DEF Quits
    <3>2. CASE unreachable # {}
      BY <1>3, <3>2 DEF Quitting
    <3> QED BY <3>1, <3>2
  <2>8. inbox' \in [Windows -> Seq(Requests)] /\ pendingWin' \in [Windows -> Closes \cup {None}]
    BY <1>3, <2>4
  <2>9. TypeOK'
    BY <1>3, <2>6, <2>7, <2>8 DEF TypeOK
  <2>10. AnswerStands'
    <3>1. \A a \in answers : a.window \in Windows /\ a.id \in Ids
      BY DEF TypeOK, Answers
    <3>2. \A a \in answers : quitIds'[a.window] # a.id
      BY <1>3, <3>1, FreshIsNew, NamesApart
    <3> QED BY <3>2 DEF AnswerStands
  <2>11. CloseIsNewest' /\ AllowIsConsent'
    BY <1>3 DEF CloseIsNewest, AllowIsConsent
  <2>12. ArmedStays'
    <3>1. allowWin \cup closing \subseteq Windows
      BY DEF TypeOK
    <3>2. \A w \in allowWin \cup closing :
             pendingWin'[w] = None /\ \A i \in DOMAIN inbox'[w] : inbox'[w][i].reason = "quit"
      BY <1>3, <2>4, <3>1 DEF ArmedStays
    <3> QED BY <3>2 DEF ArmedStays
  <2>13. QuitIsTold'
    BY <1>3, <2>1, <2>7 DEF QuitIsTold
  <2>14. QuitWaitsOnOpenWindow'
    BY <1>3, <2>7 DEF QuitWaitsOnOpenWindow
  <2> QED BY <2>5, <2>9, <2>10, <2>11, <2>12, <2>13, <2>14
<1>4. allowExit \in BOOLEAN /\ exited \in BOOLEAN
  BY DEF TypeOK
<1> QED BY <1>2, <1>3, <1>4 DEF BeginExit

(* The user quits, or the event loop takes up what was posted.                *)
LEMMA EventHolds ==
    ASSUME IInv, ExitRequested \/ HandlePosted
    PROVE  IInv'
<1>1. CASE ExitRequested
  <2>1. posted' \in Seq(Windows \cup {"exit"}) /\ \A w \in allowWin : Posted(w)'
    BY <1>1 DEF ExitRequested, IInv, TypeOK, ArmedStays, Posted
  <2> QED BY <1>1, <2>1, BeginExitHolds DEF ExitRequested
<1>2. CASE HandlePosted
  <2> DEFINE event == Head(posted)
  <2>1. /\ posted' \in Seq(Windows \cup {"exit"}) /\ event \in Windows \cup {"exit"}
        /\ \A e : e # event /\ Posted(e) => Posted(e)'
    BY <1>2, PostedRest DEF HandlePosted, IInv
  <2>2. \A w \in allowWin : w \in open \ closing /\ w # "exit" /\ Posted(w)
    BY NamesApart DEF IInv, ArmedStays, TypeOK
  <2> HIDE DEF event
  <2>3. CASE event = "exit"
    <3>1. \A w \in allowWin : Posted(w)'
      BY <2>1, <2>2, <2>3
    <3>2. /\ ~exited /\ BeginExit(open)
          /\ UNCHANGED <<windowVars, allowWin, front, answers, consent>>
      BY <1>2, <2>3 DEF HandlePosted, event
    <3> QED BY <2>1, <3>1, <3>2, BeginExitHolds
  <2>4. CASE event # "exit" /\ event \in open \ closing
    <3>1. \A w \in allowWin \ {event} : Posted(w)'
      BY <2>1, <2>2
    <3>2. /\ BeginWindowClose(event)
          /\ UNCHANGED <<open, born, listening, allowExit, exited, front, answers, history>>
      BY <1>2, <2>4 DEF HandlePosted, event
    <3> QED BY <2>1, <2>4, <3>1, <3>2, BeginWindowCloseHolds
  <2>5. CASE event # "exit" /\ event \notin open \ closing
    <3>1. \A w \in allowWin : Posted(w)'
      BY <2>1, <2>2, <2>5
    <3>2. UNCHANGED <<windowVars, coordinator, exited, pageVars, history>>
      BY <1>2, <2>5 DEF HandlePosted, event, windowVars, coordinator, pageVars
    <3>3. /\ pendingWin' \in [Windows -> Closes \cup {None}] /\ WinFades
          /\ pendingQuit' \in Quits \cup {None} /\ QuitFades
          /\ allowExit' \in BOOLEAN /\ exited' \in BOOLEAN /\ exited' = exited
      BY <3>2 DEF coordinator, IInv, TypeOK, WinFades, QuitFades, Quitting
    <3> QED BY <2>1, <3>1, <3>2, <3>3, FadesHolds DEF coordinator
  <2> QED BY <2>3, <2>4, <2>5
<1> QED BY <1>1, <1>2

(* A destroyed window takes its page, its requests and its quit along.        *)
LEMMA DestroyedHolds ==
    ASSUME IInv, NEW w \in Windows, Destroyed(w)
    PROVE  IInv'
<1> USE DEF IInv, history
<1>1. /\ ~exited /\ w \in closing
      /\ open' = open \ {w} /\ closing' = closing \ {w} /\ listening' = listening \ {w}
      /\ pendingWin' = [pendingWin EXCEPT ![w] = None] /\ allowWin' = allowWin \ {w}
      /\ inbox' = [inbox EXCEPT ![w] = <<>>] /\ front' = [front EXCEPT ![w] = None]
      /\ answers' = {a \in answers : a.window # w}
      /\ UNCHANGED <<born, posted, history>>
  BY DEF Destroyed, CloseWindow
<1>2. /\ pendingQuit' \in {pendingQuit, None}
      /\ Quitting' => Quitting /\ pendingQuit' = pendingQuit /\ w \notin DOMAIN pendingQuit.requests
  BY DEF Destroyed, CloseWindow, Quitting
<1>3. exited' \in BOOLEAN /\ allowExit' \in BOOLEAN
  BY DEF Destroyed, TypeOK
<1>4. /\ pendingWin'[w] = None /\ inbox'[w] = <<>> /\ front'[w] = None
      /\ \A v \in Windows \ {w} : /\ pendingWin'[v] = pendingWin[v] /\ inbox'[v] = inbox[v]
                                  /\ front'[v] = front[v]
  BY <1>1 DEF TypeOK
<1>5. TypeOK'
  <2>1. <<>> \in Seq(Requests)
    OBVIOUS
  <2>2. /\ pendingWin' \in [Windows -> Closes \cup {None}] /\ inbox' \in [Windows -> Seq(Requests)]
        /\ front' \in [Windows -> Fronts \cup {None}]
    BY <1>1, <2>1 DEF TypeOK
  <2> QED BY <1>1, <1>2, <1>3, <2>2 DEF TypeOK
<1>6. DOMAIN inbox'[w] = {}
  BY <1>4
<1>7. InboxIsNew'
  BY <1>1, <1>4, <1>6 DEF InboxIsNew
<1>8. AnswerStands'
  <2>1. \A a \in answers' : a \in answers /\ a.window \in Windows \ {w}
    BY <1>1 DEF TypeOK, Answers
  <2> QED BY <1>1, <1>4, <2>1 DEF AnswerStands
<1>9. CloseIsNewest'
  BY <1>1, <1>4 DEF CloseIsNewest
<1>10. AllowIsConsent'
  BY <1>1, <1>4 DEF AllowIsConsent
<1>11. ArmedStays'
  <2>1. allowWin' \subseteq open' \ closing'
    BY <1>1 DEF ArmedStays
  <2>2. \A v \in allowWin' \cup closing' : v \in Windows \ {w} /\ v \in allowWin \cup closing
    BY <1>1 DEF TypeOK
  <2>3. \A v \in allowWin' : Posted(v)'
    BY <1>1 DEF ArmedStays, Posted
  <2> QED BY <1>1, <1>4, <2>1, <2>2, <2>3 DEF ArmedStays
<1>12. QuitIsTold'
  <2>1. Quitting' => \A v \in open' \ DOMAIN pendingQuit'.requests :
                       v \in open \ DOMAIN pendingQuit.requests /\ v \in Windows \ {w}
    BY <1>1, <1>2 DEF TypeOK
  <2> QED BY <1>1, <1>2, <1>4, <2>1 DEF QuitIsTold
<1>13. QuitWaitsOnOpenWindow'
  <2>1. Quitting' => pendingQuit'.requests # <<>> /\ DOMAIN pendingQuit'.requests \subseteq open'
    BY <1>1, <1>2 DEF QuitWaitsOnOpenWindow
  <2>2. ASSUME open' = {} PROVE exited'
    <3>1. pendingQuit' = None
      <4>1. ASSUME Quitting' PROVE FALSE
        <5>1. Quitting /\ pendingQuit' = pendingQuit /\ pendingQuit.requests # <<>>
              /\ DOMAIN pendingQuit.requests = {}
          BY <1>2, <2>1, <2>2, <4>1
        <5>2. pendingQuit \in Quits
          BY <5>1 DEF TypeOK, Quitting
        <5>3. PICK labels \in SUBSET Windows : pendingQuit.requests \in [labels -> Ids]
          BY <5>2 DEF Quits
        <5>4. pendingQuit.requests = <<>>
          BY <5>1, <5>3
        <5> QED BY <5>1, <5>4
      <4> QED BY <4>1 DEF Quitting
    <3>2. LiveQuit' = None
      BY <3>1 DEF LiveQuit, Quitting
    <3> QED BY <2>2, <3>2 DEF Destroyed
  <2> QED BY <2>1, <2>2 DEF QuitWaitsOnOpenWindow
<1> QED BY <1>5, <1>7, <1>8, <1>9, <1>10, <1>11, <1>12, <1>13

-----------------------------------------------------------------------------
(* The page *)

(* A request that is taken up was not named by the page before.               *)
LEMMA ReceiveHolds ==
    ASSUME IInv, NEW w \in Windows, Receive(w)
    PROVE  IInv'
<1> USE DEF IInv, coordinator, windowVars
<1> DEFINE q == inbox[w]
           r == Head(inbox[w])
           p == Tail(inbox[w])
<1>1. /\ w \in open \ closing /\ q # <<>> /\ inbox' = [inbox EXCEPT ![w] = p]
      /\ UNCHANGED <<windowVars, coordinator, posted, exited, quitIds>>
  BY DEF Receive, Alive, TypeOK
<1>2. /\ p \in Seq(Requests) /\ r \in Requests /\ 1 \in DOMAIN q /\ q[1] = r
      /\ \A i \in DOMAIN p : i \in Nat \ {0} /\ i + 1 \in DOMAIN q /\ p[i] = q[i + 1] /\ i + 1 # 1
  <2>1. q \in Seq(Requests)
    BY DEF TypeOK
  <2> HIDE DEF q
  <2> QED BY <1>1, <2>1, InboxShrinks DEF q
<1>3. /\ r.id \in Ids /\ r.reason \in Reasons
      /\ r.id # front[w].id /\ \A a \in answers : a.window = w => a.id # r.id
      /\ \A i \in DOMAIN p : p[i].id # r.id
      /\ \A i \in DOMAIN p : \A j \in DOMAIN p : i # j => p[i].id # p[j].id
      /\ \A i \in DOMAIN p : p[i].id # front[w].id /\ \A a \in answers : a.window = w => a.id # p[i].id
  <2>1. r.id \in Ids /\ r.reason \in Reasons
    BY <1>2 DEF Requests
  <2>2. \A i \in DOMAIN p : \A j \in DOMAIN p : i # j => i + 1 # j + 1
    BY <1>2
  <2> HIDE DEF p, r
  <2> QED BY <1>2, <2>1, <2>2 DEF InboxIsNew
<1>4. inbox'[w] = p /\ \A v \in Windows \ {w} : inbox'[v] = inbox[v]
  BY <1>1 DEF TypeOK
<1>5. inbox' \in [Windows -> Seq(Requests)]
  BY <1>1, <1>2 DEF TypeOK
<1>6. pendingWin[w] # None =>
        /\ r.id = pendingWin[w].id => r.reason = "close" /\ \A i \in DOMAIN p : p[i].reason = "quit"
        /\ \A i \in DOMAIN p : p[i].id = pendingWin[w].id =>
             p[i].reason = "close" /\ \A j \in DOMAIN p : j > i => p[j].reason = "quit"
  <2>1. \A i \in DOMAIN p : i + 1 > 1 /\ \A j \in DOMAIN p : j > i => j + 1 > i + 1
    BY <1>2
  <2> HIDE DEF p, r
  <2> QED BY <1>2, <2>1 DEF CloseIsNewest
<1>7. w \in allowWin => r.reason = "quit" /\ \A i \in DOMAIN p : p[i].reason = "quit"
  BY <1>2 DEF ArmedStays
<1>8. Quitting /\ w \notin DOMAIN pendingQuit.requests /\ quitIds[w] # "none" =>
        r.id # quitIds[w] /\ \A i \in DOMAIN p : p[i].id # quitIds[w]
  BY <1>1, <1>2 DEF QuitIsTold
<1>9. CASE front[w] = None
  <2> DEFINE f == [id |-> r.id, reason |-> r.reason, phase |-> "preparing"]
  <2>1. /\ front' = [front EXCEPT ![w] = f] /\ UNCHANGED <<answers, votes>>
        /\ consent' = IF r.reason = "close" THEN consent \ {w} ELSE consent
    BY <1>9 DEF Receive
  <2>2. f \in Fronts /\ f.id = r.id /\ f.reason = r.reason /\ f.phase = "preparing"
    BY <1>3 DEF Fronts, Phases
  <2> HIDE DEF f, r, p
  <2>3. front'[w] = f /\ \A v \in Windows \ {w} : front'[v] = front[v]
    BY <2>1 DEF TypeOK
  <2>4. TypeOK'
    BY <1>1, <1>5, <2>1, <2>2 DEF TypeOK
  <2>5. InboxIsNew'
    BY <1>3, <1>4, <2>1, <2>2, <2>3 DEF InboxIsNew
  <2>6. AnswerStands'
    <3>1. ASSUME NEW a \in answers, a.window = w PROVE a.outcome # "allow" /\ a.id # r.id
      <4>1. a.id \in Ids
        BY DEF TypeOK, Answers
      <4>2. front[w].id # a.id
        BY <1>9, <4>1, NamesApart, NoneApart
      <4> QED BY <1>3, <3>1, <4>2 DEF AnswerStands
    <3>2. \A a \in answers : a.window \in Windows
      BY DEF TypeOK, Answers
    <3> QED BY <1>1, <2>1, <2>2, <2>3, <3>1, <3>2 DEF AnswerStands
  <2>7. CloseIsNewest'
    BY <1>1, <1>4, <1>6, <2>2, <2>3 DEF CloseIsNewest
  <2>8. AllowIsConsent'
    BY <2>1, <2>2, <2>3 DEF AllowIsConsent
  <2>9. ArmedStays'
    <3>1. \A v \in allowWin \cup closing : v \in Windows /\ (v = w => v \in allowWin)
      BY <1>1 DEF TypeOK
    <3>2. \A v \in allowWin : Posted(v)'
      BY <1>1 DEF ArmedStays, Posted
    <3> QED BY <1>1, <1>4, <1>7, <2>1, <2>2, <2>3, <3>1, <3>2 DEF ArmedStays
  <2>10. QuitIsTold'
    <3>1. open \subseteq Windows
      BY DEF TypeOK
    <3> QED BY <1>1, <1>4, <1>8, <2>1, <2>2, <2>3, <3>1 DEF QuitIsTold, Quitting
  <2>11. QuitWaitsOnOpenWindow'
    BY <1>1 DEF QuitWaitsOnOpenWindow, Quitting
  <2> QED BY <2>4, <2>5, <2>6, <2>7, <2>8, <2>9, <2>10, <2>11
<1>10. CASE front[w] # None
  <2> DEFINE b == [window |-> w, id |-> r.id, outcome |-> "veto"]
  <2>1. /\ answers' = answers \cup {b}
        /\ votes' = (IF quitIds[w] = r.id THEN [votes EXCEPT ![w] = "veto"] ELSE votes)
        /\ UNCHANGED <<front, consent>>
    BY <1>10 DEF Receive, Answer
  <2>2. b \in Answers /\ b.window = w /\ b.id = r.id /\ b.outcome = "veto"
    BY <1>3 DEF Answers
  <2> HIDE DEF b, r, p
  <2>3. /\ quitIds[w] = r.id => votes'[w] = "veto"
        /\ \A v \in Windows : (v = w /\ quitIds[w] = r.id) \/ votes'[v] = votes[v]
    BY <2>1 DEF TypeOK
  <2>4. votes' \in [Windows -> {"none", "allow", "veto"}]
    BY <2>1 DEF TypeOK
  <2>5. TypeOK'
    BY <1>1, <1>5, <2>1, <2>2, <2>4 DEF TypeOK
  <2>6. InboxIsNew'
    BY <1>3, <1>4, <2>1, <2>2 DEF InboxIsNew
  <2>7. AnswerStands'
    <3>1. ASSUME NEW a \in answers
          PROVE  quitIds[a.window] = a.id => votes'[a.window] = a.outcome
      BY <1>3, <2>3 DEF AnswerStands, TypeOK, Answers
    <3> QED BY <1>1, <1>3, <2>1, <2>2, <2>3, <3>1 DEF AnswerStands
  <2>8. CloseIsNewest'
    <3>1. \A i \in DOMAIN p : i + 1 \in DOMAIN q /\ p[i] = q[i + 1]
      BY <1>2
    <3> QED BY <1>1, <1>4, <1>6, <2>1, <3>1 DEF CloseIsNewest
  <2>9. AllowIsConsent'
    BY <2>1 DEF AllowIsConsent
  <2>10. ArmedStays'
    <3>1. \A v \in allowWin \cup closing : v \in Windows /\ (v = w => v \in allowWin)
      BY <1>1 DEF TypeOK
    <3>2. \A v \in allowWin : Posted(v)'
      BY <1>1 DEF ArmedStays, Posted
    <3> QED BY <1>1, <1>4, <1>7, <2>1, <3>1, <3>2 DEF ArmedStays
  <2>11. QuitIsTold'
    <3>1. open \subseteq Windows
      BY DEF TypeOK
    <3> QED BY <1>1, <1>4, <1>8, <2>1, <2>3, <3>1 DEF QuitIsTold, Quitting
  <2>12. QuitWaitsOnOpenWindow'
    BY <1>1 DEF QuitWaitsOnOpenWindow, Quitting
  <2> QED BY <2>5, <2>6, <2>7, <2>8, <2>9, <2>10, <2>11, <2>12
<1> QED BY <1>9, <1>10

(* The page says allow or veto on a request it has not answered yet, or whose *)
(* allow was refused.                                                         *)
LEMMA AnswerHolds ==
    ASSUME IInv, NEW w \in Windows, Agree(w) \/ Veto(w)
    PROVE  IInv'
<1> USE DEF IInv, coordinator, windowVars
<1>1. PICK outcome \in {"allow", "veto"} :
        /\ w \in open \ closing /\ front[w] # None /\ front[w].phase \in {"preparing", "refused"}
        /\ front' = [front EXCEPT ![w].phase = IF outcome = "allow" THEN "allowing" ELSE "vetoing"]
        /\ answers' = answers \cup {[window |-> w, id |-> front[w].id, outcome |-> outcome]}
        /\ votes' = (IF quitIds[w] = front[w].id THEN [votes EXCEPT ![w] = outcome] ELSE votes)
        /\ consent' = (IF outcome = "allow" /\ front[w].reason = "close"
                       THEN consent \cup {w} ELSE consent)
        /\ UNCHANGED <<windowVars, coordinator, posted, exited, inbox, quitIds>>
  <2>1. CASE Agree(w)
    BY <2>1 DEF Agree, Answer, Alive
  <2>2. CASE Veto(w)
    BY <2>2 DEF Veto, Answer, Alive
  <2> QED BY <2>1, <2>2
<1> DEFINE f == [front[w] EXCEPT !.phase = IF outcome = "allow" THEN "allowing" ELSE "vetoing"]
           b == [window |-> w, id |-> front[w].id, outcome |-> outcome]
<1>2. front[w] \in Fronts /\ front' = [front EXCEPT ![w] = f]
  BY <1>1 DEF TypeOK
<1>3. /\ f \in Fronts /\ f.id = front[w].id /\ f.reason = front[w].reason
      /\ f.phase = IF outcome = "allow" THEN "allowing" ELSE "vetoing"
      /\ b \in Answers /\ b.window = w /\ b.id = front[w].id /\ b.outcome = outcome
      /\ answers' = answers \cup {b}
  BY <1>1, <1>2 DEF Fronts, Phases, Answers
<1> HIDE DEF f, b
<1>4. front'[w] = f /\ \A v \in Windows \ {w} : front'[v] = front[v]
  BY <1>2 DEF TypeOK
<1>5. /\ quitIds[w] = front[w].id => votes'[w] = outcome
      /\ \A v \in Windows : (v = w /\ quitIds[w] = front[w].id) \/ votes'[v] = votes[v]
      /\ votes' \in [Windows -> {"none", "allow", "veto"}]
  BY <1>1 DEF TypeOK
<1>6. f # None
  BY <1>3, NoneApart
<1>7. TypeOK'
  <2>1. front' \in [Windows -> Fronts \cup {None}]
    BY <1>2, <1>3 DEF TypeOK
  <2>2. answers' \subseteq Answers
    BY <1>3 DEF TypeOK
  <2>3. consent' \subseteq Windows
    BY <1>1 DEF TypeOK
  <2> QED BY <1>1, <1>5, <2>1, <2>2, <2>3 DEF TypeOK
<1>8. InboxIsNew'
  BY <1>1, <1>3, <1>4 DEF InboxIsNew
<1>9. AnswerStands'
  <2>1. ASSUME NEW a \in answers
        PROVE  a.window \in Windows /\ (a.window = w => a.id # front[w].id /\ a.outcome # "allow")
    <3>1. a.window \in Windows /\ a.outcome \in {"allow", "veto"}
      BY DEF TypeOK, Answers
    <3>2. a.window = w => a.id # front[w].id
      BY <1>1, <3>1 DEF AnswerStands
    <3> QED BY <3>1, <3>2 DEF AnswerStands
  <2>2. ASSUME NEW a \in answers
        PROVE  quitIds[a.window] = a.id => votes'[a.window] = a.outcome
    BY <1>5, <2>1 DEF AnswerStands
  <2>3. ASSUME NEW a \in answers
        PROVE  /\ a.outcome = "allow" => front'[a.window].id = a.id
               /\ front'[a.window].id = a.id =>
                    front'[a.window].phase = IF a.outcome = "allow" THEN "allowing" ELSE "vetoing"
    BY <1>3, <1>4, <2>1 DEF AnswerStands
  <2> QED BY <1>1, <1>3, <1>4, <1>5, <2>2, <2>3 DEF AnswerStands
<1>10. CloseIsNewest'
  BY <1>1, <1>3, <1>4 DEF CloseIsNewest
<1>11. AllowIsConsent'
  BY <1>1, <1>3, <1>4 DEF AllowIsConsent
<1>12. ArmedStays'
  <2>1. allowWin \cup closing \subseteq Windows
    BY DEF TypeOK
  <2>2. w \in allowWin \cup closing => front[w].reason = "quit"
    BY <1>1 DEF ArmedStays
  <2>3. \A v \in allowWin : Posted(v)'
    BY <1>1 DEF ArmedStays, Posted
  <2> QED BY <1>1, <1>3, <1>4, <2>1, <2>2, <2>3 DEF ArmedStays
<1>13. QuitIsTold'
  <2>1. open \subseteq Windows
    BY DEF TypeOK
  <2>2. Quitting /\ w \in open \ DOMAIN pendingQuit.requests /\ quitIds[w] # "none" =>
          front[w].id # quitIds[w]
    BY <1>1 DEF QuitIsTold
  <2> QED BY <1>1, <1>3, <1>4, <1>5, <2>1, <2>2 DEF QuitIsTold, Quitting
<1>14. QuitWaitsOnOpenWindow'
  BY <1>1 DEF QuitWaitsOnOpenWindow, Quitting
<1> QED BY <1>7, <1>8, <1>9, <1>10, <1>11, <1>12, <1>13, <1>14

(* A page that has settled a request has no answer to it in flight.           *)
LEMMA SettleHolds ==
    ASSUME IInv, NEW w \in Windows, Settle(w)
    PROVE  IInv'
<1> USE DEF IInv, coordinator, windowVars, history
<1>1. /\ front[w] # None /\ front[w].phase = "settling" /\ front' = [front EXCEPT ![w] = None]
      /\ UNCHANGED <<windowVars, coordinator, posted, exited, inbox, answers, history>>
  BY DEF Settle
<1>2. front'[w] = None /\ \A v \in Windows \ {w} : front'[v] = front[v]
  BY <1>1 DEF TypeOK
<1>3. TypeOK'
  BY <1>1 DEF TypeOK
<1>4. /\ \A v \in Windows : \A i \in DOMAIN inbox[v] : inbox[v][i].id # "none"
      /\ \A v \in Windows : pendingWin[v] # None => pendingWin[v].id # "none"
      /\ \A a \in answers : a.id # "none" /\ a.window \in Windows
  <2>1. \A v \in Windows : \A i \in DOMAIN inbox[v] : inbox[v][i] \in Requests
    BY DEF TypeOK
  <2> QED BY <2>1, NamesApart, NoneApart DEF TypeOK, Requests, Answers
<1>5. InboxIsNew'
  BY <1>1, <1>2, <1>4, NoneApart DEF InboxIsNew
<1>6. AnswerStands'
  <2>1. \A a \in answers : a.window = w => a.outcome # "allow"
    BY <1>1 DEF AnswerStands
  <2> QED BY <1>1, <1>2, <1>4, <2>1, NoneApart DEF AnswerStands
<1>7. CloseIsNewest'
  BY <1>1, <1>2, <1>4, NoneApart DEF CloseIsNewest
<1>8. AllowIsConsent'
  BY <1>1, <1>2 DEF AllowIsConsent
<1>9. ArmedStays'
  <2>1. allowWin \cup closing \subseteq Windows
    BY DEF TypeOK
  <2> QED BY <1>1, <1>2, <2>1 DEF ArmedStays, Posted
<1>10. QuitIsTold'
  <2>1. open \subseteq Windows
    BY DEF TypeOK
  <2> QED BY <1>1, <1>2, <2>1, NoneApart DEF QuitIsTold, Quitting
<1>11. QuitWaitsOnOpenWindow'
  BY <1>1 DEF QuitWaitsOnOpenWindow, Quitting
<1> QED BY <1>3, <1>5, <1>6, <1>7, <1>8, <1>9, <1>10, <1>11

-----------------------------------------------------------------------------
(* lifecycle_complete_close *)

(* The page that waits for the result of its answer learns it, no other does. *)
LEMMA ReturnsIs ==
    ASSUME IInv, NEW a \in answers, NEW ok \in {TRUE, FALSE}, Returns(a, ok)
    PROVE  /\ front' \in [Windows -> Fronts \cup {None}]
           /\ \A v \in Windows :
                /\ front'[v].id = front[v].id /\ front'[v].reason = front[v].reason
                /\ front'[v] # None => front[v] # None
           /\ \A v \in Windows \ {a.window} : front'[v] = front[v]
           /\ front[a.window].id # a.id => front'[a.window] = front[a.window]
           /\ front[a.window].id = a.id =>
                front'[a.window].phase = IF ok \/ a.outcome = "veto" THEN "settling" ELSE "refused"
<1> USE DEF IInv
<1> DEFINE w == a.window
           phase == IF ok \/ a.outcome = "veto" THEN "settling" ELSE "refused"
           f == [front[w] EXCEPT !.phase = phase]
<1>1. w \in Windows /\ a.id \in Ids /\ a.outcome \in {"allow", "veto"}
  BY DEF TypeOK, Answers
<1>2. CASE front[w].id = a.id
  <2>1. front[w].phase = (IF a.outcome = "allow" THEN "allowing" ELSE "vetoing") /\ front[w] # None
    BY <1>1, <1>2, NamesApart, NoneApart DEF AnswerStands
  <2>2. front[w].phase \in {"allowing", "vetoing"}
        /\ (front[w].phase = "vetoing") = (a.outcome = "veto")
    BY <1>1, <2>1
  <2>3. front' = [front EXCEPT ![w].phase =
                     IF ok \/ @ = "vetoing" THEN "settling" ELSE "refused"]
    BY <1>2, <2>1, <2>2 DEF Returns
  <2>4. front' = [front EXCEPT ![w] = f]
    <3>1. CASE ok = TRUE
      BY <2>3, <3>1
    <3>2. CASE ok = FALSE
      BY <2>2, <2>3, <3>2
    <3> QED BY <3>1, <3>2
  <2>5. front[w] \in Fronts /\ phase \in {"settling", "refused"}
    BY <1>1, <2>1 DEF TypeOK
  <2>6. f \in Fronts /\ f.id = front[w].id /\ f.reason = front[w].reason /\ f.phase = phase
    <3> HIDE DEF phase
    <3> QED BY <2>5 DEF Fronts, Phases
  <2> HIDE DEF f, phase, w
  <2>7. front'[w] = f /\ \A v \in Windows \ {w} : front'[v] = front[v]
    BY <1>1, <2>4 DEF TypeOK
  <2>8. front' \in [Windows -> Fronts \cup {None}]
    BY <2>4, <2>6 DEF TypeOK
  <2> QED BY <1>2, <2>1, <2>6, <2>7, <2>8 DEF w, phase
<1>3. CASE front[w].id # a.id
  BY <1>3 DEF Returns, TypeOK
<1> QED BY <1>2, <1>3

(* However an answer is taken, what the page and the others said stands.      *)
LEMMA AnswerTaken ==
    ASSUME IInv, NEW a \in answers, NEW ok \in {TRUE, FALSE}, Returns(a, ok),
           answers' = answers \ {a}, UNCHANGED <<inbox, quitIds, votes>>
    PROVE  InboxIsNew' /\ AnswerStands'
<1> USE DEF IInv
<1>1. \A b \in answers : b.window \in Windows /\ b.id \in Ids /\ b.outcome \in {"allow", "veto"}
  BY DEF TypeOK, Answers
<1>2. \A v \in Windows : front'[v].id = front[v].id
  BY ReturnsIs
<1>3. InboxIsNew'
  BY <1>2 DEF InboxIsNew
<1>4. ASSUME NEW b \in answers, b # a, front[b.window].id = b.id
      PROVE  front'[b.window] = front[b.window]
  <2>1. CASE b.window # a.window
    BY <1>1, <2>1, ReturnsIs
  <2>2. CASE b.window = a.window /\ front[a.window].id # a.id
    BY <2>2, ReturnsIs
  <2>3. CASE b.window = a.window /\ front[a.window].id = a.id
    <3>1. b.outcome = a.outcome
      BY <1>1, <1>4, <2>3 DEF AnswerStands
    <3>2. a \in Answers /\ b \in Answers
      BY DEF TypeOK
    <3>3. a.id = b.id /\ a.window = b.window
      BY <1>4, <2>3
    <3>4. b = a
      BY <3>1, <3>2, <3>3 DEF Answers
    <3> QED BY <1>4, <3>4
  <2> QED BY <2>1, <2>2, <2>3
<1>5. AnswerStands'
  BY <1>1, <1>2, <1>4 DEF AnswerStands
<1> QED BY <1>3, <1>5

(* The close of a window was allowed, or vetoed, in time.                     *)
LEMMA CompleteWindowHolds ==
    ASSUME IInv, NEW a \in answers, LiveWin[a.window] # None, LiveWin[a.window].id = a.id,
           CompleteWindow(a), answers' = answers \ {a},
           UNCHANGED <<windowVars, exited, inbox, quitIds, votes>>
    PROVE  IInv'
<1> USE DEF IInv, windowVars
<1> DEFINE w == a.window
<1>1. /\ LiveWin \in [Windows -> Closes \cup {None}]
      /\ \A v \in Windows : LiveWin[v] \in {pendingWin[v], None}
      /\ LiveQuit \in Quits \cup {None} /\ LiveQuit \in {pendingQuit, None}
  BY LiveWinIs, LiveQuitIs
<1>2. w \in Windows /\ a.id \in Ids /\ a.outcome \in {"allow", "veto"}
  BY DEF TypeOK, Answers
<1>3. pendingWin[w] # None /\ pendingWin[w].id = a.id /\ w \in open /\ w \notin allowWin \cup closing
  BY <1>1, <1>2 DEF CloseIsNewest, ArmedStays
<1>4. /\ pendingWin' \in [Windows -> Closes \cup {None}] /\ pendingWin'[w] = None /\ WinFades
      /\ \A v \in Windows : pendingWin[v] = None => pendingWin'[v] = None
      /\ pendingQuit' \in Quits \cup {None} /\ QuitFades
  <2>1. pendingWin' = [LiveWin EXCEPT ![w] = None] /\ pendingQuit' = LiveQuit
    BY DEF CompleteWindow
  <2> HIDE DEF w
  <2> QED BY <1>1, <1>2, <2>1 DEF WinFades, QuitFades, Quitting
<1>5. PICK ok \in {TRUE, FALSE} :
        /\ Returns(a, ok)
        /\ allowWin' \subseteq allowWin \cup {w}
        /\ allowExit' \in BOOLEAN
        /\ consent \ {w} \subseteq consent' /\ consent' \subseteq consent
        /\ w \in allowWin' => a.outcome = "allow" /\ ok = TRUE /\ consent' = consent
        /\ a.outcome = "veto" => consent' = consent
        /\ posted' \in Seq(Windows \cup {"exit"})
        /\ \A v \in allowWin' : Posted(v)'
  <2>1. \A v \in allowWin : Posted(v)
    BY DEF ArmedStays
  <2>2. CASE a.outcome = "allow" /\ ClosePosted(a)
    <3>1. /\ posted' \in Seq(Windows \cup {"exit"}) /\ Posted(w)'
          /\ \A e : Posted(e) => Posted(e)'
      BY <1>2, <2>2, PostedMore DEF ClosePosted
    <3>2. allowExit' \in BOOLEAN
      <4>1. allowExit' = (allowExit \/ Cardinality(open) = 1)
        BY <2>2 DEF ClosePosted
      <4>2. (allowExit \/ Cardinality(open) = 1) \in BOOLEAN
        OBVIOUS
      <4> QED BY <4>1, <4>2
    <3>3. Returns(a, TRUE) /\ allowWin' = allowWin \cup {w} /\ consent' = consent
      BY <2>2 DEF ClosePosted
    <3> WITNESS TRUE \in {TRUE, FALSE}
    <3> QED BY <2>1, <2>2, <3>1, <3>2, <3>3
  <2>3. CASE a.outcome = "allow" /\ CloseFails(a)
    <3>1. /\ Returns(a, FALSE) /\ allowWin' = allowWin \ {w} /\ consent' = consent \ {w}
          /\ allowExit' \in BOOLEAN /\ posted' = posted
      BY <2>3 DEF CloseFails
    <3>2. posted' \in Seq(Windows \cup {"exit"}) /\ \A v \in allowWin' : Posted(v)'
      BY <2>1, <3>1 DEF TypeOK, Posted
    <3> WITNESS FALSE \in {TRUE, FALSE}
    <3> QED BY <2>3, <3>1, <3>2
  <2>4. CASE a.outcome # "allow"
    <3>1. /\ Returns(a, TRUE) /\ UNCHANGED <<allowWin, allowExit, posted, consent>>
      BY <2>4 DEF CompleteWindow
    <3>2. /\ posted' \in Seq(Windows \cup {"exit"}) /\ \A v \in allowWin' : Posted(v)'
          /\ allowExit' \in BOOLEAN
      BY <2>1, <3>1 DEF TypeOK, Posted
    <3>3. w \notin allowWin'
      BY <1>3, <3>1
    <3> WITNESS TRUE \in {TRUE, FALSE}
    <3> QED BY <3>1, <3>2, <3>3
  <2> QED BY <2>2, <2>3, <2>4 DEF CompleteWindow
<1>6. /\ front' \in [Windows -> Fronts \cup {None}]
      /\ \A v \in Windows : /\ front'[v].id = front[v].id /\ front'[v].reason = front[v].reason
                            /\ front'[v] # None => front[v] # None
      /\ \A v \in Windows \ {w} : front'[v] = front[v]
      /\ front[w].id # a.id => front'[w] = front[w]
      /\ front[w].id = a.id =>
           front'[w].phase = IF ok \/ a.outcome = "veto" THEN "settling" ELSE "refused"
  BY <1>5, ReturnsIs
<1>7. front[w].id = a.id => front[w].phase # "settling"
  BY <1>2 DEF AnswerStands
<1>8. a.outcome = "allow" =>
        /\ front[w].id = a.id /\ front[w] # None /\ front[w].reason = "close" /\ w \in consent
        /\ \A i \in DOMAIN inbox[w] : inbox[w][i].reason = "quit"
  <2>1. ASSUME a.outcome = "allow"
        PROVE  /\ front[w].id = a.id /\ front[w].phase = "allowing" /\ front[w].reason = "close"
               /\ \A i \in DOMAIN inbox[w] : inbox[w][i].reason = "quit"
    BY <1>2, <1>3, <2>1 DEF AnswerStands, CloseIsNewest
  <2>2. front[w].id = a.id => front[w] # None
    BY <1>2, NamesApart, NoneApart
  <2> QED BY <1>2, <2>1, <2>2 DEF AllowIsConsent
<1> HIDE DEF w
<1>9. TypeOK'
  <2>1. allowWin' \subseteq Windows /\ consent' \subseteq Windows /\ answers' \subseteq Answers
    BY <1>2, <1>5 DEF TypeOK
  <2> QED BY <1>4, <1>5, <1>6, <2>1 DEF TypeOK
<1>10. InboxIsNew' /\ AnswerStands'
  BY <1>5, AnswerTaken
<1>11. CloseIsNewest'
  BY <1>4, <1>6 DEF CloseIsNewest, WinFades
<1>12. AllowIsConsent'
  <2>1. \A v \in Windows \ {w} : v \in consent => v \in consent'
    BY <1>5
  <2>2. front[w].id = a.id => front'[w].phase # "allowing"
    BY <1>6
  <2>3. front[w].id # a.id => consent' = consent
    BY <1>2, <1>5, <1>8
  <2> QED BY <1>6, <2>1, <2>2, <2>3 DEF AllowIsConsent
<1>13. ArmedStays'
  <2>1. allowWin' \subseteq open' \ closing'
    BY <1>3, <1>5 DEF ArmedStays
  <2>2. allowWin' \cup closing' \subseteq Windows
    BY <1>2, <1>5 DEF TypeOK
  <2>3. ASSUME NEW v \in allowWin' \cup closing', v # w
        PROVE  /\ v \in consent' /\ pendingWin'[v] = None
               /\ \A i \in DOMAIN inbox'[v] : inbox'[v][i].reason = "quit"
               /\ front'[v] # None => front'[v].reason = "quit" \/ front'[v].phase = "settling"
    <3>1. v \in Windows /\ v \in allowWin \cup closing /\ front'[v] = front[v]
      BY <1>5, <1>6, <2>2, <2>3
    <3> QED BY <1>4, <1>5, <2>3, <3>1 DEF ArmedStays
  <2>4. ASSUME w \in allowWin' \cup closing'
        PROVE  /\ w \in consent' /\ pendingWin'[w] = None
               /\ \A i \in DOMAIN inbox'[w] : inbox'[w][i].reason = "quit"
               /\ front'[w].phase = "settling"
    <3>1. w \in allowWin'
      BY <1>3, <2>4
    <3>2. a.outcome = "allow" /\ ok = TRUE /\ consent' = consent
      BY <1>5, <3>1
    <3> QED BY <1>4, <1>6, <1>8, <3>2
  <2> QED BY <1>5, <2>1, <2>3, <2>4 DEF ArmedStays
<1>14. QuitIsTold'
  <2>1. open \subseteq Windows
    BY DEF TypeOK
  <2>2. \A v \in Windows : front[v].phase = "settling" => front'[v] = front[v] \/ (v = w /\ front[w].id = a.id)
    BY <1>6
  <2> QED BY <1>4, <1>6, <1>7, <2>1, <2>2 DEF QuitIsTold, QuitFades
<1>15. QuitWaitsOnOpenWindow'
  BY <1>4 DEF QuitWaitsOnOpenWindow, QuitFades
<1> QED BY <1>9, <1>10, <1>11, <1>12, <1>13, <1>14, <1>15

(* A quit got an answer from a window it still waits for.                     *)
LEMMA CompleteQuitHolds ==
    ASSUME IInv, NEW a \in answers, AnswersQuit(a), CompleteQuit(a), answers' = answers \ {a},
           UNCHANGED <<windowVars, exited, inbox, quitIds, votes>>
    PROVE  IInv'
<1> USE DEF IInv, windowVars
<1> DEFINE w == a.window
           rest == DOMAIN LiveQuit.requests \ {w}
           kept == [v \in rest |-> LiveQuit.requests[v]]
<1>1. /\ LiveWin \in [Windows -> Closes \cup {None}]
      /\ \A v \in Windows : LiveWin[v] \in {pendingWin[v], None}
      /\ LiveQuit = pendingQuit /\ pendingQuit \in Quits /\ Quitting
  BY LiveWinIs, LiveQuitIs DEF AnswersQuit, Quitting
<1>2. w \in Windows /\ a.id \in Ids /\ a.outcome \in {"allow", "veto"}
  BY DEF TypeOK, Answers
<1>3. PICK labels \in SUBSET Windows : pendingQuit.requests \in [labels -> Ids]
  BY <1>1 DEF Quits
<1>4. w \in labels /\ pendingQuit.requests[w] = a.id /\ quitIds[w] = a.id
  BY <1>1, <1>3 DEF AnswersQuit, QuitIsTold
<1>5. /\ UNCHANGED <<allowWin, consent>> /\ Returns(a, TRUE)
      /\ pendingWin' = LiveWin
      /\ allowExit' \in BOOLEAN
      /\ posted' = posted \/ posted' = Append(posted, "exit")
  BY DEF CompleteQuit, TypeOK
<1>6. posted' \in Seq(Windows \cup {"exit"}) /\ \A v \in allowWin' : Posted(v)'
  <2>1. CASE posted' = posted
    BY <1>5, <2>1 DEF TypeOK, ArmedStays, Posted
  <2>2. CASE posted' = Append(posted, "exit")
    BY <1>5, <2>2, PostedMore DEF ArmedStays
  <2> QED BY <1>5, <2>1, <2>2
<1>7. /\ pendingQuit' \in Quits \cup {None}
      /\ Quitting' => a.outcome = "allow" /\ pendingQuit'.requests = kept /\ rest # {}
  <2>1. CASE a.outcome = "veto" \/ rest = {}
    BY <2>1 DEF CompleteQuit, Quitting
  <2>2. CASE a.outcome = "allow" /\ rest # {}
    <3>1. pendingQuit' = [pendingQuit EXCEPT !.requests = kept]
      BY <1>1, <2>2 DEF CompleteQuit
    <3>2. kept \in [rest -> Ids] /\ rest \in SUBSET Windows
      BY <1>1, <1>3
    <3>3. kept \in UNION {[ls -> Ids] : ls \in SUBSET Windows}
      BY <3>2
    <3> HIDE DEF kept
    <3>4. pendingQuit' \in Quits /\ pendingQuit'.requests = kept
      BY <1>1, <3>1, <3>3 DEF Quits
    <3> QED BY <2>2, <3>4
  <2> QED BY <1>2, <2>1, <2>2
<1>8. /\ front' \in [Windows -> Fronts \cup {None}]
      /\ \A v \in Windows : /\ front'[v].id = front[v].id /\ front'[v].reason = front[v].reason
                            /\ front'[v] # None => front[v] # None
      /\ \A v \in Windows \ {w} : front'[v] = front[v]
      /\ front[w].id # a.id => front'[w] = front[w]
      /\ front[w].id = a.id => front'[w].phase = "settling"
  BY <1>5, ReturnsIs
<1>9. votes[w] = a.outcome
  BY <1>4 DEF AnswerStands
<1>10. DOMAIN kept = labels \ {w} /\ \A v \in labels \ {w} : kept[v] = pendingQuit.requests[v]
  BY <1>1, <1>3
<1>11. rest = labels \ {w}
  BY <1>1, <1>3
<1> HIDE DEF w, kept, rest
<1>12. TypeOK'
  BY <1>1, <1>5, <1>6, <1>7, <1>8 DEF TypeOK
<1>13. InboxIsNew' /\ AnswerStands'
  BY <1>5, AnswerTaken
<1>14. CloseIsNewest'
  BY <1>1, <1>5, <1>8 DEF CloseIsNewest
<1>15. AllowIsConsent'
  BY <1>5, <1>8 DEF AllowIsConsent
<1>16. ArmedStays'
  <2>1. allowWin \cup closing \subseteq Windows
    BY DEF TypeOK
  <2>2. \A v \in allowWin \cup closing : pendingWin'[v] = None
    BY <1>1, <1>5, <2>1 DEF ArmedStays
  <2> QED BY <1>5, <1>6, <1>8, <2>1, <2>2 DEF ArmedStays
<1>17. QuitIsTold'
  <2>1. \A i \in DOMAIN inbox[w] : inbox[w][i].id # a.id
    BY <1>2 DEF InboxIsNew, w
  <2>2. open \subseteq Windows
    BY DEF TypeOK
  <2>3. Quitting' => \A v \in DOMAIN pendingQuit'.requests : pendingQuit'.requests[v] = quitIds[v]
    BY <1>1, <1>3, <1>7, <1>10 DEF QuitIsTold
  <2>4. ASSUME Quitting', NEW v \in open \ DOMAIN pendingQuit'.requests, quitIds[v] # "none"
        PROVE  /\ votes[v] = "allow"
               /\ front'[v].id = quitIds[v] => front'[v].phase = "settling"
               /\ \A i \in DOMAIN inbox[v] : inbox[v][i].id # quitIds[v]
    <3>1. CASE v = w
      BY <1>4, <1>7, <1>8, <1>9, <2>1, <2>2, <2>4, <3>1
    <3>2. CASE v # w
      <4>1. v \in open \ DOMAIN pendingQuit.requests /\ v \in Windows \ {w}
        BY <1>3, <1>7, <1>10, <2>2, <2>4, <3>2
      <4> QED BY <1>1, <1>8, <2>4, <4>1 DEF QuitIsTold
    <3> QED BY <3>1, <3>2
  <2> QED BY <2>3, <2>4 DEF QuitIsTold
<1>18. QuitWaitsOnOpenWindow'
  <2>1. Quitting' => pendingQuit'.requests # <<>>
    BY <1>7, <1>10, <1>11
  <2>2. Quitting' => DOMAIN pendingQuit'.requests \subseteq open
    BY <1>1, <1>3, <1>7, <1>10 DEF QuitWaitsOnOpenWindow
  <2> QED BY <2>1, <2>2 DEF QuitWaitsOnOpenWindow
<1> QED BY <1>12, <1>13, <1>14, <1>15, <1>16, <1>17, <1>18

(* An answer that native no longer waits for changes only what its page does. *)
LEMMA RejectAnswerHolds ==
    ASSUME IInv, NEW a \in answers, RejectAnswer(a), answers' = answers \ {a},
           UNCHANGED <<windowVars, exited, inbox, quitIds, votes>>
    PROVE  IInv'
<1> USE DEF IInv, windowVars
<1> DEFINE w == a.window
<1>1. /\ LiveWin \in [Windows -> Closes \cup {None}]
      /\ \A v \in Windows : LiveWin[v] \in {pendingWin[v], None}
      /\ LiveQuit \in Quits \cup {None} /\ LiveQuit \in {pendingQuit, None}
  BY LiveWinIs, LiveQuitIs
<1>2. w \in Windows /\ a.id \in Ids /\ a.outcome \in {"allow", "veto"}
  BY DEF TypeOK, Answers
<1>3. /\ pendingWin' = LiveWin /\ pendingQuit' = LiveQuit /\ Returns(a, FALSE)
      /\ consent' = (IF a.outcome = "allow" /\ front[w].reason = "close"
                     THEN consent \ {w} ELSE consent)
      /\ UNCHANGED <<allowWin, allowExit, posted>>
  BY DEF RejectAnswer
<1>4. /\ front' \in [Windows -> Fronts \cup {None}]
      /\ \A v \in Windows : /\ front'[v].id = front[v].id /\ front'[v].reason = front[v].reason
                            /\ front'[v] # None => front[v] # None
      /\ \A v \in Windows \ {w} : front'[v] = front[v]
      /\ front[w].id # a.id => front'[w] = front[w]
      /\ front[w].id = a.id =>
           front'[w].phase = IF a.outcome = "veto" THEN "settling" ELSE "refused"
  BY <1>3, ReturnsIs
<1>5. front[w].id = a.id => front[w].phase = IF a.outcome = "allow" THEN "allowing" ELSE "vetoing"
  BY DEF AnswerStands
<1>6. a.outcome = "allow" => front[w].id = a.id /\ front[w] # None
  BY <1>2, NamesApart, NoneApart DEF AnswerStands
<1> HIDE DEF w
<1>7. TypeOK'
  <2>1. consent' \subseteq Windows /\ answers' \subseteq Answers
    BY <1>3 DEF TypeOK
  <2> QED BY <1>1, <1>3, <1>4, <2>1 DEF TypeOK
<1>8. InboxIsNew' /\ AnswerStands'
  BY <1>3, AnswerTaken
<1>9. CloseIsNewest'
  BY <1>1, <1>3, <1>4 DEF CloseIsNewest
<1>10. AllowIsConsent'
  <2>1. \A v \in Windows \ {w} : v \in consent => v \in consent'
    BY <1>3
  <2>2. front[w].id = a.id => front'[w].phase # "allowing"
    BY <1>4
  <2>3. front[w].id # a.id => consent' = consent
    BY <1>3, <1>6
  <2> QED BY <1>4, <2>1, <2>2, <2>3 DEF AllowIsConsent
<1>11. ArmedStays'
  <2>1. allowWin \cup closing \subseteq Windows
    BY DEF TypeOK
  <2>2. \A v \in allowWin \cup closing : pendingWin'[v] = None
    BY <1>1, <1>3, <2>1 DEF ArmedStays
  <2>3. w \in allowWin \cup closing => consent' = consent
    BY <1>3, <1>5, <1>6 DEF ArmedStays
  <2>4. \A v \in allowWin \cup closing : v \in consent'
    BY <1>3, <2>3 DEF ArmedStays
  <2>5. \A v \in allowWin \cup closing :
           front'[v] # None => front'[v].reason = "quit" \/ front'[v].phase = "settling"
    <3>1. ASSUME NEW v \in allowWin \cup closing, front'[v] # None, front'[v].reason # "quit"
          PROVE  front'[v].phase = "settling"
      <4>1. front[v] # None /\ front[v].phase = "settling"
        BY <1>4, <2>1, <3>1 DEF ArmedStays
      <4>2. front'[v] = front[v]
        BY <1>4, <1>5, <2>1, <4>1
      <4> QED BY <4>1, <4>2
    <3> QED BY <3>1
  <2>6. \A v \in allowWin : Posted(v)'
    BY <1>3 DEF ArmedStays, Posted
  <2> QED BY <1>3, <2>2, <2>4, <2>5, <2>6 DEF ArmedStays
<1>12. QuitIsTold'
  <2>1. open \subseteq Windows
    BY DEF TypeOK
  <2>2. \A v \in Windows : front[v].phase = "settling" => front'[v] = front[v]
    BY <1>4, <1>5
  <2> QED BY <1>1, <1>3, <1>4, <2>1, <2>2 DEF QuitIsTold, Quitting
<1>13. QuitWaitsOnOpenWindow'
  BY <1>1, <1>3 DEF QuitWaitsOnOpenWindow, Quitting
<1> QED BY <1>7, <1>8, <1>9, <1>10, <1>11, <1>12, <1>13

(* Whatever native decides on an answer.                                      *)
LEMMA CompleteHolds ==
    ASSUME IInv, NEW a \in answers, Complete(a)
    PROVE  IInv'
<1>1. answers' = answers \ {a} /\ UNCHANGED <<windowVars, exited, inbox, quitIds, votes>>
  BY DEF Complete
<1>2. CASE LiveWin[a.window] # None /\ LiveWin[a.window].id = a.id
  BY <1>1, <1>2, CompleteWindowHolds DEF Complete
<1>3. CASE ~(LiveWin[a.window] # None /\ LiveWin[a.window].id = a.id) /\ AnswersQuit(a)
  BY <1>1, <1>3, CompleteQuitHolds DEF Complete
<1>4. CASE ~(LiveWin[a.window] # None /\ LiveWin[a.window].id = a.id) /\ ~AnswersQuit(a)
  BY <1>1, <1>4, RejectAnswerHolds DEF Complete
<1> QED BY <1>2, <1>3, <1>4

-----------------------------------------------------------------------------
(* The theorems *)

(* One window is open, and nobody was asked.                                  *)
LEMMA InitHolds == Init => IInv
<1> SUFFICES ASSUME Init PROVE IInv
  OBVIOUS
<1> USE DEF Init
<1>1. TypeOK
  <2>1. inbox \in [Windows -> Seq(Requests)] /\ posted \in Seq(Windows \cup {"exit"})
    OBVIOUS
  <2>2. /\ pendingWin \in [Windows -> Closes \cup {None}] /\ front \in [Windows -> Fronts \cup {None}]
        /\ pendingQuit \in Quits \cup {None}
    OBVIOUS
  <2>3. /\ quitIds \in [Windows -> Ids \cup {"none"}]
        /\ votes \in [Windows -> {"none", "allow", "veto"}]
    OBVIOUS
  <2> QED BY <2>1, <2>2, <2>3, MainIsWindow DEF TypeOK
<1>2. \A w \in Windows : DOMAIN inbox[w] = {}
  OBVIOUS
<1>3. InboxIsNew /\ AnswerStands /\ CloseIsNewest /\ AllowIsConsent /\ ArmedStays
  BY <1>2 DEF InboxIsNew, AnswerStands, CloseIsNewest, AllowIsConsent, ArmedStays
<1>4. QuitIsTold /\ QuitWaitsOnOpenWindow
  BY DEF QuitIsTold, QuitWaitsOnOpenWindow, Quitting
<1> QED BY <1>1, <1>3, <1>4 DEF IInv

(* The invariant is inductive: one case per action.                           *)
LEMMA StepHolds == IInv /\ [Next]_vars => IInv'
<1> SUFFICES ASSUME IInv, [Next]_vars PROVE IInv'
  OBVIOUS
<1>1. CASE ExitRequested \/ HandlePosted
  BY <1>1, EventHolds
<1>2. CASE QuitDeadline \/ UNCHANGED vars
  BY <1>2, DeadlineHolds
<1>3. ASSUME NEW w \in Windows, CreateWindow(w) \/ Listen(w) PROVE IInv'
  BY <1>3, WindowHolds
<1>4. ASSUME NEW w \in Windows, CloseRequested(w) PROVE IInv'
  BY <1>4, CloseRequestedHolds
<1>5. ASSUME NEW w \in Windows, Destroyed(w) PROVE IInv'
  BY <1>5, DestroyedHolds
<1>6. ASSUME NEW w \in Windows, Receive(w) PROVE IInv'
  BY <1>6, ReceiveHolds
<1>7. ASSUME NEW w \in Windows, Agree(w) \/ Veto(w) PROVE IInv'
  BY <1>7, AnswerHolds
<1>8. ASSUME NEW w \in Windows, Settle(w) PROVE IInv'
  BY <1>8, SettleHolds
<1>9. ASSUME NEW w \in Windows, WindowDeadline(w) PROVE IInv'
  BY <1>9, DeadlineHolds
<1>10. ASSUME NEW a \in answers, Complete(a) PROVE IInv'
  BY <1>10, CompleteHolds
<1> QED BY <1>1, <1>2, <1>3, <1>4, <1>5, <1>6, <1>7, <1>8, <1>9, <1>10 DEF Next, Page

(* What the theorems below rest on.                                           *)
LEMMA Inductive == Spec => []IInv
BY InitHolds, StepHolds, PTL DEF Spec

(* The coordinator's tables, the queues between native and the pages, and     *)
(* what each page is busy with stay well formed for ever.                     *)
THEOREM TypeCorrect == Spec => []TypeOK
<1>1. IInv => TypeOK
  BY DEF IInv
<1> QED BY <1>1, Inductive, PTL

(* begin_window_close lets a window go only when its own page agreed and was  *)
(* not told otherwise, and no window stays armed without its close on the way.*)
THEOREM CloseIsConsented == Spec => []CloseNeedsConsent
<1>1. IInv => CloseNeedsConsent
  BY DEF IInv, ArmedStays, CloseNeedsConsent
<1> QED BY <1>1, Inductive, PTL

(* close_window and begin_exit never leave a quit that waits for a window     *)
(* that is gone, nor an application without windows.                          *)
THEOREM QuitCanEnd == Spec => []QuitWaitsOnOpenWindow
<1>1. IInv => QuitWaitsOnOpenWindow
  BY DEF IInv
<1> QED BY <1>1, Inductive, PTL

(* Only the last answer to a quit posts the exit.                             *)
LEMMA ExitPostedByQuit ==
    ASSUME IInv, Next, posted' = Append(posted, "exit")
    PROVE  \E a \in answers : AnswersQuit(a) /\ a.outcome = "allow"
                              /\ DOMAIN pendingQuit.requests \ {a.window} = {}
<1>1. posted \in Seq(Windows \cup {"exit"})
  BY DEF IInv, TypeOK
<1>2. /\ Len(posted) \in Nat /\ Len(posted') = Len(posted) + 1
      /\ posted'[Len(posted) + 1] = "exit"
  BY <1>1, AppendProperties, LenProperties
<1>3. posted' # posted
  BY <1>2
<1>4. ~HandlePosted
  <2>1. ASSUME posted # <<>>, posted' = Tail(posted) PROVE FALSE
    <3>1. Len(posted') = Len(posted) - 1
      BY <1>1, <2>1, HeadTailProperties
    <3> QED BY <1>2, <3>1
  <2> QED BY <2>1 DEF HandlePosted
<1>5. PICK a \in answers : Complete(a)
  BY <1>3, <1>4 DEF Next, ExitRequested, QuitDeadline, CreateWindow, CloseRequested, Destroyed, Page,
     Listen, Receive, Agree, Veto, Settle, WindowDeadline
<1>6. a.window # "exit" /\ a.window \in Windows /\ a.outcome \in {"allow", "veto"}
  BY NamesApart DEF IInv, TypeOK, Answers
<1>7. posted' # Append(posted, a.window)
  <2>1. Append(posted, a.window)[Len(posted) + 1] = a.window
    BY <1>1, <1>6, AppendProperties
  <2> QED BY <1>2, <1>6, <2>1
<1>8. AnswersQuit(a) /\ CompleteQuit(a)
  BY <1>3, <1>5, <1>7 DEF Complete, CompleteWindow, ClosePosted, CloseFails, RejectAnswer
<1>9. a.outcome = "allow" /\ DOMAIN LiveQuit.requests \ {a.window} = {}
  BY <1>3, <1>8 DEF CompleteQuit
<1>10. LiveQuit = pendingQuit
  BY <1>8, LiveQuitIs DEF AnswersQuit, IInv
<1> QED BY <1>8, <1>9, <1>10

(* A window the quit stopped waiting for has agreed to it, and so has the one *)
(* whose answer is the last.                                                  *)
LEMMA ExitIsUnanimous ==
    ASSUME IInv, Next, posted' = Append(posted, "exit"), NEW w \in open, quitIds[w] # "none"
    PROVE  votes[w] = "allow"
<1>1. PICK a \in answers : /\ AnswersQuit(a) /\ a.outcome = "allow"
                           /\ DOMAIN pendingQuit.requests \ {a.window} = {}
  BY ExitPostedByQuit
<1>2. LiveQuit = pendingQuit /\ Quitting
  BY <1>1, LiveQuitIs DEF AnswersQuit, IInv, Quitting
<1>3. a.window \in DOMAIN pendingQuit.requests /\ quitIds[a.window] = a.id
  BY <1>1, <1>2 DEF AnswersQuit, IInv, QuitIsTold
<1>4. CASE w = a.window
  BY <1>1, <1>3, <1>4 DEF IInv, AnswerStands
<1>5. CASE w # a.window
  <2>1. w \in open \ DOMAIN pendingQuit.requests
    BY <1>1, <1>5
  <2> QED BY <1>2, <2>1 DEF IInv, QuitIsTold
<1> QED BY <1>4, <1>5

(* complete lets the application exit only when every window this quit asked  *)
(* that is still open agreed to it: not to a quit that was vetoed or ran out. *)
THEOREM QuitIsUnanimous == Spec => UnanimousQuit
<1> DEFINE Granted == posted' = Append(posted, "exit") =>
                        \A w \in open : quitIds[w] # "none" => votes[w] = "allow"
<1>1. IInv /\ [Next]_vars => [Granted]_vars
  BY ExitIsUnanimous
<1>2. Spec => [][Granted]_vars
  BY <1>1, Inductive, PTL DEF Spec
<1> QED BY <1>2 DEF UnanimousQuit
=============================================================================
