--------------------------- MODULE CloseHandshake ---------------------------
(***************************************************************************)
(* The two-phase close of a window and quit of the application:            *)
(* src-tauri/src/lifecycle/service.rs (CloseCoordinator), its commands, the *)
(* event loop of lib.rs, window/commands.rs (window_create), and on the     *)
(* WebView side app/services/plain-lifecycle-service.ts.                   *)
(*                                                                         *)
(* The event loop and these three commands (declared without `async`) run  *)
(* on the main thread, so each callback is one action.  window.close() and  *)
(* app.exit() only post an event: it is handled later, in posting order,   *)
(* with anything in between.  Events to a page and its answers are         *)
(* asynchronous.  A deadline is a flag, `late`; the code notices it only    *)
(* in `expire`.                                                             *)
(***************************************************************************)
EXTENDS Naturals, Sequences, FiniteSets

CONSTANTS
    Windows,   \* window labels
    Main,      \* the window open at start
    Ids,       \* request ids (UUIDs: never reused while anything names one)
    MaxPosted  \* bound: events waiting on the event loop

ASSUME MainIsWindow == Main \in Windows
ASSUME NamesApart == "exit" \notin Windows /\ "none" \notin Ids
ASSUME MaxPostedIsNat == MaxPosted \in Nat

None == [id |-> "none"]

VARIABLES
    open,         \* app.webview_windows()
    born,         \* labels used so far
    closing,      \* open windows whose close was allowed, not yet destroyed
    listening,    \* windows whose page has registered onNativeCloseRequested
    pendingWin,   \* pending_windows: [id, late] or None
    pendingQuit,  \* pending_quit: [requests, late] or None
    allowWin,     \* allow_window_close
    allowExit,    \* allow_exit_once
    posted,       \* events posted to the event loop: a label to close, or "exit"
    exited,       \* the event loop let the application exit
    inbox,        \* inbox[w]: close requests emitted to w's page, not yet seen
    front,        \* front[w]: what w's page does with its active request
    answers,      \* lifecycle_complete_close calls in flight
    consent,      \* history: windows whose page agreed to close, unrefused
    quitIds,      \* history: the id each window of the latest quit was asked with
    votes         \* history: what each page answered to the latest quit

coordinator == <<pendingWin, pendingQuit, allowWin, allowExit>>
windowVars == <<open, born, closing, listening>>
pageVars == <<inbox, front, answers>>
history == <<consent, quitIds, votes>>
vars == <<windowVars, coordinator, posted, exited, pageVars, history>>

Reasons == {"close", "quit"}
Phases == {"preparing", "allowing", "vetoing", "refused", "settling"}
Requests == [id : Ids, reason : Reasons]
Answers == [window : Windows, id : Ids, outcome : {"allow", "veto"}]

Quitting == pendingQuit # None

(* Ids somebody still remembers: CloseRequestId::new gives none of them.    *)
Remembered ==
    (UNION {{pendingWin[w].id, front[w].id, quitIds[w]} : w \in Windows})
    \cup {a.id : a \in answers}
    \cup (UNION {{inbox[w][i].id : i \in DOMAIN inbox[w]} : w \in Windows})
Fresh == Ids \ Remembered

-----------------------------------------------------------------------------
Init ==
    /\ open = {Main} /\ born = {Main} /\ closing = {} /\ listening = {}
    /\ pendingWin = [w \in Windows |-> None] /\ pendingQuit = None
    /\ allowWin = {} /\ allowExit = FALSE
    /\ posted = <<>> /\ exited = FALSE
    /\ inbox = [w \in Windows |-> <<>>]
    /\ front = [w \in Windows |-> None]
    /\ answers = {}
    /\ consent = {}
    /\ quitIds = [w \in Windows |-> "none"]
    /\ votes = [w \in Windows |-> "none"]

(* mutant: begin_window_close looks at pending_windows before expiring      *)
UnexpiredWin == pendingWin

(* expire: what is left of the two pending tables.                          *)
LiveWin == [w \in Windows |-> IF pendingWin[w] # None /\ pendingWin[w].late
                              THEN None ELSE pendingWin[w]]
LiveQuit == IF Quitting /\ pendingQuit.late THEN None ELSE pendingQuit

(* mutant: the event is emitted without its reason                          *)
EmittedWithoutReason(box, w, request) ==
    IF w \in listening THEN [box EXCEPT ![w] = Append(@, [id |-> request.id])] ELSE box

(* emit: lost on a page that does not listen yet.                           *)
Emitted(box, w, request) ==
    IF w \in listening THEN [box EXCEPT ![w] = Append(@, request)] ELSE box

-----------------------------------------------------------------------------
(* Windows *)

(* window_create: from any page, a new label.                               *)
CreateWindow(w) ==
    /\ ~exited /\ open \ closing # {} /\ w \notin born
    /\ open' = open \cup {w} /\ born' = born \cup {w}
    /\ UNCHANGED <<closing, listening, coordinator, posted, exited, pageVars, history>>

(* The lifecycle service of w's page is constructed and subscribed.         *)
Listen(w) ==
    /\ ~exited /\ w \in open \ listening
    /\ listening' = listening \cup {w}
    /\ UNCHANGED <<open, born, closing, coordinator, posted, exited, pageVars, history>>

(* A quit, or this window's own close, is already being decided.            *)
Busy(w) == LiveQuit # None \/ LiveWin[w] # None

(* begin_window_close and the handler of WindowEvent::CloseRequested: the   *)
(* user's click, the page's own lifecycle_request_close, or a posted close. *)
BeginWindowClose(w) ==
    IF w \in allowWin
    THEN /\ allowWin' = allowWin \ {w}
         /\ closing' = closing \cup {w}
         /\ pendingWin' = LiveWin /\ pendingQuit' = LiveQuit
         /\ UNCHANGED inbox
    ELSE /\ pendingQuit' = LiveQuit
         /\ UNCHANGED <<allowWin, closing>>
         /\ IF Busy(w)
            THEN pendingWin' = LiveWin /\ UNCHANGED inbox
            ELSE \/ \E id \in Fresh :
                      /\ pendingWin' = [LiveWin EXCEPT ![w] = [id |-> id, late |-> FALSE]]
                      /\ inbox' = Emitted(inbox, w, [id |-> id, reason |-> "close"])
                 \/ pendingWin' = LiveWin /\ UNCHANGED inbox    \* emit failed: cancel_request

CloseRequested(w) ==
    /\ ~exited /\ w \in open \ closing
    /\ BeginWindowClose(w)
    /\ UNCHANGED <<open, born, listening, allowExit, posted, exited, front, answers, history>>

(* begin_exit and the handler of RunEvent::ExitRequested, with `labels` the  *)
(* windows there are.  One event that cannot be emitted cancels the quit.   *)
BeginExit(labels) ==
    IF allowExit \/ (LiveQuit = None /\ labels = {})
    THEN /\ exited' = TRUE
         /\ allowExit' = FALSE
         /\ pendingWin' = LiveWin /\ pendingQuit' = LiveQuit
         /\ UNCHANGED <<inbox, quitIds, votes>>
    ELSE /\ UNCHANGED <<exited, allowExit>>
         /\ IF LiveQuit # None
            THEN /\ pendingWin' = LiveWin /\ pendingQuit' = LiveQuit
                 /\ UNCHANGED <<inbox, quitIds, votes>>
            ELSE \E ask \in [labels -> Fresh], unreachable \in SUBSET labels :
                 /\ \A v, w \in labels : v # w => ask[v] # ask[w]
                 /\ pendingWin' = [w \in Windows |-> None]
                 /\ pendingQuit' = IF unreachable = {}
                                   THEN [id |-> "quit", requests |-> ask, late |-> FALSE]
                                   ELSE None
                 /\ inbox' = [w \in Windows |->
                      IF w \in (labels \cap listening) \ unreachable
                      THEN Append(inbox[w], [id |-> ask[w], reason |-> "quit"])
                      ELSE inbox[w]]
                 /\ quitIds' = [w \in Windows |-> IF w \in labels THEN ask[w] ELSE "none"]
                 /\ votes' = [w \in Windows |-> "none"]

(* The user quits.                                                          *)
ExitRequested ==
    /\ ~exited /\ open # {}
    /\ BeginExit(open)
    /\ UNCHANGED <<windowVars, allowWin, posted, front, answers, consent>>

(* The oldest posted event comes up.                                        *)
HandlePosted ==
    /\ ~exited /\ posted # <<>>
    /\ posted' = Tail(posted)
    /\ LET event == Head(posted) IN
       IF event = "exit"
       THEN /\ BeginExit(open)
            /\ UNCHANGED <<windowVars, allowWin, front, answers, consent>>
       ELSE /\ IF event \in open \ closing
               THEN BeginWindowClose(event)
               ELSE UNCHANGED <<allowWin, closing, pendingWin, pendingQuit, inbox>>
            /\ UNCHANGED <<open, born, listening, allowExit, exited, front, answers, history>>

(* mutant: a destroyed window does not cancel the quit that waits for it    *)
CloseWindowKeepsQuit(w) ==
    /\ pendingWin' = [pendingWin EXCEPT ![w] = None]
    /\ allowWin' = allowWin \ {w}
    /\ UNCHANGED pendingQuit

(* close_window                                                             *)
CloseWindow(w) ==
    /\ pendingWin' = [pendingWin EXCEPT ![w] = None]
    /\ allowWin' = allowWin \ {w}
    /\ pendingQuit' = IF Quitting /\ w \in DOMAIN pendingQuit.requests
                      THEN None ELSE pendingQuit

(* WindowEvent::Destroyed.  With no window left the runtime asks to exit at *)
(* once: begin_exit with no labels.                                         *)
Destroyed(w) ==
    /\ ~exited /\ w \in closing
    /\ open' = open \ {w} /\ closing' = closing \ {w}
    /\ listening' = listening \ {w}
    /\ CloseWindow(w)
    /\ IF open' = {} /\ (allowExit \/ LiveQuit' = None)
       THEN exited' = TRUE /\ allowExit' = FALSE
       ELSE UNCHANGED <<exited, allowExit>>
    /\ inbox' = [inbox EXCEPT ![w] = <<>>]
    /\ front' = [front EXCEPT ![w] = None]
    /\ answers' = {a \in answers : a.window # w}
    /\ UNCHANGED <<born, posted, history>>

-----------------------------------------------------------------------------
(* The page: onNativeCloseRequest *)

Alive(w) == ~exited /\ w \in open \ closing

Answer(w, id, outcome) ==
    /\ answers' = answers \cup {[window |-> w, id |-> id, outcome |-> outcome]}
    /\ votes' = IF quitIds[w] = id THEN [votes EXCEPT ![w] = outcome] ELSE votes

(* A request arrives.  Only one is prepared at a time: another is vetoed.   *)
Receive(w) ==
    /\ Alive(w) /\ inbox[w] # <<>>
    /\ inbox' = [inbox EXCEPT ![w] = Tail(@)]
    /\ LET request == Head(inbox[w]) IN
       IF front[w] = None
       THEN /\ front' = [front EXCEPT ![w] = [id |-> request.id, reason |-> request.reason,
                                              phase |-> "preparing"]]
            /\ consent' = IF request.reason = "close" THEN consent \ {w} ELSE consent
            /\ UNCHANGED <<answers, votes>>
       ELSE Answer(w, request.id, "veto") /\ UNCHANGED <<front, consent>>
    /\ UNCHANGED <<windowVars, coordinator, posted, exited, quitIds>>

(* The vetoes, the final backup and the storage flush are done in time.     *)
Agree(w) ==
    /\ Alive(w) /\ front[w] # None /\ front[w].phase = "preparing"
    /\ front' = [front EXCEPT ![w].phase = "allowing"]
    /\ Answer(w, front[w].id, "allow")
    /\ consent' = IF front[w].reason = "close" THEN consent \cup {w} ELSE consent
    /\ UNCHANGED <<windowVars, coordinator, posted, exited, inbox, quitIds>>

(* mutant: the catch block does not answer                                  *)
VetoSilently(w) ==
    /\ Alive(w) /\ front[w] # None /\ front[w].phase \in {"preparing", "refused"}
    /\ front' = [front EXCEPT ![w].phase = "settling"]
    /\ UNCHANGED <<windowVars, coordinator, posted, exited, inbox, answers, history>>

(* A veto, a failure, the deadline; or the allow was refused by native.     *)
Veto(w) ==
    /\ Alive(w) /\ front[w] # None /\ front[w].phase \in {"preparing", "refused"}
    /\ front' = [front EXCEPT ![w].phase = "vetoing"]
    /\ Answer(w, front[w].id, "veto")
    /\ UNCHANGED <<windowVars, coordinator, posted, exited, inbox, consent, quitIds>>

(* finally { activeRequestId = undefined }                                  *)
Settle(w) ==
    /\ Alive(w) /\ front[w] # None /\ front[w].phase = "settling"
    /\ front' = [front EXCEPT ![w] = None]
    /\ UNCHANGED <<windowVars, coordinator, posted, exited, inbox, answers, history>>

-----------------------------------------------------------------------------
(* lifecycle_complete_close *)

(* What the page learns of its answer.                                      *)
Returns(a, ok) ==
    front' = IF front[a.window] # None /\ front[a.window].id = a.id
                /\ front[a.window].phase \in {"allowing", "vetoing"}
             THEN [front EXCEPT ![a.window].phase =
                     IF ok \/ @ = "vetoing" THEN "settling" ELSE "refused"]
             ELSE front

(* window.close() failed: rollback_failed_window_close.                     *)
CloseFails(a) ==
    /\ allowWin' = allowWin \ {a.window}
    /\ allowExit' = FALSE
    /\ consent' = consent \ {a.window}
    /\ Returns(a, FALSE)
    /\ UNCHANGED posted

(* The window is armed; the last one also arms the exit.                    *)
ClosePosted(a) ==
    /\ allowWin' = allowWin \cup {a.window}
    /\ allowExit' = (allowExit \/ Cardinality(open) = 1)
    /\ posted' = Append(posted, a.window)
    /\ Returns(a, TRUE)
    /\ UNCHANGED consent

(* mutant: the outcome is not looked at                                     *)
CompleteWindowAnyOutcome(a) ==
    /\ pendingWin' = [LiveWin EXCEPT ![a.window] = None]
    /\ pendingQuit' = LiveQuit
    /\ ClosePosted(a) \/ CloseFails(a)

CompleteWindow(a) ==
    /\ pendingWin' = [LiveWin EXCEPT ![a.window] = None]
    /\ pendingQuit' = LiveQuit
    /\ IF a.outcome = "allow"
       THEN ClosePosted(a) \/ CloseFails(a)
       ELSE Returns(a, TRUE) /\ UNCHANGED <<allowWin, allowExit, posted, consent>>

(* mutant: any allow of an asked window counts, whatever its id             *)
AnswersQuitAnyId(a) == LiveQuit # None /\ a.window \in DOMAIN LiveQuit.requests

AnswersQuit(a) ==
    /\ LiveQuit # None
    /\ a.window \in DOMAIN LiveQuit.requests
    /\ LiveQuit.requests[a.window] = a.id

CompleteQuit(a) ==
    /\ pendingWin' = LiveWin
    /\ LET rest == DOMAIN LiveQuit.requests \ {a.window} IN
       /\ pendingQuit' = IF a.outcome = "veto" \/ rest = {} THEN None
                         ELSE [LiveQuit EXCEPT !.requests = [w \in rest |-> @[w]]]
       /\ IF a.outcome = "allow" /\ rest = {}
          THEN allowExit' = TRUE /\ posted' = Append(posted, "exit")
          ELSE UNCHANGED <<allowExit, posted>>
    /\ Returns(a, TRUE)
    /\ UNCHANGED <<allowWin, consent>>

(* Expired, replayed or superseded.                                         *)
RejectAnswer(a) ==
    /\ pendingWin' = LiveWin /\ pendingQuit' = LiveQuit
    /\ Returns(a, FALSE)
    /\ consent' = IF a.outcome = "allow" /\ front[a.window].reason = "close"
                  THEN consent \ {a.window} ELSE consent
    /\ UNCHANGED <<allowWin, allowExit, posted>>

Complete(a) ==
    /\ ~exited /\ a \in answers /\ Len(posted) < MaxPosted
    /\ answers' = answers \ {a}
    /\ IF LiveWin[a.window] # None /\ LiveWin[a.window].id = a.id THEN CompleteWindow(a)
       ELSE IF AnswersQuit(a) THEN CompleteQuit(a)
       ELSE RejectAnswer(a)
    /\ UNCHANGED <<windowVars, exited, inbox, quitIds, votes>>

-----------------------------------------------------------------------------
(* CLOSE_TIMEOUT *)

WindowDeadline(w) ==
    /\ pendingWin[w] # None /\ ~pendingWin[w].late
    /\ pendingWin' = [pendingWin EXCEPT ![w].late = TRUE]
    /\ UNCHANGED <<windowVars, pendingQuit, allowWin, allowExit, posted, exited, pageVars,
                   history>>

QuitDeadline ==
    /\ Quitting /\ ~pendingQuit.late
    /\ pendingQuit' = [pendingQuit EXCEPT !.late = TRUE]
    /\ UNCHANGED <<windowVars, pendingWin, allowWin, allowExit, posted, exited, pageVars,
                   history>>

-----------------------------------------------------------------------------
Page(w) == Listen(w) \/ Receive(w) \/ Agree(w) \/ Veto(w) \/ Settle(w)

Next ==
    \/ ExitRequested \/ HandlePosted \/ QuitDeadline
    \/ \E w \in Windows : \/ CreateWindow(w) \/ CloseRequested(w) \/ Destroyed(w)
                          \/ Page(w) \/ WindowDeadline(w)
    \/ \E a \in answers : Complete(a)

(* The event loop turns, commands are run, time passes, and a page ends     *)
(* every preparation: its deadlines are setTimeout's.  What the user does    *)
(* is left free.                                                            *)
Fairness ==
    /\ WF_vars(HandlePosted) /\ WF_vars(QuitDeadline)
    /\ \A w \in Windows : /\ WF_vars(Destroyed(w))
                          /\ WF_vars(Listen(w)) /\ WF_vars(Receive(w))
                          /\ WF_vars(Agree(w) \/ Veto(w)) /\ WF_vars(Settle(w))
                          /\ WF_vars(WindowDeadline(w))
    /\ \A a \in Answers : WF_vars(Complete(a))

Spec == Init /\ [][Next]_vars
FairSpec == Spec /\ Fairness

-----------------------------------------------------------------------------
(* Properties *)

Posted(event) == \E i \in DOMAIN posted : posted[i] = event

Closes == [id : Ids, late : BOOLEAN]
Quits == [id : {"quit"}, requests : UNION {[labels -> Ids] : labels \in SUBSET Windows}, late : BOOLEAN]
Fronts == [id : Ids, reason : Reasons, phase : Phases]

TypeOK ==
    /\ closing \subseteq open /\ listening \subseteq open
    /\ open \subseteq born /\ born \subseteq Windows
    /\ pendingWin \in [Windows -> Closes \cup {None}]
    /\ pendingQuit \in Quits \cup {None}
    /\ allowWin \subseteq Windows /\ allowExit \in BOOLEAN /\ exited \in BOOLEAN
    /\ posted \in Seq(Windows \cup {"exit"})
    /\ inbox \in [Windows -> Seq(Requests)]
    /\ front \in [Windows -> Fronts \cup {None}]
    /\ answers \subseteq Answers
    /\ consent \subseteq Windows
    /\ quitIds \in [Windows -> Ids \cup {"none"}]
    /\ votes \in [Windows -> {"none", "allow", "veto"}]

(* A window goes only after its own page agreed to close and was not told   *)
(* that the close failed: late, replayed or misaddressed answers close      *)
(* nothing.  Nor is a window left armed with no close on the way: the next  *)
(* click on it would close it unasked.                                      *)
CloseNeedsConsent == closing \subseteq consent /\ \A w \in allowWin : Posted(w)

(* A quit is granted only when every window it asked that is still open     *)
(* agreed to this very quit, not to one that was vetoed or ran out before.  *)
UnanimousQuit ==
    [][posted' = Append(posted, "exit") =>
         \A w \in open : quitIds[w] # "none" => votes[w] = "allow"]_vars

(* A pending quit waits for a window that is open: it cannot wait for ever  *)
(* on a destroyed one, nor hold back the exit after the last window.        *)
QuitWaitsOnOpenWindow ==
    /\ Quitting => /\ pendingQuit.requests # <<>>
                   /\ DOMAIN pendingQuit.requests \subseteq open
    /\ open = {} => exited

(* Every request a page takes up is settled: native stops waiting for it    *)
(* although the page's answer may be refused, superseded or late.           *)
HeldFor(w, id) ==
    \/ pendingWin[w].id = id
    \/ Quitting /\ w \in DOMAIN pendingQuit.requests /\ pendingQuit.requests[w] = id
RequestsSettle ==
    \A w \in Windows, id \in Ids :
        (front[w].id = id) ~> (exited \/ (front[w].id # id /\ ~HeldFor(w, id)))

(* A request whose page never saw it wedges nothing: if the user keeps      *)
(* closing the window, native stops waiting for the lost answer.            *)
Unanswerable(w) ==
    /\ w \in open \ closing /\ ~exited /\ pendingWin[w] # None
    /\ pendingWin[w].id # front[w].id
    /\ \A i \in DOMAIN inbox[w] : inbox[w][i].id # pendingWin[w].id
    /\ \A a \in answers : a.id # pendingWin[w].id
LostRequestsRecover ==
    \A w \in Windows : WF_vars(CloseRequested(w)) => []<>~Unanswerable(w)

(* Every window is asked before the application goes ("the first            *)
(* CloseRequested and ExitRequested are both prevented").                   *)
ExitAsksEveryWindow ==
    exited => \A w \in open : w \in consent \/ votes[w] = "allow"
=============================================================================
