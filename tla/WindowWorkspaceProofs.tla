----------------------- MODULE WindowWorkspaceProofs -----------------------
(***************************************************************************)
(* Theorems about WindowWorkspace, for every number of commands in flight, *)
(* roots, entries and revisions.                                           *)
(***************************************************************************)
EXTENDS WindowWorkspace, SequenceTheorems, TLAPS

(* What the pc of a call says about the other fields it carries.            *)
LEMMA CallFields ==
    ASSUME NEW s \in CallStates
    PROVE  /\ s.pc = "idle" => s = Idle
           /\ s.pc = "dialog" => s \in [pc : {"dialog"}, token : 1..MaxToken]
           /\ s.pc \in {"leased", "operating"}
                => s \in [pc : {"leased", "operating"}, roots : SUBSET LocalRoots]
           /\ s.pc = "planning"
                => s \in [pc : {"planning"}, sel : Selections, conf : 1..MaxConf]
           /\ s.pc = "scanning"
                => s \in [pc : {"scanning"}, sel : Selections, conf : 1..MaxConf,
                          rev : 0..MaxRevision]
           /\ s.pc \in {"revalidating", "deleting"}
                => s \in [pc : {"revalidating", "deleting"}, receipt : Receipts]
           /\ s.pc = "statting"
                => s \in [pc : {"statting"}, sel : RemoteSelections, conf : 1..MaxConf]
           /\ s.pc = "resolved" => s \in [pc : {"resolved"}, root : RemoteRoots]
           /\ s.pc = "remoteDeleting"
                => s \in [pc : {"remoteDeleting"}, root : RemoteRoots, conf : 1..MaxConf,
                          entry : 1..MaxEntries]
BY DEF CallStates, Idle

(* The entries of a selection are numbered up to MaxEntries.                *)
LEMMA SelectionDomain ==
    ASSUME NEW sel \in Selections \cup RemoteSelections
    PROVE  DOMAIN sel \subseteq 1..MaxEntries
BY BoundsAreNat DEF Selections, RemoteSelections

-----------------------------------------------------------------------------
(* Type correctness *)

(* Every step keeps every variable in its type.                             *)
LEMMA TypeStep ==
    ASSUME TypeOK, [Next]_vars
    PROVE  TypeOK'
<1> USE BoundsAreNat DEF TypeOK, Roots
<1>0. CASE UNCHANGED vars
  BY <1>0 DEF vars, scopeVars, pickerVars, batchVars
<1>1. CASE Reauthorizing
  <2> USE DEF CommitRoots, InvalidateAll, InvalidateLocal, pickerVars, batchVars, scopeVars
  <2>1. ASSUME NEW new \in SUBSET LocalRoots, ReplaceRoots(new) PROVE TypeOK'
    BY <2>1 DEF ReplaceRoots, ReplaceScope
  <2>2. CASE InitialSnapshot
    <3>1. restore' \in BOOLEAN
      BY <2>2, Zenon DEF InitialSnapshot
    <3>2. ASSUME NEW new \in SUBSET LocalRoots, ReplaceScope(new),
                 UNCHANGED <<closed, pickerVars, call>>
          PROVE  TypeOK'
      BY <3>1, <3>2 DEF ReplaceScope
    <3>3. CASE UNCHANGED <<roots, spent, revision, batchVars, closed, pickerVars, call>>
      BY <3>1, <3>3
    <3> QED BY <2>2, <3>2, <3>3 DEF InitialSnapshot
  <2>3. ASSUME NEW r \in Roots, RemoveRoot(r) PROVE TypeOK'
    BY <2>3 DEF RemoveRoot
  <2>4. CASE CloseFolder
    <3>1. restore' \in BOOLEAN
      BY <2>4, Zenon DEF CloseFolder
    <3> QED BY <2>4, <3>1 DEF CloseFolder
  <2>5. ASSUME NEW r \in RemoteRoots, AuthorizeRemote(r) PROVE TypeOK'
    BY <2>5 DEF AuthorizeRemote
  <2>6. CASE CloseWindow
    BY <2>6 DEF CloseWindow
  <2> QED BY <1>1, <2>1, <2>2, <2>3, <2>4, <2>5, <2>6 DEF Reauthorizing
<1>2. CASE CancelLocal \/ CancelRemote
  BY <1>2 DEF CancelLocal, CancelRemote, scopeVars, pickerVars
<1>3. CASE BeginRemote
  BY <1>3 DEF BeginRemote, LiveRemote, RemoteBatches, scopeVars, pickerVars
<1>4. CASE LocalDeadlinePasses
  BY <1>4 DEF LocalDeadlinePasses, Receipts, scopeVars, pickerVars
<1>5. CASE RemoteDeadlinePasses
  BY <1>5 DEF RemoteDeadlinePasses, RemoteBatches, scopeVars, pickerVars
<1>6. ASSUME NEW c \in Calls, Picking(c) PROVE TypeOK'
  <2> USE DEF Goto, scopeVars, pickerVars, batchVars
  <2>0. Idle \in CallStates
    BY DEF CallStates
  <2>1. CASE BeginPicker(c)
    BY <2>1 DEF BeginPicker, CallStates
  <2>2. CASE AbortPicker(c) \/ DiscardPick(c) \/ RejectPick(c)
    BY <2>0, <2>2 DEF AbortPicker, DiscardPick, RejectPick
  <2>3. ASSUME NEW new \in SUBSET Roots, AcceptPick(c, new) PROVE TypeOK'
    <3>1. restore' \in BOOLEAN
      <4>1. restore' = restore \/ restore' = FALSE
        BY <2>3, Zenon DEF AcceptPick
      <4> QED BY <4>1, Zenon
    <3>2. /\ roots' \subseteq Roots /\ spent' \subseteq Roots
          /\ revision' \in 0..MaxRevision
      BY <2>3 DEF AcceptPick, CommitRoots
    <3>3. /\ local' = NoReceipt /\ remote' = NoReceipt
          /\ picker' = 0 /\ call' = [call EXCEPT ![c] = Idle]
          /\ UNCHANGED <<closed, tokens, confs, attempts>>
      BY <2>3 DEF AcceptPick, InvalidateAll, InvalidateLocal
    <3> QED BY <2>0, <3>1, <3>2, <3>3
  <2> QED BY <1>6, <2>1, <2>2, <2>3 DEF Picking
<1>7. ASSUME NEW c \in Calls, Mutating(c) PROVE TypeOK'
  <2> USE DEF Goto, scopeVars, pickerVars, batchVars
  <2>0. Idle \in CallStates
    BY DEF CallStates
  <2>1. ASSUME NEW r \in LocalRoots, Lease(c, r) PROVE TypeOK'
    <3>1. call[c].pc = "leased" => call[c].roots \in SUBSET LocalRoots
      BY CallFields
    <3>2. call[c].pc = "leased"
             => [pc |-> "leased", roots |-> call[c].roots \cup {r}] \in CallStates
      BY <3>1 DEF CallStates
    <3>3. [pc |-> "leased", roots |-> {r}] \in CallStates
      BY DEF CallStates
    <3> QED BY <2>1, <3>2, <3>3 DEF Lease
  <2>2. CASE EnterMutation(c)
    <3>1. [call[c] EXCEPT !.pc = "operating"] \in CallStates
      BY <2>2, CallFields DEF EnterMutation, CallStates
    <3> QED BY <2>0, <2>2, <3>1 DEF EnterMutation
  <2>3. CASE FinishMutation(c)
    BY <2>0, <2>3 DEF FinishMutation
  <2> QED BY <1>7, <2>1, <2>2, <2>3 DEF Mutating
<1>8. ASSUME NEW c \in Calls, DeletingLocal(c) PROVE TypeOK'
  <2> USE DEF Goto, scopeVars, pickerVars, batchVars
  <2>0. Idle \in CallStates
    BY DEF CallStates
  <2>1. ASSUME NEW sel \in Selections, RequestPrepare(c, sel) PROVE TypeOK'
    <3>1. [pc |-> "planning", sel |-> sel, conf |-> confs + 1] \in CallStates
      BY <2>1 DEF RequestPrepare, CallStates
    <3> QED BY <2>1, <3>1 DEF RequestPrepare
  <2>2. CASE EnterPrepare(c)
    <3>1. [pc |-> "scanning", sel |-> call[c].sel, conf |-> call[c].conf,
           rev |-> revision] \in CallStates
      BY <2>2, CallFields DEF EnterPrepare, CallStates
    <3> QED BY <2>0, <2>2, <3>1 DEF EnterPrepare, LiveLocal
  <2>3. CASE InstallLocal(c)
    <3>1. call[c] \in [pc : {"scanning"}, sel : Selections, conf : 1..MaxConf,
                       rev : 0..MaxRevision]
      BY <2>3, CallFields DEF InstallLocal
    <3>2. 1 \in 1..MaxEntries
      BY <3>1 DEF Selections
    <3>3. local' \in Receipts
      BY <2>3, <3>1, <3>2 DEF InstallLocal, Receipts
    <3> QED BY <2>0, <2>3, <3>3 DEF InstallLocal
  <2>4. CASE PrepareFails(c)
    BY <2>0, <2>4 DEF PrepareFails
  <2>5. CASE EnterBegin(c)
    <3>1. [pc |-> "revalidating", receipt |-> local] \in CallStates
      BY <2>5 DEF EnterBegin, LiveLocal, CallStates
    <3> QED BY <2>5, <3>1 DEF EnterBegin
  <2>6. CASE FinishBegin(c)
    <3>1. call[c].receipt \in Receipts
      BY <2>6, CallFields DEF FinishBegin
    <3>2. [call[c].receipt EXCEPT !.phase = "executing", !.expired = FALSE] \in Receipts
      BY <3>1 DEF Receipts
    <3> QED BY <2>0, <2>6, <3>2 DEF FinishBegin
  <2>7. ASSUME NEW e \in 1..MaxEntries, EnterCommit(c, e) PROVE TypeOK'
    <3>1. local \in Receipts
      BY <2>7 DEF EnterCommit, LiveLocal
    <3>2. [pc |-> "deleting", receipt |-> local] \in CallStates
      BY <3>1 DEF CallStates
    <3>3. Append(attempts[local.conf], e) \in Seq(1..MaxEntries)
      BY <3>1 DEF Receipts
    <3> QED BY <2>7, <3>2, <3>3 DEF EnterCommit
  <2>8. CASE FinishCommit(c)
    <3>1. call[c].receipt \in Receipts
      BY <2>8, CallFields DEF FinishCommit
    <3>2. call[c].receipt.next + 1 \in DOMAIN call[c].receipt.sel
             => [call[c].receipt EXCEPT !.next = @ + 1, !.expired = FALSE] \in Receipts
      BY <3>1, SelectionDomain DEF Receipts
    <3> QED BY <2>0, <2>8, <3>2 DEF FinishCommit
  <2> QED BY <1>8, <2>1, <2>2, <2>3, <2>4, <2>5, <2>6, <2>7, <2>8 DEF DeletingLocal
<1>9. ASSUME NEW c \in Calls, DeletingRemote(c) PROVE TypeOK'
  <2> USE DEF Goto, scopeVars, pickerVars, batchVars
  <2>0. Idle \in CallStates
    BY DEF CallStates
  <2>1. ASSUME NEW sel \in RemoteSelections, RequestRemotePrepare(c, sel) PROVE TypeOK'
    <3>1. [pc |-> "statting", sel |-> sel, conf |-> confs + 1] \in CallStates
      BY <2>1 DEF RequestRemotePrepare, CallStates
    <3> QED BY <2>1, <3>1 DEF RequestRemotePrepare
  <2>2. CASE InstallRemote(c)
    <3>1. call[c] \in [pc : {"statting"}, sel : RemoteSelections, conf : 1..MaxConf]
      BY <2>2, CallFields DEF InstallRemote
    <3>2. [conf |-> call[c].conf, phase |-> "prepared", sel |-> call[c].sel,
           pending |-> DOMAIN call[c].sel, expired |-> FALSE] \in RemoteBatches
      BY <3>1, SelectionDomain DEF RemoteBatches
    <3> QED BY <2>0, <2>2, <3>2 DEF InstallRemote, LiveLocal, LiveRemote
  <2>3. CASE RemotePrepareFails(c)
    BY <2>0, <2>3 DEF RemotePrepareFails
  <2>4. ASSUME NEW r \in RemoteRoots, ResolveRemote(c, r) PROVE TypeOK'
    <3>1. [pc |-> "resolved", root |-> r] \in CallStates
      BY DEF CallStates
    <3> QED BY <2>4, <3>1 DEF ResolveRemote
  <2>5. ASSUME NEW e \in 1..MaxEntries, VerifyRemote(c, e) PROVE TypeOK'
    <3>1. EntryPending(call[c].root, e)
             => [pc |-> "remoteDeleting", root |-> call[c].root,
                 conf |-> remote.conf, entry |-> e] \in CallStates
      <4>1. call[c].root \in RemoteRoots
        BY <2>5, CallFields DEF VerifyRemote
      <4>2. remote # NoReceipt => remote.conf \in 1..MaxConf
        BY DEF RemoteBatches
      <4> QED BY <4>1, <4>2 DEF EntryPending, CallStates
    <3> QED BY <2>0, <2>5, <3>1 DEF VerifyRemote
  <2>6. CASE FinishRemote(c)
    <3>1. remote # NoReceipt
             => /\ remote \in RemoteBatches
                /\ [remote EXCEPT !.pending = remote.pending \ {call[c].entry},
                                  !.expired = FALSE] \in RemoteBatches
      BY DEF RemoteBatches
    <3>2. remote' \in RemoteBatches \cup {NoReceipt}
      BY <2>6, <3>1 DEF FinishRemote
    <3> QED BY <2>0, <2>6, <3>2 DEF FinishRemote
  <2> QED BY <1>9, <2>1, <2>2, <2>3, <2>4, <2>5, <2>6 DEF DeletingRemote
<1> QED
  BY <1>0, <1>1, <1>2, <1>3, <1>4, <1>5, <1>6, <1>7, <1>8, <1>9 DEF Next

(* The first state is of its type.                                          *)
LEMMA TypeInit == Init => TypeOK
<1>1. Init => restore \in BOOLEAN /\ closed \in BOOLEAN
  BY Zenon DEF Init
<1> QED BY <1>1, BoundsAreNat DEF Init, TypeOK, CallStates

(* Every variable keeps its type, however many commands are in flight.      *)
THEOREM TypeCorrect == Spec => []TypeOK
BY TypeInit, TypeStep, PTL DEF Spec

-----------------------------------------------------------------------------
(* Side effects and revocation *)

(* AuthorizedSideEffects is not inductive by itself: begin and commit take  *)
(* their receipt out of the state, so what makes them safe is that a        *)
(* receipt of the current revision names authorized roots.                  *)
Safe == TypeOK /\ AuthorizedSideEffects /\ CurrentReceiptAuthorized

(* The same facts, one call at a time.                                      *)
CallSafe(c) == call[c].pc \in Gated => ~closed /\ Touching(c) \subseteq roots

(* A step of call c alone: the others are where they were, so are the roots. *)
LEMMA OneCallMoves ==
    ASSUME Safe, TypeOK', NEW c \in Calls, NEW s \in CallStates,
           call' = [call EXCEPT ![c] = s],
           UNCHANGED <<roots, closed>>,
           CallSafe(c)'
    PROVE  AuthorizedSideEffects'
<1>1. ASSUME NEW d \in Calls, d # c PROVE CallSafe(d)'
  <2>1. call'[d] = call[d]
    BY <1>1 DEF Safe, TypeOK
  <2> QED BY <2>1 DEF Safe, AuthorizedSideEffects, CallSafe, Touching
<1> QED BY <1>1 DEF AuthorizedSideEffects, CallSafe

(* A step that moves no call and finds the gate free may do as it likes.    *)
LEMMA GateFreeStep ==
    ASSUME GateFree, UNCHANGED call
    PROVE  AuthorizedSideEffects'
BY DEF GateFree, AuthorizedSideEffects, Gated

(* A call that leaves for a pc outside the gate is safe whatever it did.    *)
LEMMA LeavesGate ==
    ASSUME TypeOK, NEW c \in Calls, NEW s \in CallStates, s.pc \notin Gated,
           call' = [call EXCEPT ![c] = s]
    PROVE  CallSafe(c)'
<1>1. call'[c] = s
  BY DEF TypeOK
<1> QED BY <1>1 DEF CallSafe

(* A call that is idle holds nothing.                                       *)
LEMMA IdleCall == Idle \in CallStates /\ Idle.pc \notin Gated
BY DEF Idle, CallStates, Gated

(* Every step keeps side effects and current receipts on authorized roots.  *)
LEMMA SafeStep ==
    ASSUME Safe, [Next]_vars
    PROVE  Safe'
<1>0. TypeOK /\ TypeOK'
  BY TypeStep DEF Safe
<1>1. CASE UNCHANGED vars
  BY <1>0, <1>1 DEF Safe, vars, scopeVars, pickerVars, batchVars, AuthorizedSideEffects,
     CurrentReceiptAuthorized, Touching, Selected
<1>2. CASE Reauthorizing
  <2>2. CASE \/ \E new \in SUBSET LocalRoots : ReplaceRoots(new)
             \/ \E r \in Roots : RemoveRoot(r)
             \/ CloseWindow
    <3>1. GateFree /\ UNCHANGED call /\ local' = NoReceipt
      BY <2>2 DEF ReplaceRoots, ReplaceScope, RemoveRoot, CloseWindow, InvalidateAll,
         InvalidateLocal
    <3> QED BY <1>0, <3>1, GateFreeStep DEF Safe, CurrentReceiptAuthorized
  <2>3. CASE InitialSnapshot \/ CloseFolder
    <3>1. GateFree /\ UNCHANGED call
      BY <2>3 DEF InitialSnapshot, CloseFolder
    <3>2. local' = NoReceipt \/ UNCHANGED <<roots, revision, local>>
      BY <2>3 DEF InitialSnapshot, CloseFolder, ReplaceScope, InvalidateAll, InvalidateLocal,
         batchVars
    <3>3. CurrentReceiptAuthorized'
      BY <3>2 DEF Safe, CurrentReceiptAuthorized, Selected
    <3> QED BY <1>0, <3>1, <3>3, GateFreeStep DEF Safe
  <2>4. ASSUME NEW r \in RemoteRoots, AuthorizeRemote(r) PROVE Safe'
    <3>1. roots \subseteq roots' /\ UNCHANGED <<closed, call>> /\ local' = NoReceipt
      BY <2>4 DEF AuthorizeRemote, CommitRoots, InvalidateAll, InvalidateLocal
    <3>2. AuthorizedSideEffects'
      BY <3>1 DEF Safe, AuthorizedSideEffects, Touching
    <3> QED BY <1>0, <3>1, <3>2 DEF Safe, CurrentReceiptAuthorized
  <2> QED BY <1>2, <2>2, <2>3, <2>4 DEF Reauthorizing
<1>3. CASE CancelLocal \/ LocalDeadlinePasses
  <2>1. UNCHANGED <<roots, closed, call, revision>>
    BY <1>3 DEF CancelLocal, LocalDeadlinePasses, scopeVars
  <2>2. \/ local' = NoReceipt
        \/ local # NoReceipt /\ local'.rev = local.rev /\ local'.sel = local.sel
    BY <1>0, <1>3 DEF CancelLocal, LocalDeadlinePasses, TypeOK, Receipts
  <2>3. CurrentReceiptAuthorized'
    BY <2>1, <2>2 DEF Safe, CurrentReceiptAuthorized, Selected
  <2> QED BY <1>0, <2>1, <2>3 DEF Safe, AuthorizedSideEffects, Touching
<1>4. CASE CancelRemote \/ BeginRemote \/ RemoteDeadlinePasses
  <2>1. UNCHANGED <<roots, closed, call, revision, local>>
    BY <1>4 DEF CancelRemote, BeginRemote, RemoteDeadlinePasses, scopeVars
  <2> QED BY <1>0, <2>1 DEF Safe, AuthorizedSideEffects, CurrentReceiptAuthorized, Touching
<1>5. ASSUME NEW c \in Calls, Picking(c) PROVE Safe'
  <2> USE DEF Goto, scopeVars, pickerVars, batchVars
  <2>1. CASE BeginPicker(c) \/ AbortPicker(c) \/ DiscardPick(c) \/ RejectPick(c)
    <3>1. UNCHANGED <<roots, closed, revision, local>>
      BY <2>1 DEF BeginPicker, AbortPicker, DiscardPick, RejectPick
    <3>2. \E s \in CallStates : s.pc \notin Gated /\ call' = [call EXCEPT ![c] = s]
      <4>1. CASE BeginPicker(c)
        <5>1. [pc |-> "dialog", token |-> tokens + 1] \in CallStates
          BY <1>0, <4>1, BoundsAreNat DEF BeginPicker, TypeOK, CallStates
        <5> QED BY <4>1, <5>1 DEF BeginPicker, Gated
      <4> QED BY <2>1, <4>1, IdleCall DEF AbortPicker, DiscardPick, RejectPick
    <3>3. AuthorizedSideEffects'
      BY <1>0, <3>1, <3>2, OneCallMoves, LeavesGate
    <3> QED BY <1>0, <3>1, <3>3 DEF Safe, CurrentReceiptAuthorized
  <2>2. ASSUME NEW new \in SUBSET Roots, AcceptPick(c, new) PROVE Safe'
    <3>1. GateFree /\ call' = [call EXCEPT ![c] = Idle] /\ local' = NoReceipt
      BY <2>2 DEF AcceptPick, InvalidateAll, InvalidateLocal
    <3>2. \A d \in Calls : call'[d].pc \notin Gated
      BY <1>0, <3>1, IdleCall DEF GateFree, TypeOK
    <3> QED BY <1>0, <3>1, <3>2 DEF Safe, AuthorizedSideEffects, CurrentReceiptAuthorized
  <2> QED BY <1>5, <2>1, <2>2 DEF Picking
<1>6. ASSUME NEW c \in Calls, Mutating(c) PROVE Safe'
  <2> USE DEF Goto, scopeVars, pickerVars, batchVars
  <2>0. UNCHANGED <<roots, closed, revision, local>>
    BY <1>6 DEF Mutating, Lease, EnterMutation, FinishMutation
  <2>1. CurrentReceiptAuthorized'
    BY <2>0 DEF Safe, CurrentReceiptAuthorized
  <2>2. ASSUME NEW r \in LocalRoots, Lease(c, r) PROVE AuthorizedSideEffects'
    <3>1. PICK S \in SUBSET LocalRoots :
             call' = [call EXCEPT ![c] = [pc |-> "leased", roots |-> S]]
      <4>1. call[c].pc = "leased" => call[c].roots \in SUBSET LocalRoots
        BY <1>0, CallFields DEF TypeOK
      <4> QED BY <2>2, <4>1 DEF Lease
    <3>2. [pc |-> "leased", roots |-> S] \in CallStates
      BY DEF CallStates
    <3> QED BY <1>0, <2>0, <3>1, <3>2, OneCallMoves, LeavesGate DEF Gated
  <2>3. CASE EnterMutation(c)
    <3>1. CASE LeasesValid(call[c].roots)
      <4> DEFINE s == [call[c] EXCEPT !.pc = "operating"]
      <4>1. s \in CallStates /\ s.pc = "operating" /\ s.roots = call[c].roots
        BY <1>0, <2>3, CallFields DEF EnterMutation, TypeOK, CallStates
      <4>2. call' = [call EXCEPT ![c] = s] /\ call'[c] = s
        BY <1>0, <2>3, <3>1 DEF EnterMutation, TypeOK
      <4>3. CallSafe(c)'
        BY <2>0, <3>1, <4>1, <4>2 DEF CallSafe, Touching, LeasesValid
      <4> QED BY <1>0, <2>0, <2>1, <4>1, <4>2, <4>3, OneCallMoves DEF Safe
    <3>2. CASE ~LeasesValid(call[c].roots)
      BY <1>0, <2>0, <2>1, <2>3, <3>2, IdleCall, OneCallMoves, LeavesGate
         DEF EnterMutation, Safe
    <3> QED BY <3>1, <3>2
  <2>4. CASE FinishMutation(c)
    BY <1>0, <2>0, <2>1, <2>4, IdleCall, OneCallMoves, LeavesGate DEF FinishMutation, Safe
  <2> QED BY <1>0, <1>6, <2>1, <2>2, <2>3, <2>4 DEF Safe, Mutating
<1>7. ASSUME NEW c \in Calls, DeletingLocal(c) PROVE Safe'
  <2> USE DEF Goto, scopeVars, pickerVars, batchVars
  <2>0. UNCHANGED <<roots, closed, revision>>
    BY <1>7 DEF DeletingLocal, RequestPrepare, EnterPrepare, InstallLocal, PrepareFails,
       EnterBegin, FinishBegin, EnterCommit, FinishCommit
  <2>1. ASSUME NEW sel \in Selections, RequestPrepare(c, sel) PROVE Safe'
    <3> DEFINE s == [pc |-> "planning", sel |-> sel, conf |-> confs + 1]
    <3>1. s \in CallStates /\ s.pc \notin Gated
      BY <1>0, <2>1, BoundsAreNat DEF RequestPrepare, TypeOK, CallStates, Gated
    <3>2. call' = [call EXCEPT ![c] = s] /\ UNCHANGED local
      BY <2>1 DEF RequestPrepare
    <3>3. AuthorizedSideEffects'
      BY <1>0, <2>0, <3>1, <3>2, OneCallMoves, LeavesGate
    <3> QED BY <1>0, <2>0, <3>2, <3>3 DEF Safe, CurrentReceiptAuthorized
  <2>2. CASE EnterPrepare(c)
    <3>1. local' = local \/ local' = NoReceipt
      BY <2>2 DEF EnterPrepare, LiveLocal
    <3>2. CurrentReceiptAuthorized'
      BY <2>0, <3>1 DEF Safe, CurrentReceiptAuthorized
    <3>3. CASE call' = [call EXCEPT ![c] = Idle]
      BY <1>0, <2>0, <3>2, <3>3, IdleCall, OneCallMoves, LeavesGate DEF Safe
    <3>4. CASE LeasesValid(Selected(call[c].sel)) /\ LiveLocal = NoReceipt
      <4> DEFINE s == [pc |-> "scanning", sel |-> call[c].sel, conf |-> call[c].conf,
                       rev |-> revision]
      <4>1. s \in CallStates
        BY <1>0, <2>2, CallFields DEF EnterPrepare, TypeOK, CallStates
      <4>2. call' = [call EXCEPT ![c] = s] /\ call'[c] = s
        BY <1>0, <2>2, <3>4 DEF EnterPrepare, TypeOK
      <4>3. CallSafe(c)'
        BY <2>0, <3>4, <4>2 DEF CallSafe, Touching, LeasesValid
      <4> QED BY <1>0, <2>0, <3>2, <4>1, <4>2, <4>3, OneCallMoves DEF Safe
    <3> QED BY <2>2, <3>3, <3>4 DEF EnterPrepare
  <2>3. CASE InstallLocal(c)
    <3>1. call' = [call EXCEPT ![c] = Idle] /\ local'.sel = call[c].sel
      BY <2>3 DEF InstallLocal
    <3>2. Selected(call[c].sel) \subseteq roots
      BY <2>3 DEF InstallLocal, Safe, AuthorizedSideEffects, Gated, Touching
    <3>3. CurrentReceiptAuthorized'
      BY <2>0, <3>1, <3>2 DEF CurrentReceiptAuthorized, Selected
    <3> QED BY <1>0, <2>0, <3>1, <3>3, IdleCall, OneCallMoves, LeavesGate DEF Safe
  <2>4. CASE PrepareFails(c)
    <3>1. call' = [call EXCEPT ![c] = Idle] /\ UNCHANGED local
      BY <2>4 DEF PrepareFails
    <3> QED BY <1>0, <2>0, <3>1, IdleCall, OneCallMoves, LeavesGate
        DEF Safe, CurrentReceiptAuthorized
  <2>5. CASE EnterBegin(c) \/ \E e \in 1..MaxEntries : EnterCommit(c, e)
    <3>1. /\ local' = NoReceipt
          /\ local \in Receipts
          /\ ~closed
          /\ \/ UNCHANGED call
             \/ /\ local.rev = revision
                /\ \E p \in {"revalidating", "deleting"} :
                      call' = [call EXCEPT ![c] = [pc |-> p, receipt |-> local]]
      BY <1>0, <2>5 DEF EnterBegin, EnterCommit, CommitExpected, LiveLocal, TypeOK
    <3>2. CASE UNCHANGED call
      BY <1>0, <2>0, <3>1, <3>2
         DEF Safe, AuthorizedSideEffects, CurrentReceiptAuthorized, Touching
    <3>3. ASSUME NEW p \in {"revalidating", "deleting"}, local.rev = revision,
                 call' = [call EXCEPT ![c] = [pc |-> p, receipt |-> local]]
          PROVE  Safe'
      <4>1. [pc |-> p, receipt |-> local] \in CallStates
        BY <3>1 DEF CallStates
      <4>2. call'[c] = [pc |-> p, receipt |-> local]
        BY <1>0, <3>3 DEF TypeOK
      <4>3. Selected(local.sel) \subseteq roots
        BY <3>1, <3>3 DEF Safe, CurrentReceiptAuthorized, Receipts, NoReceipt
      <4>4. CallSafe(c)'
        BY <2>0, <3>1, <4>2, <4>3 DEF CallSafe, Touching
      <4> QED BY <1>0, <2>0, <3>1, <3>3, <4>1, <4>4, OneCallMoves
          DEF Safe, CurrentReceiptAuthorized
    <3> QED BY <3>1, <3>2, <3>3
  <2>6. CASE FinishBegin(c) \/ FinishCommit(c)
    <3>1. call' = [call EXCEPT ![c] = Idle]
      BY <2>6 DEF FinishBegin, FinishCommit
    <3>2. call[c].receipt \in Receipts /\ Selected(call[c].receipt.sel) \subseteq roots
      BY <1>0, <2>6, CallFields
         DEF FinishBegin, FinishCommit, TypeOK, Safe, AuthorizedSideEffects, Gated, Touching
    <3>3. local' = local \/ local'.sel = call[c].receipt.sel
      BY <2>6, <3>2 DEF FinishBegin, FinishCommit, Receipts
    <3>4. CurrentReceiptAuthorized'
      BY <2>0, <3>2, <3>3 DEF Safe, CurrentReceiptAuthorized, Selected
    <3> QED BY <1>0, <2>0, <3>1, <3>4, IdleCall, OneCallMoves, LeavesGate DEF Safe
  <2> QED BY <1>7, <2>1, <2>2, <2>3, <2>4, <2>5, <2>6 DEF DeletingLocal
<1>8. ASSUME NEW c \in Calls, DeletingRemote(c) PROVE Safe'
  <2> USE DEF Goto, scopeVars, pickerVars, batchVars
  <2>0. UNCHANGED <<roots, closed, revision>>
    BY <1>8 DEF DeletingRemote, RequestRemotePrepare, InstallRemote, RemotePrepareFails,
       ResolveRemote, VerifyRemote, FinishRemote
  <2>1. local' = local \/ local' = NoReceipt
    BY <1>8 DEF DeletingRemote, RequestRemotePrepare, InstallRemote, RemotePrepareFails,
       ResolveRemote, VerifyRemote, FinishRemote, LiveLocal
  <2>2. CurrentReceiptAuthorized'
    BY <2>0, <2>1 DEF Safe, CurrentReceiptAuthorized
  <2>3. /\ call' = [call EXCEPT ![c] = call'[c]]
        /\ call'[c].pc \in {"idle", "statting", "resolved", "remoteDeleting"}
    <3>0. call \in [Calls -> CallStates]
      BY <1>0 DEF TypeOK
    <3>1. ASSUME NEW sel \in RemoteSelections, RequestRemotePrepare(c, sel) PROVE <2>3!:
      BY <3>0, <3>1 DEF RequestRemotePrepare
    <3>2. CASE InstallRemote(c) \/ RemotePrepareFails(c) \/ FinishRemote(c)
      BY <3>0, <3>2 DEF InstallRemote, RemotePrepareFails, FinishRemote, Idle
    <3>3. ASSUME NEW r \in RemoteRoots, ResolveRemote(c, r) PROVE <2>3!:
      BY <3>0, <3>3 DEF ResolveRemote
    <3>4. ASSUME NEW e \in 1..MaxEntries, VerifyRemote(c, e) PROVE <2>3!:
      BY <3>0, <3>4 DEF VerifyRemote, Idle
    <3> QED BY <1>8, <3>1, <3>2, <3>3, <3>4 DEF DeletingRemote
  <2>4. call'[c] \in CallStates /\ call'[c].pc \notin Gated
    BY <1>0, <2>3 DEF TypeOK, Gated
  <2> QED BY <1>0, <2>0, <2>2, <2>3, <2>4, OneCallMoves, LeavesGate DEF Safe
<1> QED
  BY <1>1, <1>2, <1>3, <1>4, <1>5, <1>6, <1>7, <1>8 DEF Next

(* At the start there is neither.                                           *)
LEMMA SafeInit == Init => Safe
<1>1. Init => AuthorizedSideEffects /\ CurrentReceiptAuthorized
  BY DEF Init, AuthorizedSideEffects, CurrentReceiptAuthorized, Gated, Idle
<1> QED BY <1>1, TypeInit DEF Safe

(* No mutation, scan, revalidation or local delete ever touches a root that *)
(* is not authorized, or any root after the window closed.                  *)
THEOREM SideEffectsAuthorized == Spec => []AuthorizedSideEffects
<1>1. Safe => AuthorizedSideEffects
  BY DEF Safe
<1> QED BY <1>1, SafeInit, SafeStep, PTL DEF Spec

(* A receipt of the current revision names authorized roots.                *)
THEOREM CurrentReceiptsAuthorized == Spec => []CurrentReceiptAuthorized
<1>1. Safe => CurrentReceiptAuthorized
  BY DEF Safe
<1> QED BY <1>1, SafeInit, SafeStep, PTL DEF Spec

-----------------------------------------------------------------------------
(* Permanent revocation and the contract of RootAuthority *)

(* What any step may do to the root set: nothing, or commit a set that      *)
(* holds no id revoked before.                                              *)
ScopeKept == UNCHANGED <<roots, spent, closed>>
ScopeCommitted == /\ ~closed
                  /\ spent' = spent \cup roots'
                  /\ roots' \cap (spent \ roots) = {}
                  /\ UNCHANGED closed

(* Every step leaves the scope, commits one, or closes the window.          *)
LEMMA ScopeStep ==
    ASSUME TypeOK, [Next]_vars
    PROVE  \/ ScopeKept
           \/ ScopeCommitted
           \/ closed' = TRUE /\ UNCHANGED <<roots, spent>>
<1> USE DEF scopeVars, ScopeKept
<1>1. CASE UNCHANGED vars
  BY <1>1 DEF vars
<1>2. CASE Reauthorizing
  <2> USE DEF CommitRoots, ScopeCommitted
  <2>1. ASSUME NEW new \in SUBSET LocalRoots, ReplaceScope(new)
        PROVE  \/ UNCHANGED <<roots, spent>>
               \/ spent' = spent \cup roots' /\ roots' \cap (spent \ roots) = {}
    BY <2>1 DEF ReplaceScope, Unused
  <2>2. ASSUME NEW new \in SUBSET LocalRoots, ReplaceRoots(new)
        PROVE  ScopeKept \/ ScopeCommitted
    BY <2>1, <2>2 DEF ReplaceRoots
  <2>3. CASE InitialSnapshot
    BY <2>1, <2>3 DEF InitialSnapshot
  <2>4. ASSUME NEW r \in Roots, RemoveRoot(r) PROVE ScopeCommitted
    BY <2>4 DEF RemoveRoot
  <2>5. CASE CloseFolder
    BY <2>5 DEF CloseFolder
  <2>6. ASSUME NEW r \in RemoteRoots, AuthorizeRemote(r) PROVE ScopeCommitted
    BY <2>6 DEF AuthorizeRemote, Unused
  <2>7. CASE CloseWindow
    BY <2>7 DEF CloseWindow
  <2> QED BY <1>2, <2>2, <2>3, <2>4, <2>5, <2>6, <2>7 DEF Reauthorizing
<1>3. CASE CancelLocal \/ CancelRemote \/ BeginRemote \/ LocalDeadlinePasses
           \/ RemoteDeadlinePasses
  BY <1>3 DEF CancelLocal, CancelRemote, BeginRemote, LocalDeadlinePasses,
     RemoteDeadlinePasses
<1>4. ASSUME NEW c \in Calls, Picking(c) PROVE ScopeKept \/ ScopeCommitted
  <2>1. ASSUME NEW new \in SUBSET Roots, AcceptPick(c, new) PROVE ScopeCommitted
    <3>1. new \cap (spent \ roots) = {}
      BY <2>1 DEF AcceptPick, PickAdd, PickReplace, Unused
    <3> QED BY <2>1, <3>1 DEF AcceptPick, OwnsPicker, CommitRoots, ScopeCommitted
  <2> QED BY <1>4, <2>1 DEF Picking, BeginPicker, AbortPicker, DiscardPick, RejectPick
<1>5. ASSUME NEW c \in Calls, Mutating(c) PROVE ScopeKept
  BY <1>5 DEF Mutating, Lease, EnterMutation, FinishMutation
<1>6. ASSUME NEW c \in Calls, DeletingLocal(c) PROVE ScopeKept
  BY <1>6 DEF DeletingLocal, RequestPrepare, EnterPrepare, InstallLocal, PrepareFails,
     EnterBegin, FinishBegin, EnterCommit, FinishCommit
<1>7. ASSUME NEW c \in Calls, DeletingRemote(c) PROVE ScopeKept
  BY <1>7 DEF DeletingRemote, RequestRemotePrepare, InstallRemote, RemotePrepareFails,
     ResolveRemote, VerifyRemote, FinishRemote
<1> QED BY <1>1, <1>2, <1>3, <1>4, <1>5, <1>6, <1>7 DEF Next

(* A revoked root id is never authorized again.                             *)
THEOREM RevokedForGood == Spec => RevocationIsPermanent
<1>1. TypeOK /\ [Next]_vars => [roots' \cap (spent \ roots) = {}]_vars
  BY ScopeStep DEF ScopeKept, ScopeCommitted
<1> QED BY <1>1, TypeCorrect, PTL DEF Spec, RevocationIsPermanent

(* Every authorized id was given out.                                       *)
RootsMinted == roots \subseteq spent

(* What a command does in one lock section: it moves itself only, and not    *)
(* from one side effect into another; only outside the gate does it change  *)
(* the roots.                                                               *)
CallStep(c) ==
    /\ \A d \in Calls \ {c} : call'[d] = call[d]
    /\ UNCHANGED closed
    /\ \/ call[c].pc \notin Gated /\ call'[c].pc \notin Gated
       \/ /\ call[c].pc \notin Gated \/ call'[c].pc \notin Gated
          /\ UNCHANGED <<roots, spent>>

(* Every lock section of a command is such a step.                          *)
LEMMA CallMoves ==
    ASSUME TypeOK, NEW c \in Calls,
           Picking(c) \/ Mutating(c) \/ DeletingLocal(c) \/ DeletingRemote(c)
    PROVE  CallStep(c)
<1> USE DEF Goto, Gated, Idle, CallStep, scopeVars, pickerVars, batchVars
<1>0. /\ \A s : call' = [call EXCEPT ![c] = s]
               => call'[c] = s /\ \A d \in Calls \ {c} : call'[d] = call[d]
      /\ UNCHANGED call => \A d \in Calls : call'[d] = call[d]
  BY DEF TypeOK
<1>1. CASE Picking(c)
  <2>1. CASE BeginPicker(c)
    BY <1>0, <2>1 DEF BeginPicker
  <2>2. CASE AbortPicker(c) \/ DiscardPick(c) \/ RejectPick(c)
    BY <1>0, <2>2 DEF AbortPicker, DiscardPick, RejectPick
  <2>3. ASSUME NEW new \in SUBSET Roots, AcceptPick(c, new) PROVE CallStep(c)
    BY <1>0, <2>3 DEF AcceptPick
  <2> QED BY <1>1, <2>1, <2>2, <2>3 DEF Picking
<1>2. CASE Mutating(c)
  <2>1. ASSUME NEW r \in LocalRoots, Lease(c, r) PROVE CallStep(c)
    BY <1>0, <2>1 DEF Lease
  <2>2. CASE EnterMutation(c)
    BY <1>0, <2>2 DEF EnterMutation
  <2>3. CASE FinishMutation(c)
    <3>1. call' = [call EXCEPT ![c] = Idle] /\ UNCHANGED <<roots, spent, closed>>
      BY <2>3 DEF FinishMutation
    <3>2. call'[c] = Idle /\ \A d \in Calls \ {c} : call'[d] = call[d]
      BY <1>0, <3>1
    <3> QED BY <3>1, <3>2
  <2> QED BY <1>2, <2>1, <2>2, <2>3 DEF Mutating
<1>3. CASE DeletingLocal(c)
  <2>1. ASSUME NEW sel \in Selections, RequestPrepare(c, sel) PROVE CallStep(c)
    BY <1>0, <2>1 DEF RequestPrepare
  <2>2. CASE EnterPrepare(c)
    BY <1>0, <2>2 DEF EnterPrepare
  <2>3. CASE InstallLocal(c) \/ PrepareFails(c) \/ FinishBegin(c) \/ FinishCommit(c)
    BY <1>0, <2>3 DEF InstallLocal, PrepareFails, FinishBegin, FinishCommit
  <2>4. CASE EnterBegin(c)
    BY <1>0, <2>4 DEF EnterBegin
  <2>5. ASSUME NEW e \in 1..MaxEntries, EnterCommit(c, e) PROVE CallStep(c)
    BY <1>0, <2>5 DEF EnterCommit
  <2> QED BY <1>3, <2>1, <2>2, <2>3, <2>4, <2>5 DEF DeletingLocal
<1>4. CASE DeletingRemote(c)
  <2>1. ASSUME NEW sel \in RemoteSelections, RequestRemotePrepare(c, sel)
        PROVE CallStep(c)
    BY <1>0, <2>1 DEF RequestRemotePrepare
  <2>2. CASE InstallRemote(c) \/ RemotePrepareFails(c) \/ FinishRemote(c)
    BY <1>0, <2>2 DEF InstallRemote, RemotePrepareFails, FinishRemote
  <2>3. ASSUME NEW r \in RemoteRoots, ResolveRemote(c, r) PROVE CallStep(c)
    BY <1>0, <2>3 DEF ResolveRemote
  <2>4. ASSUME NEW e \in 1..MaxEntries, VerifyRemote(c, e) PROVE CallStep(c)
    BY <1>0, <2>4 DEF VerifyRemote
  <2> QED BY <1>4, <2>1, <2>2, <2>3, <2>4 DEF DeletingRemote
<1> QED BY <1>1, <1>2, <1>3, <1>4

(* What a step does to the roots in use: nothing, or one call starts or     *)
(* ends one side effect while the root set and the window stay put.         *)
UseKept == \A c \in Calls : Touching(c)' = Touching(c)
UseMoved(c) ==
    /\ UNCHANGED <<roots, spent, closed>>
    /\ \A d \in Calls : d # c => Touching(d)' = Touching(d)
    /\ \/ Touching(c)' = {}
       \/ Touching(c) = {} /\ Touching(c)' \subseteq roots /\ ~closed
       \/ Touching(c)' = Touching(c)

(* Every step leaves the roots in use, or moves those of one call.          *)
LEMMA UseStep ==
    ASSUME Safe, Safe', [Next]_vars
    PROVE  \/ UseKept /\ ((\A c \in Calls : Touching(c) = {}) \/ UNCHANGED closed)
           \/ \E c \in Calls : UseMoved(c)
<1> USE DEF scopeVars, pickerVars, batchVars
<1>1. CASE UNCHANGED call
  <2>1. UseKept
    BY <1>1 DEF UseKept, Touching
  <2>2. UNCHANGED closed \/ GateFree
    BY DEF Next, Reauthorizing, vars, ReplaceRoots, InitialSnapshot, RemoveRoot, CloseFolder,
       AuthorizeRemote, CloseWindow, CancelLocal, CancelRemote, BeginRemote,
       LocalDeadlinePasses, RemoteDeadlinePasses, Picking, BeginPicker, AbortPicker,
       DiscardPick, RejectPick, AcceptPick, Mutating, Lease, EnterMutation, FinishMutation,
       DeletingLocal, RequestPrepare, EnterPrepare, InstallLocal, PrepareFails, EnterBegin,
       FinishBegin, EnterCommit, FinishCommit, DeletingRemote, RequestRemotePrepare,
       InstallRemote, RemotePrepareFails, ResolveRemote, VerifyRemote, FinishRemote
  <2>3. GateFree => \A c \in Calls : Touching(c) = {}
    BY DEF GateFree, Gated, Touching
  <2> QED BY <2>1, <2>2, <2>3
<1>2. ASSUME NEW c \in Calls, \A d \in Calls \ {c} : call'[d] = call[d],
             call[c].pc \notin Gated, call'[c].pc \notin Gated, UNCHANGED closed
      PROVE  UseKept /\ UNCHANGED closed
  <2>1. Touching(c) = {} /\ Touching(c)' = {}
    BY <1>2 DEF Touching, Gated
  <2> QED BY <1>2, <2>1 DEF UseKept, Touching
<1>3. ASSUME NEW c \in Calls, \A d \in Calls \ {c} : call'[d] = call[d],
             call[c].pc \notin Gated \/ call'[c].pc \notin Gated,
             UNCHANGED <<roots, spent, closed>>
      PROVE  UseMoved(c)
  <2>2. \A d \in Calls : d # c => Touching(d)' = Touching(d)
    BY <1>3 DEF Touching
  <2>3. CASE call'[c].pc \notin Gated
    <3>1. Touching(c)' = {}
      BY <2>3 DEF Touching, Gated
    <3> QED BY <1>3, <2>2, <3>1 DEF UseMoved
  <2>4. CASE call[c].pc \notin Gated /\ call'[c].pc \in Gated
    <3>1. Touching(c) = {}
      BY <2>4 DEF Touching, Gated
    <3>2. ~closed' /\ Touching(c)' \subseteq roots'
      BY <2>4 DEF Safe, AuthorizedSideEffects
    <3> QED BY <1>3, <2>2, <3>1, <3>2 DEF UseMoved
  <2> QED BY <1>3, <2>3, <2>4
<1>4. ASSUME NEW c \in Calls, CallStep(c)
      PROVE  (UseKept /\ UNCHANGED closed) \/ UseMoved(c)
  BY <1>2, <1>3, <1>4 DEF CallStep
<1>5. \/ UNCHANGED call
      \/ \E c \in Calls : CallStep(c)
  BY CallMoves DEF Safe, Next, Reauthorizing, vars, ReplaceRoots, InitialSnapshot, RemoveRoot,
     CloseFolder, AuthorizeRemote, CloseWindow, CancelLocal, CancelRemote, BeginRemote,
     LocalDeadlinePasses, RemoteDeadlinePasses
<1> QED BY <1>1, <1>4, <1>5

(* Each step of the lock protocol is a step of the contract, or none.       *)
LEMMA AuthorityStep ==
    ASSUME Safe, Safe', RootsMinted, RootsMinted', [Next]_vars
    PROVE  [Authority!Next]_(Authority!vars)
<1> DEFINE auth == IF closed THEN {} ELSE roots
           retd == IF closed THEN spent ELSE spent \ roots
           used == [c \in Calls |-> Touching(c)]
<1>1. /\ auth' \in SUBSET Roots
      /\ \A c \in Calls : Touching(c) \in SUBSET Roots
      /\ \A c \in Calls : Touching(c)' \in SUBSET Roots
      /\ \A c \in Calls : Touching(c) \subseteq auth
      /\ \A c \in Calls : Touching(c)' \subseteq auth'
  <2>1. \A c \in Calls : Touching(c) \subseteq auth
    BY DEF Safe, AuthorizedSideEffects, Touching, Gated
  <2>2. \A c \in Calls : Touching(c)' \subseteq auth'
    BY DEF Safe, AuthorizedSideEffects, Touching, Gated
  <2>3. roots \subseteq Roots /\ roots' \subseteq Roots
    BY DEF Safe, TypeOK
  <2> QED BY <2>1, <2>2, <2>3
<1>2. auth' \cap retd = {} /\ retd' = retd \cup (auth \ auth')
  <2>1. closed \in BOOLEAN /\ closed' \in BOOLEAN
    BY DEF Safe, TypeOK
  <2>2. CASE ScopeKept
    BY <2>2 DEF ScopeKept
  <2>3. CASE ScopeCommitted
    BY <2>3 DEF ScopeCommitted, RootsMinted
  <2>4. CASE closed' = TRUE /\ UNCHANGED <<roots, spent>>
    <3>1. auth' = {} /\ retd' = spent
      BY <2>4
    <3>2. retd \cup auth = spent
      BY DEF RootsMinted
    <3> QED BY <3>1, <3>2
  <2> QED BY <2>2, <2>3, <2>4, ScopeStep DEF Safe
<1>3. CASE UseKept
  <2>1. used' = used
    BY <1>3 DEF UseKept
  <2>2. Authority!Reauthorize(auth')
    BY <1>1, <1>2, <1>3, <2>1 DEF Authority!Reauthorize, UseKept
  <2> QED BY <1>1, <2>2 DEF Authority!Next
<1>4. ASSUME NEW c \in Calls, UseMoved(c) PROVE [Authority!Next]_(Authority!vars)
  <2>1. auth' = auth /\ retd' = retd
    BY <1>4 DEF UseMoved
  <2>2. used' = [used EXCEPT ![c] = Touching(c)']
    BY <1>4 DEF UseMoved
  <2>3. CASE Touching(c)' = {}
    BY <2>1, <2>2, <2>3 DEF Authority!Next, Authority!Release
  <2>4. CASE Touching(c) = {} /\ Touching(c)' \subseteq roots /\ ~closed
    <3>1. Authority!Acquire(c, Touching(c)')
      BY <2>1, <2>2, <2>4 DEF Authority!Acquire
    <3> QED BY <1>1, <3>1 DEF Authority!Next
  <2>5. CASE Touching(c)' = Touching(c)
    <3>1. used' = used
      BY <2>2, <2>5
    <3> QED BY <2>1, <3>1 DEF Authority!vars
  <2> QED BY <1>4, <2>3, <2>4, <2>5 DEF UseMoved
<1> QED BY <1>3, <1>4, UseStep

(* The window's gate, leases and receipts implement RootAuthority.          *)
THEOREM WorkspaceImplementsAuthority == Spec => ImplementsAuthority
<1>1. Init => Authority!Init
  BY DEF Init, Authority!Init, Touching, Idle
<1>2. Init => Safe /\ RootsMinted
  BY SafeInit DEF Init, RootsMinted
<1>3. Safe /\ RootsMinted /\ [Next]_vars => Safe' /\ RootsMinted'
  BY SafeStep, ScopeStep DEF Safe, RootsMinted, ScopeKept, ScopeCommitted
<1>4. Safe /\ Safe' /\ RootsMinted /\ RootsMinted' /\ [Next]_vars
         => [Authority!Next]_(Authority!vars)
  BY AuthorityStep
<1> QED BY <1>1, <1>2, <1>3, <1>4, PTL DEF Spec, ImplementsAuthority, Authority!Spec

-----------------------------------------------------------------------------
(* Who owns the slots of the window, and what a plan is held by             *)

(* The mutation gate has one holder: the calls whose pc is in Gated.        *)
OneInGate ==
    \A c, d \in Calls : call[c].pc \in Gated /\ call[d].pc \in Gated => c = d

(* While the window is open one dialog is up at most.  (A closed window may *)
(* leave the dialogs of several generations behind; all are discarded.)     *)
OneDialog ==
    ~closed => \A c, d \in Calls :
                   call[c].pc = "dialog" /\ call[d].pc = "dialog" => c = d

Owned == Safe /\ SlotsOwned /\ OneInGate /\ OneDialog

(* Where a confirmed local batch is between its request and its end: with   *)
(* a call that plans or scans it, in `local`, or with the begin or commit   *)
(* that took it out.                                                        *)
Planned(c, k) == call[c].pc \in {"planning", "scanning"} /\ call[c].conf = k
TakenOut(c, k) == call[c].pc \in {"revalidating", "deleting"} /\ call[c].receipt.conf = k
Holds(c, k) == Planned(c, k) \/ TakenOut(c, k)
Installed(k) == local # NoReceipt /\ local.conf = k

(* A confirmation id is in one place only.                                  *)
HeldOnce ==
    \A k \in 1..MaxConf :
        /\ \A c, d \in Calls : Holds(c, k) /\ Holds(d, k) => c = d
        /\ Installed(k) => \A c \in Calls : ~Holds(c, k)

(* Nothing was deleted for an id not given out or a batch still planned.    *)
UntouchedYet ==
    \A k \in 1..MaxConf :
        k > confs \/ (\E c \in Calls : Planned(c, k)) => attempts[k] = <<>>

(* An id in use was given out.                                              *)
HeldIsGiven ==
    \A k \in 1..MaxConf :
        Installed(k) \/ (\E c \in Calls : Holds(c, k)) => k <= confs

(* The receipt counts what was deleted: `next` is one ahead of it, except   *)
(* while the commit of that entry is on disk.                               *)
ReceiptCounts ==
    /\ local # NoReceipt => Len(attempts[local.conf]) + 1 = local.next
    /\ \A c \in Calls :
         /\ call[c].pc = "revalidating"
              => Len(attempts[call[c].receipt.conf]) + 1 = call[c].receipt.next
         /\ call[c].pc = "deleting"
              => Len(attempts[call[c].receipt.conf]) = call[c].receipt.next

InStep == HeldOnce /\ UntouchedYet /\ HeldIsGiven /\ ReceiptCounts /\ DeletesInPlanOrder
IInv == Owned /\ InStep

-----------------------------------------------------------------------------
(* The slots of the window                                                  *)

(* What a command that shows no dialog does to the slots in one lock        *)
(* section: it enters the gate only when it is free, takes a receipt out    *)
(* only by emptying `local`, and fills `local` only from inside the gate.   *)
SlotStep(c) ==
    /\ UNCHANGED <<picker, closed>>
    /\ call[c].pc # "dialog" /\ call'[c].pc # "dialog"
    /\ call'[c].pc \in Gated => call[c].pc \in Gated \/ GateFree
    /\ call'[c].pc \in {"revalidating", "deleting"} => local' = NoReceipt
    /\ local' # NoReceipt => local # NoReceipt \/ (~closed /\ call[c].pc \in Gated)
    /\ remote' # NoReceipt => remote # NoReceipt \/ ~closed

(* Every section of a mutation, of a local or of a remote delete is one.    *)
LEMMA SlotMoves ==
    ASSUME TypeOK, NEW c \in Calls,
           Mutating(c) \/ DeletingLocal(c) \/ DeletingRemote(c)
    PROVE  SlotStep(c)
<1> USE DEF Goto, Gated, Idle, SlotStep, scopeVars, pickerVars, batchVars
<1>1. /\ \A s : call' = [call EXCEPT ![c] = s] => call'[c] = s
      /\ UNCHANGED call => call'[c] = call[c]
  BY DEF TypeOK
<1>2. CASE Mutating(c)
  <2>1. ASSUME NEW r \in LocalRoots, Lease(c, r) PROVE SlotStep(c)
    BY <1>1, <2>1 DEF Lease
  <2>2. CASE EnterMutation(c)
    BY <1>1, <2>2 DEF EnterMutation
  <2>3. CASE FinishMutation(c)
    BY <1>1, <2>3 DEF FinishMutation
  <2> QED BY <1>2, <2>1, <2>2, <2>3 DEF Mutating
<1>3. CASE DeletingLocal(c)
  <2>1. ASSUME NEW sel \in Selections, RequestPrepare(c, sel) PROVE SlotStep(c)
    BY <1>1, <2>1 DEF RequestPrepare
  <2>2. CASE EnterPrepare(c)
    BY <1>1, <2>2 DEF EnterPrepare, LiveLocal
  <2>3. CASE InstallLocal(c)
    BY <1>1, <2>3 DEF InstallLocal
  <2>4. CASE PrepareFails(c)
    BY <1>1, <2>4 DEF PrepareFails
  <2>5. CASE EnterBegin(c)
    BY <1>1, <2>5 DEF EnterBegin
  <2>6. CASE FinishBegin(c)
    <3>1. call[c].pc = "revalidating" /\ call'[c] = Idle
      BY <1>1, <2>6 DEF FinishBegin
    <3>2. local' = local \/ ~closed
      BY <2>6 DEF FinishBegin
    <3>3. UNCHANGED <<picker, closed, remote>>
      BY <2>6 DEF FinishBegin
    <3> QED BY <3>1, <3>2, <3>3
  <2>7. ASSUME NEW e \in 1..MaxEntries, EnterCommit(c, e) PROVE SlotStep(c)
    <3>1. call[c] = Idle /\ GateFree /\ local' = NoReceipt
      BY <2>7 DEF EnterCommit
    <3>2. call' = [call EXCEPT ![c] = [pc |-> "deleting", receipt |-> local]] \/ UNCHANGED call
      BY <2>7 DEF EnterCommit
    <3>3. call'[c].pc \in {"deleting", "idle"}
      BY <1>1, <3>1, <3>2
    <3>4. UNCHANGED <<picker, closed, remote>>
      BY <2>7 DEF EnterCommit
    <3> QED BY <3>1, <3>3, <3>4
  <2>8. CASE FinishCommit(c)
    <3>1. call[c].pc = "deleting" /\ call'[c] = Idle
      BY <1>1, <2>8 DEF FinishCommit
    <3>2. local' = local \/ ~closed
      BY <2>8 DEF FinishCommit
    <3>3. UNCHANGED <<picker, closed, remote>>
      BY <2>8 DEF FinishCommit
    <3> QED BY <3>1, <3>2, <3>3
  <2> QED BY <1>3, <2>1, <2>2, <2>3, <2>4, <2>5, <2>6, <2>7, <2>8 DEF DeletingLocal
<1>4. CASE DeletingRemote(c)
  <2>1. ASSUME NEW sel \in RemoteSelections, RequestRemotePrepare(c, sel)
        PROVE SlotStep(c)
    BY <1>1, <2>1 DEF RequestRemotePrepare
  <2>2. CASE InstallRemote(c)
    BY <1>1, <2>2 DEF InstallRemote, LiveLocal
  <2>3. CASE RemotePrepareFails(c)
    BY <1>1, <2>3 DEF RemotePrepareFails
  <2>4. ASSUME NEW r \in RemoteRoots, ResolveRemote(c, r) PROVE SlotStep(c)
    BY <1>1, <2>4 DEF ResolveRemote
  <2>5. ASSUME NEW e \in 1..MaxEntries, VerifyRemote(c, e) PROVE SlotStep(c)
    BY <1>1, <2>5 DEF VerifyRemote
  <2>6. CASE FinishRemote(c)
    BY <1>1, <2>6 DEF FinishRemote
  <2> QED BY <1>4, <2>1, <2>2, <2>3, <2>4, <2>5, <2>6 DEF DeletingRemote
<1> QED BY <1>2, <1>3, <1>4

(* Such a section leaves every slot with its one owner.                     *)
LEMMA SlotStepKeeps ==
    ASSUME Owned, NEW c \in Calls, SlotStep(c),
           \A d \in Calls \ {c} : call'[d] = call[d]
    PROVE  SlotsOwned' /\ OneInGate' /\ OneDialog'
<1> USE DEF Owned, SlotsOwned, SlotStep
<1>1. NothingSurvivesClose'
  BY DEF NothingSurvivesClose
<1>2. OneInGate'
  BY DEF OneInGate, GateFree
<1>3. OneDialog'
  BY DEF OneDialog
<1>4. ReceiptIsUnique'
  <2> SUFFICES ASSUME NEW d \in Calls, call'[d].pc \in {"revalidating", "deleting"}
               PROVE  local' = NoReceipt
    BY DEF ReceiptIsUnique
  <2>1. CASE d = c
    BY <2>1
  <2>2. CASE d # c
    <3>1. call[d].pc \in {"revalidating", "deleting"} /\ local = NoReceipt
      BY <2>2 DEF ReceiptIsUnique
    <3>2. call[c].pc \notin Gated
      BY <2>2, <3>1 DEF OneInGate, Gated
    <3> QED BY <3>1, <3>2
  <2> QED BY <2>1, <2>2
<1>5. PickerSlotOwned'
  <2>1. picker' # 0 => \E d \in Calls : call'[d] = [pc |-> "dialog", token |-> picker']
    <3> SUFFICES ASSUME picker # 0
                 PROVE  \E d \in Calls : call'[d] = [pc |-> "dialog", token |-> picker]
      OBVIOUS
    <3>1. PICK d \in Calls : call[d] = [pc |-> "dialog", token |-> picker]
      BY DEF PickerSlotOwned
    <3>2. d # c
      BY <3>1
    <3> QED BY <3>1, <3>2
  <2>2. ASSUME ~closed', NEW d \in Calls, call'[d].pc = "dialog"
        PROVE  call'[d].token = picker'
    <3>1. d # c
      BY <2>2
    <3> QED BY <2>2, <3>1 DEF PickerSlotOwned
  <2> QED BY <2>1, <2>2 DEF PickerSlotOwned
<1> QED BY <1>1, <1>2, <1>3, <1>4, <1>5

(* The pickers take and free their slot and start no delete.                *)
LEMMA PickerKeeps ==
    ASSUME Owned, NEW c \in Calls, Picking(c)
    PROVE  SlotsOwned' /\ OneInGate' /\ OneDialog'
<1> USE DEF Owned, SlotsOwned, scopeVars, pickerVars, batchVars
<1>1. TypeOK /\ call \in [Calls -> CallStates]
  BY DEF Safe, TypeOK
<1>2. /\ \A d \in Calls \ {c} : call'[d] = call[d]
      /\ UNCHANGED closed
      /\ call'[c].pc \notin Gated
  <2>1. ASSUME NEW s, s.pc \notin Gated, call' = [call EXCEPT ![c] = s]
        PROVE  call'[c].pc \notin Gated /\ \A d \in Calls \ {c} : call'[d] = call[d]
    BY <1>1, <2>1
  <2>2. Idle.pc \notin Gated
    BY IdleCall
  <2>3. CASE BeginPicker(c)
    BY <2>1, <2>3 DEF BeginPicker, Goto, Gated
  <2>4. CASE AbortPicker(c) \/ DiscardPick(c) \/ RejectPick(c)
    BY <2>1, <2>2, <2>4 DEF AbortPicker, DiscardPick, RejectPick, Goto
  <2>5. ASSUME NEW new \in SUBSET Roots, AcceptPick(c, new)
        PROVE  /\ UNCHANGED closed /\ call'[c].pc \notin Gated
               /\ \A d \in Calls \ {c} : call'[d] = call[d]
    BY <2>1, <2>2, <2>5 DEF AcceptPick, Goto
  <2> QED BY <2>3, <2>4, <2>5 DEF Picking
<1>3. /\ local' = local \/ local' = NoReceipt
      /\ remote' = remote \/ remote' = NoReceipt
  BY DEF Picking, BeginPicker, AbortPicker, DiscardPick, RejectPick, AcceptPick,
     InvalidateAll, InvalidateLocal
<1>4. OneInGate' /\ ReceiptIsUnique'
  BY <1>2, <1>3 DEF OneInGate, ReceiptIsUnique, Gated
<1>5. CASE BeginPicker(c)
  <2>1. ~closed /\ picker = 0 /\ picker' = tokens + 1
        /\ call'[c] = [pc |-> "dialog", token |-> tokens + 1]
    BY <1>1, <1>5 DEF BeginPicker, Goto
  <2>2. ASSUME NEW d \in Calls, call[d].pc = "dialog" PROVE FALSE
    <3>1. call[d].token \in 1..MaxToken
      BY <1>1, <2>2, CallFields
    <3> QED BY <2>1, <2>2, <3>1 DEF PickerSlotOwned
  <2>3. \A d \in Calls : call'[d].pc = "dialog" => d = c
    BY <1>2, <2>2
  <2>4. OneDialog' /\ PickerSlotOwned'
    BY <2>1, <2>3 DEF OneDialog, PickerSlotOwned
  <2>5. NothingSurvivesClose'
    BY <1>2, <2>1 DEF NothingSurvivesClose
  <2> QED BY <1>4, <2>4, <2>5
<1>6. CASE ~BeginPicker(c)
  <2>1. /\ call[c].pc = "dialog" /\ call'[c] = Idle
        /\ picker' = (IF OwnsPicker(c) THEN 0 ELSE picker)
    <3>1. ASSUME NEW new \in SUBSET Roots, AcceptPick(c, new) PROVE <2>1!:
      BY <1>1, <3>1 DEF AcceptPick, Goto
    <3>2. CASE AbortPicker(c)
      BY <1>1, <3>2 DEF AbortPicker, Goto
    <3>3. CASE DiscardPick(c)
      BY <1>1, <3>3 DEF DiscardPick, Goto
    <3>4. CASE RejectPick(c)
      BY <1>1, <3>4 DEF RejectPick, Goto
    <3> QED BY <1>6, <3>1, <3>2, <3>3, <3>4 DEF Picking
  <2>2. call'[c].pc # "dialog"
    BY <2>1 DEF Idle
  <2>3. OneDialog'
    BY <1>2, <2>2 DEF OneDialog
  <2>4. NothingSurvivesClose'
    BY <1>2, <1>3, <2>1 DEF NothingSurvivesClose
  <2>5. CASE closed
    <3>1. closed' /\ picker' = 0
      BY <1>2, <2>4, <2>5 DEF NothingSurvivesClose
    <3>2. PickerSlotOwned'
      BY <3>1 DEF PickerSlotOwned
    <3> QED BY <1>4, <2>3, <2>4, <3>2
  <2>6. CASE ~closed
    <3>1. picker' = 0
      BY <2>1, <2>6 DEF OwnsPicker, PickerSlotOwned
    <3>2. \A d \in Calls : call'[d].pc # "dialog"
      BY <1>2, <2>1, <2>2, <2>6 DEF OneDialog
    <3> QED BY <1>4, <2>3, <2>4, <3>1, <3>2 DEF PickerSlotOwned
  <2> QED BY <1>4, <2>3, <2>4, <2>5, <2>6
<1> QED BY <1>5, <1>6

(* A step of no call: a change of the roots, the close, a deadline, a       *)
(* cancel.  It empties slots and fills none.                                *)
LEMMA EmptyingKeeps ==
    ASSUME Owned, UNCHANGED call,
           \/ picker' = picker /\ closed' = closed
           \/ picker' = 0 /\ closed' = TRUE,
           local' # NoReceipt => (local # NoReceipt /\ closed' = closed),
           remote' # NoReceipt => (remote # NoReceipt /\ closed' = closed)
    PROVE  SlotsOwned' /\ OneInGate' /\ OneDialog'
<1> USE DEF Owned, SlotsOwned
<1>1. closed \in BOOLEAN
  BY DEF Safe, TypeOK
<1>2. OneInGate'
  BY DEF OneInGate
<1>3. CASE closed' = TRUE /\ picker' = 0
  BY <1>1, <1>2, <1>3 DEF OneDialog, NothingSurvivesClose, ReceiptIsUnique, PickerSlotOwned
<1>4. CASE closed' = closed /\ picker' = picker
  BY <1>1, <1>2, <1>4 DEF OneDialog, NothingSurvivesClose, ReceiptIsUnique, PickerSlotOwned
<1> QED BY <1>1, <1>3, <1>4 DEF NothingSurvivesClose

(* Every step keeps every slot with its one owner.                          *)
LEMMA OwnedStep ==
    ASSUME Owned, [Next]_vars
    PROVE  Owned'
<1> USE DEF scopeVars, pickerVars, batchVars
<1>1. Safe /\ TypeOK
  BY DEF Owned, Safe
<1>2. Safe'
  BY <1>1, SafeStep
<1> SUFFICES SlotsOwned' /\ OneInGate' /\ OneDialog'
  BY <1>2 DEF Owned
<1>3. ASSUME NEW c \in Calls, Mutating(c) \/ DeletingLocal(c) \/ DeletingRemote(c)
      PROVE  SlotsOwned' /\ OneInGate' /\ OneDialog'
  <2>1. \A d \in Calls \ {c} : call'[d] = call[d]
    BY <1>1, <1>3, CallMoves DEF CallStep
  <2> QED BY <1>1, <1>3, <2>1, SlotMoves, SlotStepKeeps
<1>4. CASE Reauthorizing
  <2> USE DEF InvalidateAll, InvalidateLocal
  <2>1. UNCHANGED call
    BY <1>4 DEF Reauthorizing, ReplaceRoots, InitialSnapshot, RemoveRoot, CloseFolder,
       AuthorizeRemote, CloseWindow
  <2>2. UNCHANGED <<picker, closed>> \/ (picker' = 0 /\ closed' = TRUE)
    BY <1>4 DEF Reauthorizing, ReplaceRoots, InitialSnapshot, RemoveRoot, CloseFolder,
       AuthorizeRemote, CloseWindow
  <2>3. \/ UNCHANGED <<closed, local, remote>>
        \/ local' = NoReceipt /\ UNCHANGED <<closed, remote>>
        \/ local' = NoReceipt /\ remote' = NoReceipt
    BY <1>4 DEF Reauthorizing, ReplaceRoots, ReplaceScope, InitialSnapshot, RemoveRoot,
       CloseFolder, AuthorizeRemote, CloseWindow
  <2> QED BY <2>1, <2>2, <2>3, EmptyingKeeps
<1>5. CASE CancelLocal \/ CancelRemote \/ BeginRemote \/ LocalDeadlinePasses
           \/ RemoteDeadlinePasses
  <2>1. UNCHANGED <<picker, closed, call>>
    BY <1>5 DEF CancelLocal, CancelRemote, BeginRemote, LocalDeadlinePasses,
       RemoteDeadlinePasses
  <2>2. /\ local' # NoReceipt => local # NoReceipt
        /\ remote' # NoReceipt => remote # NoReceipt
    BY <1>5 DEF CancelLocal, CancelRemote, BeginRemote, LocalDeadlinePasses,
       RemoteDeadlinePasses, LiveRemote
  <2> QED BY <2>1, <2>2, EmptyingKeeps
<1>6. CASE UNCHANGED vars
  BY <1>6, EmptyingKeeps DEF vars
<1> QED BY <1>3, <1>4, <1>5, <1>6, PickerKeeps DEF Next

(* At the start every slot is empty.                                        *)
LEMMA OwnedInit == Init => Owned
<1> SUFFICES ASSUME Init PROVE Owned
  OBVIOUS
<1>1. /\ picker = 0 /\ local = NoReceipt /\ remote = NoReceipt
      /\ \A c \in Calls : call[c].pc = "idle"
  BY DEF Init, Idle
<1>2. SlotsOwned
  BY <1>1 DEF SlotsOwned, NothingSurvivesClose, ReceiptIsUnique, PickerSlotOwned
<1>3. OneInGate /\ OneDialog
  BY <1>1 DEF OneInGate, OneDialog, Gated
<1> QED BY <1>2, <1>3, SafeInit DEF Owned

(* The picker slot, the two batch slots and the receipt taken out of its    *)
(* slot have one owner each, and a closed window keeps none of them.        *)
THEOREM SlotsHaveOwners == Spec => []SlotsOwned
<1>1. Owned => SlotsOwned
  BY DEF Owned
<1> QED BY <1>1, OwnedInit, OwnedStep, PTL DEF Spec

-----------------------------------------------------------------------------
(* The order of the plan                                                    *)

(* What a command may do to the plans in one lock section, by kind.         *)

(* It starts and moves no plan: at most it drops one or lets its deadline   *)
(* pass, and ids go only up.                                                *)
Outside == {"idle", "dialog", "leased", "operating", "statting", "resolved",
            "remoteDeleting"}
PlansStay ==
    /\ UNCHANGED attempts
    /\ confs' \in Nat /\ confs' >= confs
    /\ local' # NoReceipt => /\ local # NoReceipt
                             /\ local'.conf = local.conf /\ local'.next = local.next
    /\ \A c \in Calls : call'[c] = call[c] \/ call'[c].pc \in Outside

(* It moves from outside to a plan of a new id.                             *)
PlanStarts(c) ==
    /\ UNCHANGED <<attempts, local>>
    /\ confs' = confs + 1 /\ confs' \in 1..MaxConf
    /\ call[c] = Idle /\ call'[c].pc = "planning" /\ call'[c].conf = confs + 1

(* The plan is scanned, and the scan installed.                             *)
PlanScanned(c) ==
    /\ UNCHANGED <<attempts, confs>>
    /\ local' = NoReceipt
    /\ call[c].pc = "planning" /\ call'[c].pc = "scanning"
    /\ call'[c].conf = call[c].conf
PlanInstalled(c) ==
    /\ UNCHANGED <<attempts, confs>>
    /\ call[c].pc = "scanning" /\ call'[c] = Idle
    /\ local' \in Receipts /\ local'.conf = call[c].conf /\ local'.next = 1

(* Begin takes the receipt out and puts it back.                            *)
BeginTakes(c) ==
    /\ UNCHANGED <<attempts, confs>>
    /\ local # NoReceipt /\ local' = NoReceipt
    /\ call[c] = Idle /\ call'[c].pc = "revalidating" /\ call'[c].receipt = local
BeginReturns(c) ==
    /\ UNCHANGED <<attempts, confs>>
    /\ call[c].pc = "revalidating" /\ call'[c] = Idle
    /\ local' \in Receipts
    /\ local'.conf = call[c].receipt.conf /\ local'.next = call[c].receipt.next

(* Commit takes the receipt out for its next entry and puts it back with    *)
(* the turn moved on.                                                       *)
CommitTakes(c) ==
    /\ UNCHANGED confs
    /\ local # NoReceipt /\ local' = NoReceipt
    /\ attempts' = [attempts EXCEPT ![local.conf] = Append(@, local.next)]
    /\ call[c] = Idle /\ call'[c].pc = "deleting" /\ call'[c].receipt = local
CommitReturns(c) ==
    /\ UNCHANGED <<attempts, confs>>
    /\ call[c].pc = "deleting" /\ call'[c] = Idle
    /\ local' \in Receipts
    /\ local'.conf = call[c].receipt.conf /\ local'.next = call[c].receipt.next + 1

PlanStep(c) ==
    /\ \A d \in Calls \ {c} : call'[d] = call[d]
    /\ \/ PlanStarts(c) \/ PlanScanned(c) \/ PlanInstalled(c)
       \/ BeginTakes(c) \/ BeginReturns(c)
       \/ CommitTakes(c) \/ CommitReturns(c)

(* Every step leaves the plans alone or is one of the seven.                *)
LEMMA PlanShape ==
    ASSUME Owned, [Next]_vars
    PROVE  PlansStay \/ \E c \in Calls : PlanStep(c)
<1> USE DEF Goto, Idle, scopeVars, pickerVars, batchVars
<1>1. TypeOK /\ TypeOK'
  BY TypeStep DEF Owned, Safe
<1>2. confs \in Nat /\ confs' \in Nat
  BY <1>1, BoundsAreNat DEF TypeOK
<1>3. ASSUME UNCHANGED <<attempts, confs>>,
             local' = local \/ local' = NoReceipt,
             \A d \in Calls : call'[d] = call[d] \/ call'[d].pc \in Outside
      PROVE  PlansStay
  BY <1>2, <1>3 DEF PlansStay
<1>4. ASSUME NEW c \in Calls, UNCHANGED <<attempts, confs>>,
             local' = local \/ local' = NoReceipt,
             NEW s, s.pc \in Outside, call' = [call EXCEPT ![c] = s]
      PROVE  PlansStay
  <2>1. \A d \in Calls : call'[d] = call[d] \/ call'[d].pc \in Outside
    BY <1>1, <1>4 DEF TypeOK
  <2> QED BY <1>3, <1>4, <2>1
<1>5. Idle.pc \in Outside
  BY DEF Outside
<1>6. CASE UNCHANGED vars
  BY <1>3, <1>6 DEF vars
<1>7. CASE Reauthorizing
  <2> USE DEF InvalidateAll, InvalidateLocal
  <2>1. UNCHANGED <<call, attempts, confs>> /\ (local' = local \/ local' = NoReceipt)
    BY <1>7 DEF Reauthorizing, ReplaceRoots, ReplaceScope, InitialSnapshot, RemoveRoot,
       CloseFolder, AuthorizeRemote, CloseWindow
  <2> QED BY <1>3, <2>1
<1>8. CASE CancelLocal \/ CancelRemote \/ BeginRemote \/ RemoteDeadlinePasses
  BY <1>3, <1>8 DEF CancelLocal, CancelRemote, BeginRemote, RemoteDeadlinePasses
<1>9. CASE LocalDeadlinePasses
  <2>1. local \in Receipts /\ local' = [local EXCEPT !.expired = TRUE]
    BY <1>1, <1>9 DEF LocalDeadlinePasses, TypeOK
  <2>2. local'.conf = local.conf /\ local'.next = local.next
    BY <2>1 DEF Receipts
  <2> QED BY <1>2, <1>9, <2>2 DEF LocalDeadlinePasses, PlansStay
<1>10. ASSUME NEW c \in Calls, Picking(c) PROVE PlansStay
  <2>1. UNCHANGED <<attempts, confs>> /\ (local' = local \/ local' = NoReceipt)
    BY <1>10 DEF Picking, BeginPicker, AbortPicker, DiscardPick, RejectPick, AcceptPick,
       InvalidateAll, InvalidateLocal
  <2>2. CASE BeginPicker(c)
    <3> DEFINE s == [pc |-> "dialog", token |-> tokens + 1]
    <3>1. s.pc \in Outside /\ call' = [call EXCEPT ![c] = s]
      BY <2>2 DEF BeginPicker, Outside
    <3> QED BY <1>4, <2>1, <3>1
  <2>3. CASE AbortPicker(c) \/ DiscardPick(c) \/ RejectPick(c)
             \/ \E new \in SUBSET Roots : AcceptPick(c, new)
    <3>1. call' = [call EXCEPT ![c] = Idle]
      BY <2>3 DEF AbortPicker, DiscardPick, RejectPick, AcceptPick
    <3> QED BY <1>4, <1>5, <2>1, <3>1
  <2> QED BY <1>10, <2>2, <2>3 DEF Picking
<1>11. ASSUME NEW c \in Calls, Mutating(c) PROVE PlansStay
  <2>1. UNCHANGED <<attempts, confs, local>>
    BY <1>11 DEF Mutating, Lease, EnterMutation, FinishMutation
  <2>2. \A d \in Calls \ {c} : call'[d] = call[d]
    BY <1>1, <1>11, CallMoves DEF CallStep
  <2>3. \A s : call' = [call EXCEPT ![c] = s] => call'[c] = s
    BY <1>1 DEF TypeOK
  <2>4. call'[c].pc \in {"idle", "leased", "operating"}
    <3>1. ASSUME NEW r \in LocalRoots, Lease(c, r) PROVE call'[c].pc = "leased"
      BY <2>3, <3>1 DEF Lease
    <3>2. CASE EnterMutation(c)
      <4>1. call[c] \in [pc : {"leased", "operating"}, roots : SUBSET LocalRoots]
        BY <1>1, <3>2, CallFields DEF EnterMutation, TypeOK
      <4>2. [call[c] EXCEPT !.pc = "operating"].pc = "operating"
        BY <4>1
      <4> QED BY <2>3, <3>2, <4>2 DEF EnterMutation
    <3>3. CASE FinishMutation(c)
      BY <2>3, <3>3 DEF FinishMutation
    <3> QED BY <1>11, <3>1, <3>2, <3>3 DEF Mutating
  <2> QED BY <1>3, <2>1, <2>2, <2>4 DEF Outside
<1>12. ASSUME NEW c \in Calls, DeletingRemote(c) PROVE PlansStay
  <2>1. UNCHANGED attempts /\ (local' = local \/ local' = NoReceipt)
    BY <1>12 DEF DeletingRemote, RequestRemotePrepare, InstallRemote, LiveLocal,
       RemotePrepareFails, ResolveRemote, VerifyRemote, FinishRemote
  <2>2. confs' = confs \/ confs' = confs + 1
    BY <1>12 DEF DeletingRemote, RequestRemotePrepare, InstallRemote,
       RemotePrepareFails, ResolveRemote, VerifyRemote, FinishRemote
  <2>3. \A d \in Calls \ {c} : call'[d] = call[d]
    BY <1>1, <1>12, CallMoves DEF CallStep
  <2>4. \A s : call' = [call EXCEPT ![c] = s] => call'[c] = s
    BY <1>1 DEF TypeOK
  <2>5. call'[c].pc \in {"idle", "statting", "resolved", "remoteDeleting"}
    <3>1. ASSUME NEW sel \in RemoteSelections, RequestRemotePrepare(c, sel) PROVE <2>5!:
      BY <2>4, <3>1 DEF RequestRemotePrepare
    <3>2. CASE InstallRemote(c) \/ RemotePrepareFails(c) \/ FinishRemote(c)
      BY <2>4, <3>2 DEF InstallRemote, RemotePrepareFails, FinishRemote
    <3>3. ASSUME NEW r \in RemoteRoots, ResolveRemote(c, r) PROVE <2>5!:
      BY <2>4, <3>3 DEF ResolveRemote
    <3>4. ASSUME NEW e \in 1..MaxEntries, VerifyRemote(c, e) PROVE <2>5!:
      BY <2>4, <3>4 DEF VerifyRemote
    <3> QED BY <1>12, <3>1, <3>2, <3>3, <3>4 DEF DeletingRemote
  <2>6. \A d \in Calls : call'[d] = call[d] \/ call'[d].pc \in Outside
    BY <2>3, <2>5 DEF Outside
  <2> QED BY <1>2, <2>1, <2>2, <2>6 DEF PlansStay
<1>13. ASSUME NEW c \in Calls, DeletingLocal(c) PROVE PlansStay \/ PlanStep(c)
  <2>1. \A d \in Calls \ {c} : call'[d] = call[d]
    BY <1>1, <1>13, CallMoves DEF CallStep
  <2>2. /\ \A s : call' = [call EXCEPT ![c] = s] => call'[c] = s
        /\ UNCHANGED call => call'[c] = call[c]
    BY <1>1 DEF TypeOK
  <2>3. ASSUME UNCHANGED <<attempts, confs>>, local' = local \/ local' = NoReceipt,
               call' = [call EXCEPT ![c] = Idle]
        PROVE  PlansStay
    BY <1>4, <1>5, <2>3
  <2>4. ASSUME NEW sel \in Selections, RequestPrepare(c, sel) PROVE PlanStarts(c)
    <3>1. /\ UNCHANGED <<attempts, local>> /\ confs' = confs + 1
          /\ call[c] = Idle /\ confs < MaxConf
      BY <2>4 DEF RequestPrepare
    <3>2. call'[c] = [pc |-> "planning", sel |-> sel, conf |-> confs + 1]
      BY <2>2, <2>4 DEF RequestPrepare
    <3>3. confs' \in 1..MaxConf
      BY <1>2, <3>1, BoundsAreNat
    <3> QED BY <3>1, <3>2, <3>3 DEF PlanStarts
  <2>5. CASE EnterPrepare(c)
    <3>1. UNCHANGED <<attempts, confs>> /\ (local' = local \/ local' = NoReceipt)
      BY <2>5 DEF EnterPrepare, LiveLocal
    <3>2. CASE call' = [call EXCEPT ![c] = Idle]
      BY <2>3, <3>1, <3>2
    <3>3. CASE ~(call' = [call EXCEPT ![c] = Idle])
      <4>1. LeasesValid(Selected(call[c].sel)) /\ LiveLocal = NoReceipt
        BY <2>5, <3>3 DEF EnterPrepare
      <4>2. local' = NoReceipt
        BY <2>5, <4>1 DEF EnterPrepare, LeasesValid
      <4>3. call' = [call EXCEPT ![c] = [pc |-> "scanning", sel |-> call[c].sel,
                                         conf |-> call[c].conf, rev |-> revision]]
        BY <2>5, <4>1 DEF EnterPrepare
      <4>4. call[c].pc = "planning"
        BY <2>5 DEF EnterPrepare
      <4> QED BY <2>1, <2>2, <3>1, <4>2, <4>3, <4>4 DEF PlanStep, PlanScanned
    <3> QED BY <3>2, <3>3
  <2>6. CASE InstallLocal(c)
    <3>1. local' \in Receipts /\ local'.conf = call[c].conf /\ local'.next = 1
      <4>1. local' # NoReceipt
        BY <2>6 DEF InstallLocal, NoReceipt
      <4> QED BY <1>1, <2>6, <4>1 DEF InstallLocal, TypeOK
    <3> QED BY <2>1, <2>2, <2>6, <3>1 DEF InstallLocal, PlanStep, PlanInstalled
  <2>7. CASE PrepareFails(c)
    BY <2>3, <2>7 DEF PrepareFails
  <2>8. CASE EnterBegin(c)
    <3>1. call'[c] = [pc |-> "revalidating", receipt |-> local]
      BY <2>2, <2>8 DEF EnterBegin
    <3>2. local # NoReceipt
      BY <2>8 DEF EnterBegin, LiveLocal
    <3> QED BY <2>1, <2>8, <3>1, <3>2 DEF EnterBegin, PlanStep, BeginTakes
  <2>9. CASE FinishBegin(c)
    <3>1. CASE UNCHANGED local
      BY <2>3, <2>9, <3>1 DEF FinishBegin
    <3>2. CASE local' = [call[c].receipt EXCEPT !.phase = "executing", !.expired = FALSE]
      <4>1. call[c].receipt \in Receipts
        BY <1>1, <2>9, CallFields DEF FinishBegin, TypeOK
      <4>2. /\ local' \in Receipts
            /\ local'.conf = call[c].receipt.conf /\ local'.next = call[c].receipt.next
        BY <3>2, <4>1 DEF Receipts
      <4> QED BY <2>1, <2>2, <2>9, <4>2 DEF FinishBegin, PlanStep, BeginReturns
    <3> QED BY <2>9, <3>1, <3>2 DEF FinishBegin
  <2>10. ASSUME NEW e \in 1..MaxEntries, EnterCommit(c, e) PROVE PlansStay \/ PlanStep(c)
    <3>1. local # NoReceipt /\ local' = NoReceipt /\ confs' = confs /\ call[c] = Idle
      BY <2>10 DEF EnterCommit, LiveLocal
    <3>2. CASE CommitExpected(e)
      <4>1. call' = [call EXCEPT ![c] = [pc |-> "deleting", receipt |-> local]]
        BY <2>10, <3>2 DEF EnterCommit
      <4>2. attempts' = [attempts EXCEPT ![local.conf] = Append(@, e)]
        BY <2>10, <3>2 DEF EnterCommit
      <4>3. e = local.next
        BY <3>2 DEF CommitExpected
      <4>4. call'[c] = [pc |-> "deleting", receipt |-> local]
        BY <2>2, <4>1
      <4> QED BY <2>1, <3>1, <4>2, <4>3, <4>4 DEF PlanStep, CommitTakes
    <3>3. CASE ~CommitExpected(e)
      <4>1. UNCHANGED <<attempts, call>>
        BY <2>10, <3>3 DEF EnterCommit
      <4> QED BY <1>3, <3>1, <4>1
    <3> QED BY <3>2, <3>3
  <2>11. CASE FinishCommit(c)
    <3>1. CASE UNCHANGED local
      BY <2>3, <2>11, <3>1 DEF FinishCommit
    <3>2. CASE /\ call[c].receipt.next + 1 \in DOMAIN call[c].receipt.sel
               /\ local' = [call[c].receipt EXCEPT !.next = @ + 1, !.expired = FALSE]
      <4>1. call[c].receipt \in Receipts
        BY <1>1, <2>11, CallFields DEF FinishCommit, TypeOK
      <4>2. /\ local'.conf = call[c].receipt.conf
            /\ local'.next = call[c].receipt.next + 1
        BY <3>2, <4>1 DEF Receipts
      <4>3. local' \in Receipts
        BY <3>2, <4>1, SelectionDomain DEF Receipts
      <4> QED BY <2>1, <2>2, <2>11, <4>2, <4>3 DEF FinishCommit, PlanStep, CommitReturns
    <3> QED BY <2>11, <3>1, <3>2 DEF FinishCommit
  <2> QED
    BY <1>13, <2>1, <2>4, <2>5, <2>6, <2>7, <2>8, <2>9, <2>10, <2>11
       DEF DeletingLocal, PlanStep
<1> QED
  BY <1>6, <1>7, <1>8, <1>9, <1>10, <1>11, <1>12, <1>13 DEF Next

(* What the types say of the ids and turns that are held.                   *)
LEMMA HeldTypes ==
    ASSUME TypeOK
    PROVE  /\ confs \in Nat
           /\ \A k \in 1..MaxConf : /\ attempts[k] \in Seq(1..MaxEntries)
                                    /\ Len(attempts[k]) \in Nat
           /\ local # NoReceipt => local.conf \in 1..MaxConf /\ local.next \in Nat
           /\ \A c \in Calls :
                /\ call[c].pc \in {"planning", "scanning"} => call[c].conf \in 1..MaxConf
                /\ call[c].pc \in {"revalidating", "deleting"}
                     => /\ call[c].receipt.conf \in 1..MaxConf
                        /\ call[c].receipt.next \in Nat
<1>1. confs \in Nat
  BY BoundsAreNat DEF TypeOK
<1>2. ASSUME NEW k \in 1..MaxConf
      PROVE  attempts[k] \in Seq(1..MaxEntries) /\ Len(attempts[k]) \in Nat
  <2>1. attempts[k] \in Seq(1..MaxEntries)
    BY DEF TypeOK
  <2> QED BY <2>1, LenProperties
<1>3. ASSUME NEW r \in Receipts PROVE r.conf \in 1..MaxConf /\ r.next \in Nat
  BY BoundsAreNat DEF Receipts
<1>4. ASSUME NEW c \in Calls
      PROVE  /\ call[c].pc \in {"planning", "scanning"} => call[c].conf \in 1..MaxConf
             /\ call[c].pc \in {"revalidating", "deleting"} => call[c].receipt \in Receipts
  BY CallFields DEF TypeOK
<1> QED BY <1>1, <1>2, <1>3, <1>4 DEF TypeOK

(* Dropping plans keeps the rest in step.                                   *)
LEMMA StayKeeps ==
    ASSUME TypeOK, TypeOK', InStep, PlansStay
    PROVE  InStep'
<1> USE DEF InStep, PlansStay
<1>1. ASSUME NEW c \in Calls, NEW k \in 1..MaxConf
      PROVE  /\ Planned(c, k)' => Planned(c, k)
             /\ TakenOut(c, k)' => TakenOut(c, k)
             /\ Holds(c, k)' => Holds(c, k)
  BY DEF Planned, TakenOut, Holds, Outside
<1>2. ASSUME NEW k \in 1..MaxConf
      PROVE  Installed(k)' => Installed(k)
  BY DEF Installed
<1>3. HeldOnce'
  BY <1>1, <1>2 DEF HeldOnce
<1>4. UntouchedYet'
  <2> SUFFICES ASSUME NEW k \in 1..MaxConf,
                      k > confs' \/ (\E c \in Calls : Planned(c, k)')
               PROVE  attempts[k] = <<>>
    BY DEF UntouchedYet
  <2>1. k > confs' => k > confs
    BY HeldTypes
  <2> QED BY <1>1, <2>1 DEF UntouchedYet
<1>5. HeldIsGiven'
  <2> SUFFICES ASSUME NEW k \in 1..MaxConf,
                      Installed(k)' \/ (\E c \in Calls : Holds(c, k)')
               PROVE  k <= confs'
    BY DEF HeldIsGiven
  <2>1. k <= confs
    BY <1>1, <1>2 DEF HeldIsGiven
  <2> QED BY <2>1, HeldTypes
<1>6. ReceiptCounts'
  <2>1. local' # NoReceipt => Len(attempts[local'.conf]) + 1 = local'.next
    BY DEF ReceiptCounts
  <2>2. \A c \in Calls : call'[c].pc \in {"revalidating", "deleting"} => call'[c] = call[c]
    BY DEF Outside
  <2> QED BY <2>1, <2>2 DEF ReceiptCounts
<1>7. DeletesInPlanOrder'
  BY DEF DeletesInPlanOrder
<1> QED BY <1>3, <1>4, <1>5, <1>6, <1>7

(* So does a plan that starts: its id is new to everyone.                   *)
LEMMA StartKeeps ==
    ASSUME TypeOK, TypeOK', InStep, NEW c \in Calls, PlanStarts(c),
           \A d \in Calls \ {c} : call'[d] = call[d]
    PROVE  InStep'
<1> USE DEF InStep, PlanStarts, Idle
<1>1. confs \in Nat /\ confs + 1 \in 1..MaxConf /\ confs' = confs + 1
  BY HeldTypes
<1>2. ASSUME NEW d \in Calls, d # c, NEW k \in 1..MaxConf
      PROVE  /\ Planned(d, k)' <=> Planned(d, k)
             /\ TakenOut(d, k)' <=> TakenOut(d, k)
             /\ Holds(d, k)' <=> Holds(d, k)
  BY <1>2 DEF Planned, TakenOut, Holds
<1>3. ASSUME NEW k \in 1..MaxConf
      PROVE  /\ Installed(k)' <=> Installed(k)
             /\ Planned(c, k)' <=> k = confs + 1
             /\ ~TakenOut(c, k)'
             /\ Holds(c, k)' <=> k = confs + 1
  BY DEF Installed, Planned, TakenOut, Holds
<1>4. ASSUME NEW d \in Calls PROVE ~Holds(d, confs + 1) /\ ~Installed(confs + 1)
  BY <1>1 DEF HeldIsGiven
<1>5. HeldOnce'
  BY <1>1, <1>2, <1>3, <1>4 DEF HeldOnce
<1>6. UntouchedYet'
  <2> SUFFICES ASSUME NEW k \in 1..MaxConf,
                      k > confs + 1 \/ (\E d \in Calls : Planned(d, k)')
               PROVE  attempts[k] = <<>>
    BY <1>1 DEF UntouchedYet
  <2>1. k > confs + 1 \/ k = confs + 1 => k > confs
    BY <1>1
  <2> QED BY <1>2, <1>3, <2>1 DEF UntouchedYet
<1>7. HeldIsGiven'
  <2> SUFFICES ASSUME NEW k \in 1..MaxConf,
                      Installed(k)' \/ (\E d \in Calls : Holds(d, k)')
               PROVE  k <= confs + 1
    BY <1>1 DEF HeldIsGiven
  <2>1. k <= confs \/ k = confs + 1
    BY <1>2, <1>3 DEF HeldIsGiven
  <2> QED BY <1>1, <2>1
<1>8. ReceiptCounts'
  <2>1. \A d \in Calls : call'[d].pc \in {"revalidating", "deleting"} => call'[d] = call[d]
    OBVIOUS
  <2> QED BY <2>1 DEF ReceiptCounts
<1>9. DeletesInPlanOrder'
  BY DEF DeletesInPlanOrder
<1> QED BY <1>5, <1>6, <1>7, <1>8, <1>9

(* The other sections move the plan of call c from one place to the next.   *)
LEMMA MoveKeeps ==
    ASSUME TypeOK, InStep, NEW c \in Calls, confs' = confs,
           \A d \in Calls \ {c} : call'[d] = call[d],
           \A k \in 1..MaxConf : /\ Holds(c, k)' => Holds(c, k) \/ Installed(k)
                                 /\ Installed(k)' => Holds(c, k) \/ Installed(k)
                                 /\ ~(Holds(c, k)' /\ Installed(k)')
    PROVE  HeldOnce' /\ HeldIsGiven'
<1> USE DEF InStep
<1>1. ASSUME NEW d \in Calls, d # c, NEW k \in 1..MaxConf
      PROVE  Holds(d, k)' <=> Holds(d, k)
  BY <1>1 DEF Planned, TakenOut, Holds
<1>2. ASSUME NEW k \in 1..MaxConf, NEW d \in Calls, d # c, Holds(d, k)'
      PROVE  ~Holds(c, k)' /\ ~Installed(k)'
  BY <1>1, <1>2 DEF HeldOnce
<1>3. HeldOnce'
  <2>1. ASSUME NEW k \in 1..MaxConf, NEW d \in Calls, NEW e \in Calls,
               Holds(d, k)', Holds(e, k)'
        PROVE  d = e
    <3>1. CASE d # c /\ e # c
      BY <1>1, <2>1, <3>1 DEF HeldOnce
    <3>2. CASE d = c \/ e = c
      BY <1>2, <2>1, <3>2
    <3> QED BY <3>1, <3>2
  <2>2. ASSUME NEW k \in 1..MaxConf, NEW d \in Calls, Holds(d, k)', Installed(k)'
        PROVE  FALSE
    BY <1>2, <2>2
  <2> QED BY <2>1, <2>2 DEF HeldOnce
<1>4. HeldIsGiven'
  <2> SUFFICES ASSUME NEW k \in 1..MaxConf,
                      Installed(k)' \/ (\E d \in Calls : Holds(d, k)')
               PROVE  k <= confs
    BY DEF HeldIsGiven
  <2>1. Installed(k) \/ \E d \in Calls : Holds(d, k)
    BY <1>1
  <2> QED BY <2>1 DEF HeldIsGiven
<1> QED BY <1>3, <1>4

(* A scan keeps its id to itself; what it installs counts from one.         *)
LEMMA ScanKeeps ==
    ASSUME TypeOK, TypeOK', InStep, NEW c \in Calls, PlanScanned(c) \/ PlanInstalled(c),
           \A d \in Calls \ {c} : call'[d] = call[d]
    PROVE  InStep'
<1> USE DEF Idle
<1>1. /\ UNCHANGED <<attempts, confs>>
      /\ call[c].pc \in {"planning", "scanning"}
      /\ call'[c].pc \notin {"planning", "revalidating", "deleting"}
      /\ call'[c].pc = "scanning" => call'[c].conf = call[c].conf /\ local' = NoReceipt
      /\ local' # NoReceipt => /\ call'[c].pc # "scanning"
                               /\ local'.conf = call[c].conf /\ local'.next = 1
  BY DEF PlanScanned, PlanInstalled
<1>2. ASSUME NEW k \in 1..MaxConf
      PROVE  /\ Planned(c, k)' => Planned(c, k)
             /\ Holds(c, k)' => Holds(c, k)
             /\ Installed(k)' => Planned(c, k) /\ Holds(c, k)
             /\ ~(Holds(c, k)' /\ Installed(k)')
  BY <1>1 DEF Planned, TakenOut, Holds, Installed
<1>3. ASSUME NEW d \in Calls, d # c, NEW k \in 1..MaxConf
      PROVE  Planned(d, k)' <=> Planned(d, k)
  BY <1>3 DEF Planned
<1>4. HeldOnce' /\ HeldIsGiven'
  BY <1>1, <1>2, MoveKeeps
<1>5. UntouchedYet'
  BY <1>1, <1>2, <1>3 DEF InStep, UntouchedYet
<1>6. ReceiptCounts'
  <2>1. ASSUME local' # NoReceipt PROVE Len(attempts'[local'.conf]) + 1 = local'.next
    <3> DEFINE k == call[c].conf
    <3>1. k \in 1..MaxConf /\ Planned(c, k)
      BY <1>1, HeldTypes DEF Planned
    <3>2. attempts[k] = <<>>
      BY <3>1 DEF InStep, UntouchedYet
    <3>3. Len(attempts[k]) = 0
      BY <3>2
    <3> QED BY <1>1, <2>1, <3>3
  <2>2. \A d \in Calls : call'[d].pc \in {"revalidating", "deleting"} => call'[d] = call[d]
    BY <1>1
  <2> QED BY <1>1, <2>1, <2>2 DEF InStep, ReceiptCounts
<1>7. DeletesInPlanOrder'
  BY <1>1 DEF InStep, DeletesInPlanOrder
<1> QED BY <1>4, <1>5, <1>6, <1>7 DEF InStep

(* A receipt put back counts as it did when it was taken, or one more after *)
(* its entry was deleted.                                                   *)
LEMMA ReturnKeeps ==
    ASSUME TypeOK, TypeOK', InStep, NEW c \in Calls,
           BeginTakes(c) \/ BeginReturns(c) \/ CommitReturns(c),
           \A d \in Calls \ {c} : call'[d] = call[d]
    PROVE  InStep'
<1> USE DEF Idle
<1>1. UNCHANGED <<attempts, confs>> /\ call'[c].pc \notin {"planning", "scanning"}
  BY DEF BeginTakes, BeginReturns, CommitReturns
<1>2. ASSUME NEW k \in 1..MaxConf
      PROVE  /\ ~Planned(c, k)'
             /\ Holds(c, k)' => Holds(c, k) \/ Installed(k)
             /\ Installed(k)' => Holds(c, k) \/ Installed(k)
             /\ ~(Holds(c, k)' /\ Installed(k)')
  BY DEF BeginTakes, BeginReturns, CommitReturns, Planned, TakenOut, Holds, Installed
<1>3. ASSUME NEW d \in Calls, d # c, NEW k \in 1..MaxConf
      PROVE  Planned(d, k)' <=> Planned(d, k)
  BY <1>3 DEF Planned
<1>4. HeldOnce' /\ HeldIsGiven'
  BY <1>1, <1>2, MoveKeeps
<1>5. UntouchedYet'
  BY <1>1, <1>2, <1>3 DEF InStep, UntouchedYet
<1>6. ReceiptCounts'
  <2>1. CASE BeginTakes(c)
    <3>1. local' = NoReceipt /\ call'[c].pc = "revalidating" /\ call'[c].receipt = local
      BY <2>1 DEF BeginTakes
    <3>2. Len(attempts[local.conf]) + 1 = local.next
      BY <2>1 DEF BeginTakes, InStep, ReceiptCounts
    <3> QED BY <1>1, <3>1, <3>2 DEF InStep, ReceiptCounts
  <2>2. CASE BeginReturns(c)
    <3>1. /\ local'.conf = call[c].receipt.conf /\ local'.next = call[c].receipt.next
          /\ call'[c].pc = "idle" /\ call[c].pc = "revalidating"
      BY <2>2 DEF BeginReturns
    <3> QED BY <1>1, <3>1 DEF InStep, ReceiptCounts
  <2>3. CASE CommitReturns(c)
    <3>1. /\ local'.conf = call[c].receipt.conf /\ local'.next = call[c].receipt.next + 1
          /\ call'[c].pc = "idle" /\ call[c].pc = "deleting"
      BY <2>3 DEF CommitReturns
    <3> QED BY <1>1, <3>1 DEF InStep, ReceiptCounts
  <2> QED BY <2>1, <2>2, <2>3
<1>7. DeletesInPlanOrder'
  BY <1>1 DEF InStep, DeletesInPlanOrder
<1> QED BY <1>4, <1>5, <1>6, <1>7 DEF InStep

(* A commit starts the delete of the one entry whose turn it is.            *)
LEMMA CommitKeeps ==
    ASSUME TypeOK, TypeOK', InStep, ReceiptIsUnique, NEW c \in Calls, CommitTakes(c),
           \A d \in Calls \ {c} : call'[d] = call[d]
    PROVE  InStep'
<1> USE DEF Idle
<1> DEFINE conf == local.conf
<1>1. /\ local # NoReceipt /\ local' = NoReceipt /\ confs' = confs
      /\ call[c].pc = "idle" /\ call'[c].pc = "deleting" /\ call'[c].receipt = local
  BY DEF CommitTakes
<1>2. /\ conf \in 1..MaxConf /\ local.next \in Nat
      /\ attempts[conf] \in Seq(1..MaxEntries) /\ Len(attempts[conf]) \in Nat
      /\ Len(attempts[conf]) + 1 = local.next
  BY <1>1, HeldTypes DEF InStep, ReceiptCounts
<1>3. /\ attempts'[conf] = Append(attempts[conf], local.next)
      /\ \A k \in 1..MaxConf \ {conf} : attempts'[k] = attempts[k]
  BY <1>2 DEF CommitTakes, TypeOK
<1>4. local.next \in 1..MaxEntries
  BY <1>1 DEF TypeOK, Receipts
<1>5. /\ Len(attempts'[conf]) = local.next
      /\ \A i \in 1..Len(attempts[conf]) : attempts'[conf][i] = attempts[conf][i]
      /\ attempts'[conf][local.next] = local.next
      /\ DOMAIN attempts'[conf] = 1..local.next
  <2>1. /\ Append(attempts[conf], local.next) \in Seq(1..MaxEntries)
        /\ Len(Append(attempts[conf], local.next)) = Len(attempts[conf]) + 1
        /\ \A i \in 1..Len(attempts[conf]) :
             Append(attempts[conf], local.next)[i] = attempts[conf][i]
        /\ Append(attempts[conf], local.next)[Len(attempts[conf]) + 1] = local.next
    BY <1>2, <1>4, AppendProperties
  <2> QED BY <1>2, <1>3, <2>1, LenProperties
<1>6. ASSUME NEW k \in 1..MaxConf
      PROVE  /\ ~Planned(c, k)'
             /\ Installed(k) <=> k = conf
             /\ Holds(c, k)' => Installed(k)
             /\ ~Installed(k)'
  BY <1>1 DEF Planned, TakenOut, Holds, Installed
<1>7. ASSUME NEW d \in Calls, d # c, NEW k \in 1..MaxConf
      PROVE  Planned(d, k)' <=> Planned(d, k)
  BY <1>7 DEF Planned
<1>8. HeldOnce' /\ HeldIsGiven'
  BY <1>1, <1>6, MoveKeeps
<1>9. UntouchedYet'
  <2> SUFFICES ASSUME NEW k \in 1..MaxConf,
                      k > confs \/ (\E d \in Calls : Planned(d, k)')
               PROVE  attempts'[k] = <<>>
    BY <1>1 DEF UntouchedYet
  <2>1. k > confs \/ (\E d \in Calls : Planned(d, k))
    BY <1>6, <1>7
  <2>2. k # conf
    <3>1. CASE k > confs
      <4>1. conf <= confs
        BY <1>2, <1>6 DEF InStep, HeldIsGiven
      <4> QED BY <1>2, <3>1, <4>1, HeldTypes
    <3>2. CASE \E d \in Calls : Planned(d, k)
      BY <1>6, <3>2 DEF InStep, HeldOnce, Holds
    <3> QED BY <2>1, <3>1, <3>2
  <2> QED BY <1>3, <2>1, <2>2 DEF InStep, UntouchedYet
<1>10. ReceiptCounts'
  <2>1. ASSUME NEW d \in Calls, call'[d].pc \in {"revalidating", "deleting"}
        PROVE  d = c
    BY <1>1, <2>1 DEF ReceiptIsUnique
  <2> QED BY <1>1, <1>5, <2>1 DEF ReceiptCounts
<1>11. DeletesInPlanOrder'
  <2> SUFFICES ASSUME NEW k \in 1..MaxConf, NEW i \in DOMAIN attempts'[k]
               PROVE  attempts'[k][i] = i
    BY DEF DeletesInPlanOrder
  <2>1. CASE k # conf
    BY <1>3, <2>1 DEF InStep, DeletesInPlanOrder
  <2>2. CASE k = conf
    <3>1. i \in 1..Len(attempts[conf]) \/ i = local.next
      BY <1>2, <1>5, <2>2
    <3>2. i \in 1..Len(attempts[conf]) => attempts[conf][i] = i
      BY <1>2, LenProperties DEF InStep, DeletesInPlanOrder
    <3> QED BY <1>5, <2>2, <3>1, <3>2
  <2> QED BY <2>1, <2>2
<1> QED BY <1>8, <1>9, <1>10, <1>11 DEF InStep

(* Every step keeps what was deleted in step with the plans.                *)
LEMMA InStepStep ==
    ASSUME IInv, [Next]_vars
    PROVE  IInv'
<1>1. Owned /\ InStep /\ TypeOK /\ ReceiptIsUnique
  BY DEF IInv, Owned, Safe, SlotsOwned
<1>2. Owned' /\ TypeOK'
  BY <1>1, OwnedStep DEF Owned, Safe
<1>3. ASSUME NEW c \in Calls, PlanStep(c) PROVE InStep'
  BY <1>1, <1>2, <1>3, StartKeeps, ScanKeeps, ReturnKeeps, CommitKeeps DEF PlanStep
<1>4. InStep'
  BY <1>1, <1>2, <1>3, PlanShape, StayKeeps
<1> QED BY <1>2, <1>4 DEF IInv

(* At the start no id was given out and nothing was deleted.                *)
LEMMA InStepInit == Init => IInv
<1> SUFFICES ASSUME Init PROVE InStep
  BY OwnedInit DEF IInv
<1>1. /\ local = NoReceipt
      /\ \A c \in Calls : call[c].pc = "idle"
      /\ \A k \in 1..MaxConf : attempts[k] = <<>>
  BY DEF Init, Idle
<1>2. \A k \in 1..MaxConf : ~Installed(k) /\ \A c \in Calls : ~Holds(c, k)
  BY <1>1 DEF Installed, Holds, Planned, TakenOut
<1>3. HeldOnce /\ HeldIsGiven /\ UntouchedYet
  BY <1>1, <1>2 DEF HeldOnce, HeldIsGiven, UntouchedYet
<1>4. ReceiptCounts /\ DeletesInPlanOrder
  BY <1>1 DEF ReceiptCounts, DeletesInPlanOrder
<1> QED BY <1>3, <1>4 DEF InStep

(* A confirmed batch is deleted in the order the user confirmed, each entry *)
(* at most once, whatever is cancelled, expired, replayed or revoked.       *)
THEOREM PlanIsFollowed == Spec => []DeletesInPlanOrder
<1>1. IInv => DeletesInPlanOrder
  BY DEF IInv, InStep
<1> QED BY <1>1, InStepInit, InStepStep, PTL DEF Spec
=============================================================================
