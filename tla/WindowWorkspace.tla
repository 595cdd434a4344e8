-------------------------- MODULE WindowWorkspace --------------------------
(***************************************************************************)
(* The authority of one window over its workspace roots:                   *)
(* src-tauri/src/workspace/service.rs (WindowWorkspace, the WorkspaceService *)
(* methods that drive it) and the WorkspaceScope of workspace/mod.rs.       *)
(*                                                                         *)
(* Commands run concurrently on the async runtime and its blocking pool.   *)
(* Each occupies a slot of Calls; call[c].pc says where it is between two  *)
(* of its lock sections.  One section under the `state` mutex is one        *)
(* action.  The `mutation_gate` mutex is held exactly by the call whose pc  *)
(* is in Gated; an operation that keeps both locks from start to end is one *)
(* action that needs the gate free.                                        *)
(*                                                                         *)
(* Time is a flag: a batch is `expired` once its 120 s idle deadline has   *)
(* passed; the code notices only where it discards expired batches.        *)
(***************************************************************************)
EXTENDS Naturals, Sequences, FiniteSets

CONSTANTS
    Calls,         \* slots for commands in flight
    LocalRoots,    \* root ids a local directory may get (RootId::new: never reused)
    RemoteRoots,   \* root ids an SSH directory may get
    MaxRoots,      \* MAX_WORKSPACE_ROOTS
    MaxRevision,   \* where checked_add refuses to go on (u64::MAX)
    MaxToken,      \* bound: pickers opened
    MaxConf,       \* bound: delete confirmations asked for
    MaxEntries     \* entries of a delete batch (64 in the code)

Roots == LocalRoots \cup RemoteRoots

ASSUME RootsDisjoint == LocalRoots \cap RemoteRoots = {}
ASSUME BoundsAreNat ==
    /\ MaxRoots \in Nat /\ MaxRevision \in Nat /\ MaxToken \in Nat
    /\ MaxConf \in Nat /\ MaxEntries \in Nat

VARIABLES
    roots,      \* scope.roots: the ids authorized now
    spent,      \* ids ever given out
    revision,   \* scope.revision
    restore,    \* initial_restore_status is Pending (what it settles to is only reported)
    closed,     \* closed
    picker,     \* active_picker: the token, 0 for none
    tokens,     \* next_picker_token
    local,      \* active_delete_batch
    remote,     \* active_remote_delete_batch
    confs,      \* confirmation ids given out (UUIDs in the code)
    attempts,   \* history: attempts[conf] are the local entries a delete was started for
    call        \* per call: its pc and what it carries between lock sections

scopeVars  == <<roots, spent, revision, restore>>
pickerVars == <<picker, tokens>>
batchVars  == <<local, remote, confs, attempts>>
vars == <<scopeVars, closed, pickerVars, batchVars, call>>

-----------------------------------------------------------------------------
(* Values *)

Selections == UNION {[1..n -> LocalRoots] : n \in 1..MaxEntries}
RemoteSelections == UNION {[1..n -> RemoteRoots] : n \in 1..MaxEntries}

(* DeleteBatchReceipt: the ordered selection, the entry whose turn it is,  *)
(* the scope revision it was prepared under.                               *)
Receipts == [conf : 1..MaxConf, rev : 0..MaxRevision, phase : {"prepared", "executing"},
             sel : Selections, next : 1..MaxEntries, expired : BOOLEAN]
NoReceipt == [phase |-> "none"]

(* RemoteDeleteBatch: which entries are still pending, in no order.        *)
RemoteBatches == [conf : 1..MaxConf, phase : {"prepared", "begun"}, sel : RemoteSelections,
                  pending : SUBSET (1..MaxEntries), expired : BOOLEAN]

Idle == [pc |-> "idle"]

CallStates ==
    {Idle}
    \cup [pc : {"dialog"}, token : 1..MaxToken]
    \cup [pc : {"leased", "operating"}, roots : SUBSET LocalRoots]
    \cup [pc : {"planning"}, sel : Selections, conf : 1..MaxConf]
    \cup [pc : {"scanning"}, sel : Selections, conf : 1..MaxConf, rev : 0..MaxRevision]
    \cup [pc : {"revalidating", "deleting"}, receipt : Receipts]
    \cup [pc : {"statting"}, sel : RemoteSelections, conf : 1..MaxConf]
    \cup [pc : {"resolved"}, root : RemoteRoots]
    \cup [pc : {"remoteDeleting"}, root : RemoteRoots, conf : 1..MaxConf, entry : 1..MaxEntries]

(* The pcs inside `let _mutation = lock(&self.mutation_gate)`.             *)
Gated == {"operating", "scanning", "revalidating", "deleting"}
GateFree == \A c \in Calls : call[c].pc \notin Gated

Goto(c, s) == call' = [call EXCEPT ![c] = s]

Selected(sel) == {sel[i] : i \in DOMAIN sel}

(* The local roots a call is touching on disk right now.                   *)
Touching(c) ==
    CASE call[c].pc = "operating" -> call[c].roots
      [] call[c].pc = "scanning" -> Selected(call[c].sel)
      [] call[c].pc \in {"revalidating", "deleting"} -> Selected(call[c].receipt.sel)
      [] OTHER -> {}

(* discard_expired_delete_batch / discard_expired_remote_delete_batch      *)
LiveLocal == IF local # NoReceipt /\ local.expired THEN NoReceipt ELSE local
LiveRemote == IF remote # NoReceipt /\ remote.expired THEN NoReceipt ELSE remote

-----------------------------------------------------------------------------
Init ==
    /\ roots = {} /\ spent = {} /\ revision = 0 /\ restore = TRUE
    /\ closed = FALSE
    /\ picker = 0 /\ tokens = 0
    /\ local = NoReceipt /\ remote = NoReceipt /\ confs = 0
    /\ attempts = [k \in 1..MaxConf |-> <<>>]
    /\ call = [c \in Calls |-> Idle]

(* invalidate_delete_batch                                                  *)
InvalidateLocal == local' = NoReceipt /\ UNCHANGED <<confs, attempts>>

(* ... and invalidate_remote_delete_batch, which replace_scope_locked omits *)
InvalidateAll == InvalidateLocal /\ remote' = NoReceipt

(* A change of the root set commits with the next revision.                *)
CommitRoots(new) ==
    /\ roots' = new
    /\ spent' = spent \cup new
    /\ IF new = roots THEN revision' = revision
                      ELSE revision < MaxRevision /\ revision' = revision + 1

Unused(S) == S \ spent

-----------------------------------------------------------------------------
(* Root set: replace, restore, remove, close folder, remote root, close     *)

(* replace_scope_locked.  Directories already held keep their id, the others *)
(* get a fresh one.  Listing the same roots in another order also counts as *)
(* a new revision.                                                          *)
ReplaceScope(new) ==
    /\ new \subseteq (roots \cap LocalRoots) \cup Unused(LocalRoots)
    /\ Cardinality(new) <= MaxRoots
    /\ \/ CommitRoots(new)
       \/ /\ new = roots /\ Cardinality(new) > 1 /\ revision < MaxRevision
          /\ revision' = revision + 1
          /\ UNCHANGED <<roots, spent>>
    /\ InvalidateLocal
    /\ UNCHANGED remote

(* replace_roots: workspace_open_recent                                     *)
ReplaceRoots(new) ==
    /\ GateFree /\ ~closed /\ picker = 0
    /\ ReplaceScope(new)
    /\ UNCHANGED <<restore, closed, pickerVars, call>>

(* initial_snapshot: the cold-start restore of the last workspace, once.    *)
InitialSnapshot ==
    /\ GateFree /\ ~closed /\ restore
    /\ restore' = FALSE
    /\ \/ roots = {} /\ \E new \in SUBSET LocalRoots : ReplaceScope(new)
       \/ UNCHANGED <<roots, spent, revision, batchVars>>
    /\ UNCHANGED <<closed, pickerVars, call>>

(* mutant: the revocation does not take the mutation gate                   *)
RemoveRootUngated(r) ==
    /\ ~closed /\ r \in roots
    /\ CommitRoots(roots \ {r})
    /\ InvalidateAll
    /\ UNCHANGED <<restore, closed, pickerVars, call>>

(* remove_root                                                              *)
RemoveRoot(r) ==
    /\ GateFree /\ ~closed /\ r \in roots
    /\ CommitRoots(roots \ {r})
    /\ InvalidateAll
    /\ UNCHANGED <<restore, closed, pickerVars, call>>

(* close_folder: with no root open it only settles the restore status.      *)
CloseFolder ==
    /\ GateFree /\ ~closed /\ picker = 0
    /\ restore' = FALSE
    /\ IF roots = {} THEN UNCHANGED <<roots, spent, revision, batchVars>>
                     ELSE CommitRoots({}) /\ InvalidateAll
    /\ UNCHANGED <<closed, pickerVars, call>>

(* authorize_remote_root: under the state lock only, never the gate.        *)
AuthorizeRemote(r) ==
    /\ ~closed
    /\ \/ r \in roots
       \/ r \in Unused(RemoteRoots) /\ Cardinality(roots) < MaxRoots
    /\ CommitRoots(roots \cup {r})
    /\ InvalidateAll
    /\ UNCHANGED <<restore, closed, pickerVars, call>>

(* mutant: close does not wait for the mutation gate                        *)
CloseWindowUngated ==
    /\ ~closed /\ closed' = TRUE
    /\ picker' = 0
    /\ InvalidateAll
    /\ UNCHANGED <<scopeVars, tokens, call>>

(* close: the window is destroyed.  Every later ensure_open fails.          *)
CloseWindow ==
    /\ GateFree /\ ~closed
    /\ closed' = TRUE
    /\ picker' = 0
    /\ InvalidateAll
    /\ UNCHANGED <<scopeVars, tokens, call>>

-----------------------------------------------------------------------------
(* Native pickers: begin_picker, the dialog, finish_*picker or abort_picker  *)

BeginPicker(c) ==
    /\ call[c] = Idle /\ ~closed
    /\ picker = 0
    /\ tokens < MaxToken
    /\ tokens' = tokens + 1
    /\ picker' = tokens + 1
    /\ Goto(c, [pc |-> "dialog", token |-> tokens + 1])
    /\ UNCHANGED <<scopeVars, closed, batchVars>>

(* ensure_active_picker                                                     *)
OwnsPicker(c) == ~closed /\ picker = call[c].token

(* The dialog itself failed: abort_picker, with no gate.                    *)
AbortPicker(c) ==
    /\ call[c].pc = "dialog"
    /\ picker' = IF OwnsPicker(c) THEN 0 ELSE picker
    /\ Goto(c, Idle)
    /\ UNCHANGED <<scopeVars, closed, tokens, batchVars>>

(* The window was closed under the dialog: its answer is discarded.         *)
DiscardPick(c) ==
    /\ call[c].pc = "dialog" /\ GateFree /\ ~OwnsPicker(c)
    /\ Goto(c, Idle)
    /\ UNCHANGED <<scopeVars, closed, pickerVars, batchVars>>

(* Cancelled, an invalid selection, a watcher or a directory that failed:   *)
(* the slot is freed and nothing else changes.                              *)
RejectPick(c) ==
    /\ call[c].pc = "dialog" /\ GateFree /\ OwnsPicker(c)
    /\ picker' = 0
    /\ Goto(c, Idle)
    /\ UNCHANGED <<scopeVars, closed, tokens, batchVars>>

(* What a selection does to the root set: Add keeps every root; Replace     *)
(* keeps the one directory chosen; opening or saving a file adds its parent *)
(* and settles the restore status.                                          *)
PickAdd(new) == roots \subseteq new /\ (new \ roots) \subseteq Unused(LocalRoots)
PickReplace(new) == \E r \in (roots \cap LocalRoots) \cup Unused(LocalRoots) : new = {r}

AcceptPick(c, new) ==
    /\ call[c].pc = "dialog" /\ GateFree /\ OwnsPicker(c)
    /\ Cardinality(new) <= MaxRoots
    /\ \/ /\ PickAdd(new)
          /\ restore' \in {restore, FALSE}
       \/ PickReplace(new) /\ UNCHANGED restore
    /\ CommitRoots(new)
    /\ picker' = 0
    /\ InvalidateAll
    /\ Goto(c, Idle)
    /\ UNCHANGED <<closed, tokens>>

-----------------------------------------------------------------------------
(* Mutations of local roots: run_mutation, run_versioned_write and the      *)
(* dual-root copy and move.  A lease is taken per root before the gate.     *)

Lease(c, r) ==
    /\ ~closed /\ r \in roots \cap LocalRoots
    /\ \/ call[c] = Idle /\ Goto(c, [pc |-> "leased", roots |-> {r}])
       \/ /\ call[c].pc = "leased" /\ Cardinality(call[c].roots) = 1
          /\ Goto(c, [pc |-> "leased", roots |-> call[c].roots \cup {r}])
    /\ UNCHANGED <<scopeVars, closed, pickerVars, batchVars>>

(* validate_leases                                                          *)
LeasesValid(S) == ~closed /\ S \subseteq roots

EnterMutation(c) ==
    /\ call[c].pc = "leased" /\ GateFree
    /\ Goto(c, IF LeasesValid(call[c].roots)
               THEN [call[c] EXCEPT !.pc = "operating"] ELSE Idle)
    /\ UNCHANGED <<scopeVars, closed, pickerVars, batchVars>>

FinishMutation(c) ==
    /\ call[c].pc = "operating"
    /\ Goto(c, Idle)
    /\ UNCHANGED <<scopeVars, closed, pickerVars, batchVars>>

-----------------------------------------------------------------------------
(* Permanent delete of local entries: prepare, begin, commit one by one      *)

(* WorkspaceService::prepare_delete, up to the blocking pool: every root     *)
(* was local and authorized when looked up.                                 *)
RequestPrepare(c, sel) ==
    /\ call[c] = Idle /\ ~closed /\ confs < MaxConf
    /\ Selected(sel) \subseteq roots \cap LocalRoots
    /\ confs' = confs + 1
    /\ Goto(c, [pc |-> "planning", sel |-> sel, conf |-> confs + 1])
    /\ UNCHANGED <<scopeVars, closed, pickerVars, local, remote, attempts>>

(* prepare_delete under the gate: the leases are looked at, an expired batch *)
(* is dropped and a live one refuses.                                       *)
EnterPrepare(c) ==
    /\ call[c].pc = "planning" /\ GateFree
    /\ local' = IF closed THEN local ELSE LiveLocal
    /\ Goto(c, IF /\ LeasesValid(Selected(call[c].sel))
                  /\ LiveLocal = NoReceipt
               THEN [pc |-> "scanning", sel |-> call[c].sel, conf |-> call[c].conf,
                     rev |-> revision]
               ELSE Idle)
    /\ UNCHANGED <<scopeVars, closed, pickerVars, remote, confs, attempts>>

(* The manifest is built; install unless the scope moved or one is pending. *)
InstallLocal(c) ==
    /\ call[c].pc = "scanning"
    /\ ~closed /\ revision = call[c].rev /\ local = NoReceipt
    /\ local' = [conf |-> call[c].conf, rev |-> call[c].rev, phase |-> "prepared",
                 sel |-> call[c].sel, next |-> 1, expired |-> FALSE]
    /\ Goto(c, Idle)
    /\ UNCHANGED <<scopeVars, closed, pickerVars, remote, confs, attempts>>

(* The manifest could not be built, or the check above refused.             *)
PrepareFails(c) ==
    /\ call[c].pc = "scanning"
    /\ Goto(c, Idle)
    /\ UNCHANGED <<scopeVars, closed, pickerVars, batchVars>>

(* cancel_delete on the batch it names, or any call that finds it expired.  *)
CancelLocal ==
    /\ GateFree /\ ~closed /\ local # NoReceipt
    /\ local' = NoReceipt
    /\ UNCHANGED <<scopeVars, closed, pickerVars, remote, confs, attempts, call>>

(* begin_delete takes the receipt out of the state before its I/O.          *)
EnterBegin(c) ==
    /\ call[c] = Idle /\ GateFree /\ ~closed
    /\ LiveLocal # NoReceipt
    /\ local.phase = "prepared" /\ local.rev = revision
    /\ Goto(c, [pc |-> "revalidating", receipt |-> local])
    /\ local' = NoReceipt
    /\ UNCHANGED <<scopeVars, closed, pickerVars, remote, confs, attempts>>

FinishBegin(c) ==
    /\ call[c].pc = "revalidating"
    /\ \/ UNCHANGED local                        \* revalidate_all failed
       \/ /\ ~closed /\ revision = call[c].receipt.rev /\ local = NoReceipt
          /\ local' = [call[c].receipt EXCEPT !.phase = "executing", !.expired = FALSE]
    /\ Goto(c, Idle)
    /\ UNCHANGED <<scopeVars, closed, pickerVars, remote, confs, attempts>>

(* mutant: matches_next does not compare the entry                          *)
CommitExpectedAnyEntry(e) ==
    local.phase = "executing" /\ local.rev = revision /\ local.sel[e] \in roots

(* A commit the live batch does not expect next kills the whole batch.      *)
CommitExpected(e) ==
    /\ local.phase = "executing" /\ local.rev = revision
    /\ e = local.next
    /\ local.sel[e] \in roots

EnterCommit(c, e) ==
    /\ call[c] = Idle /\ GateFree /\ ~closed
    /\ LiveLocal # NoReceipt
    /\ e \in DOMAIN local.sel
    /\ local' = NoReceipt
    /\ IF CommitExpected(e)
       THEN /\ Goto(c, [pc |-> "deleting", receipt |-> local])
            /\ attempts' = [attempts EXCEPT ![local.conf] = Append(@, e)]
       ELSE UNCHANGED <<attempts, call>>
    /\ UNCHANGED <<scopeVars, closed, pickerVars, remote, confs>>

(* mutant: is_complete is not asked before the receipt goes back            *)
FinishCommitIncomplete(c) ==
    /\ call[c].pc = "deleting" /\ ~closed
    /\ local' = [call[c].receipt EXCEPT !.next = @ + 1, !.expired = FALSE]
    /\ Goto(c, Idle)
    /\ UNCHANGED <<scopeVars, closed, pickerVars, remote, confs, attempts>>

(* Deleted with entries left: the receipt goes back, with no second look at *)
(* the revision.  Retained, partial or complete: it is gone.                *)
FinishCommit(c) ==
    /\ call[c].pc = "deleting"
    /\ LET receipt == call[c].receipt IN
       \/ UNCHANGED local
       \/ /\ receipt.next + 1 \in DOMAIN receipt.sel /\ ~closed
          /\ local' = [receipt EXCEPT !.next = @ + 1, !.expired = FALSE]
    /\ Goto(c, Idle)
    /\ UNCHANGED <<scopeVars, closed, pickerVars, remote, confs, attempts>>

LocalDeadlinePasses ==
    /\ local # NoReceipt /\ ~local.expired
    /\ local' = [local EXCEPT !.expired = TRUE]
    /\ UNCHANGED <<scopeVars, closed, pickerVars, remote, confs, attempts, call>>

-----------------------------------------------------------------------------
(* Permanent delete of remote entries: no gate anywhere, an await in each    *)

RequestRemotePrepare(c, sel) ==
    /\ call[c] = Idle /\ ~closed /\ confs < MaxConf
    /\ Selected(sel) \subseteq roots \cap RemoteRoots
    /\ confs' = confs + 1
    /\ Goto(c, [pc |-> "statting", sel |-> sel, conf |-> confs + 1])
    /\ UNCHANGED <<scopeVars, closed, pickerVars, local, remote, attempts>>

(* mutant: the window is not looked at again after the awaits               *)
InstallRemoteUnchecked(c) ==
    /\ call[c].pc = "statting"
    /\ remote' = [conf |-> call[c].conf, phase |-> "prepared", sel |-> call[c].sel,
                  pending |-> DOMAIN call[c].sel, expired |-> FALSE]
    /\ Goto(c, Idle)
    /\ UNCHANGED <<scopeVars, closed, pickerVars, local, confs, attempts>>

(* install_remote_delete_batch, after the stats; it looks at no root again. *)
InstallRemote(c) ==
    /\ call[c].pc = "statting" /\ ~closed
    /\ local' = LiveLocal
    /\ remote' = IF LiveLocal = NoReceipt /\ LiveRemote = NoReceipt
                 THEN [conf |-> call[c].conf, phase |-> "prepared", sel |-> call[c].sel,
                       pending |-> DOMAIN call[c].sel, expired |-> FALSE]
                 ELSE LiveRemote
    /\ Goto(c, Idle)
    /\ UNCHANGED <<scopeVars, closed, pickerVars, confs, attempts>>

(* A stat failed, or the window closed meanwhile.                           *)
RemotePrepareFails(c) ==
    /\ call[c].pc = "statting"
    /\ Goto(c, Idle)
    /\ UNCHANGED <<scopeVars, closed, pickerVars, batchVars>>

(* cancel_remote_delete_if_matches, or any call that finds it expired.      *)
CancelRemote ==
    /\ ~closed /\ remote # NoReceipt
    /\ remote' = NoReceipt
    /\ UNCHANGED <<scopeVars, closed, pickerVars, local, confs, attempts, call>>

(* begin_remote_delete_if_matches                                           *)
BeginRemote ==
    /\ ~closed /\ LiveRemote # NoReceipt
    /\ remote' = [remote EXCEPT !.phase = "begun", !.expired = FALSE]
    /\ UNCHANGED <<scopeVars, closed, pickerVars, local, confs, attempts, call>>

(* commit_delete_entry resolves the root first ...                          *)
ResolveRemote(c, r) ==
    /\ call[c] = Idle /\ ~closed /\ r \in roots \cap RemoteRoots
    /\ Goto(c, [pc |-> "resolved", root |-> r])
    /\ UNCHANGED <<scopeVars, closed, pickerVars, batchVars>>

(* ... then verify_remote_delete_entry_pending, which discards nothing.     *)
EntryPending(r, e) ==
    /\ ~closed /\ remote # NoReceipt
    /\ remote.phase = "begun"
    /\ e \in remote.pending /\ remote.sel[e] = r

VerifyRemote(c, e) ==
    /\ call[c].pc = "resolved"
    /\ IF EntryPending(call[c].root, e)
       THEN Goto(c, [pc |-> "remoteDeleting", root |-> call[c].root,
                     conf |-> remote.conf, entry |-> e])
       ELSE Goto(c, Idle)
    /\ UNCHANGED <<scopeVars, closed, pickerVars, batchVars>>

(* finish_remote_delete_entry, once the SFTP delete has resolved            *)
FinishRemote(c) ==
    /\ call[c].pc = "remoteDeleting"
    /\ LET rest == remote.pending \ {call[c].entry} IN
       IF remote # NoReceipt /\ remote.conf = call[c].conf
       THEN remote' = IF rest = {} THEN NoReceipt
                      ELSE [remote EXCEPT !.pending = rest, !.expired = FALSE]
       ELSE UNCHANGED remote
    /\ Goto(c, Idle)
    /\ UNCHANGED <<scopeVars, closed, pickerVars, local, confs, attempts>>

RemoteDeadlinePasses ==
    /\ remote # NoReceipt /\ ~remote.expired
    /\ remote' = [remote EXCEPT !.expired = TRUE]
    /\ UNCHANGED <<scopeVars, closed, pickerVars, local, confs, attempts, call>>

-----------------------------------------------------------------------------
Reauthorizing ==
    \/ \E new \in SUBSET LocalRoots : ReplaceRoots(new)
    \/ InitialSnapshot
    \/ \E r \in Roots : RemoveRoot(r)
    \/ CloseFolder
    \/ \E r \in RemoteRoots : AuthorizeRemote(r)
    \/ CloseWindow

Picking(c) ==
    \/ BeginPicker(c) \/ AbortPicker(c) \/ DiscardPick(c) \/ RejectPick(c)
    \/ \E new \in SUBSET Roots : AcceptPick(c, new)

Mutating(c) ==
    \/ \E r \in LocalRoots : Lease(c, r)
    \/ EnterMutation(c) \/ FinishMutation(c)

DeletingLocal(c) ==
    \/ \E sel \in Selections : RequestPrepare(c, sel)
    \/ EnterPrepare(c) \/ InstallLocal(c) \/ PrepareFails(c)
    \/ EnterBegin(c) \/ FinishBegin(c)
    \/ \E e \in 1..MaxEntries : EnterCommit(c, e)
    \/ FinishCommit(c)

DeletingRemote(c) ==
    \/ \E sel \in RemoteSelections : RequestRemotePrepare(c, sel)
    \/ InstallRemote(c) \/ RemotePrepareFails(c)
    \/ \E r \in RemoteRoots : ResolveRemote(c, r)
    \/ \E e \in 1..MaxEntries : VerifyRemote(c, e)
    \/ FinishRemote(c)

Next ==
    \/ Reauthorizing
    \/ CancelLocal \/ CancelRemote \/ BeginRemote
    \/ LocalDeadlinePasses \/ RemoteDeadlinePasses
    \/ \E c \in Calls : \/ Picking(c) \/ Mutating(c)
                        \/ DeletingLocal(c) \/ DeletingRemote(c)

Spec == Init /\ [][Next]_vars

-----------------------------------------------------------------------------
(* Properties *)

TypeOK ==
    /\ roots \subseteq Roots /\ spent \subseteq Roots
    /\ revision \in 0..MaxRevision
    /\ restore \in BOOLEAN
    /\ closed \in BOOLEAN
    /\ picker \in 0..MaxToken /\ tokens \in 0..MaxToken
    /\ local \in Receipts \cup {NoReceipt}
    /\ remote \in RemoteBatches \cup {NoReceipt}
    /\ confs \in 0..MaxConf
    /\ attempts \in [1..MaxConf -> Seq(1..MaxEntries)]
    /\ call \in [Calls -> CallStates]

(* While a mutation, a manifest scan, a revalidation or a local delete is   *)
(* on disk, the window is open and every root it touches is authorized: the *)
(* gate orders revocation before or after the side effect, never inside it. *)
AuthorizedSideEffects ==
    \A c \in Calls : call[c].pc \in Gated => ~closed /\ Touching(c) \subseteq roots

(* The entries of a confirmed local batch are deleted in the order the user *)
(* confirmed, each at most once, whatever was cancelled, expired, replayed  *)
(* or revoked in between.                                                   *)
DeletesInPlanOrder ==
    \A k \in 1..MaxConf : \A i \in DOMAIN attempts[k] : attempts[k][i] = i

(* A receipt prepared under the current revision names authorized roots:    *)
(* why begin and commit may trust the revision they compare.                *)
CurrentReceiptAuthorized ==
    local # NoReceipt /\ local.rev = revision => Selected(local.sel) \subseteq roots

(* Closing the window is final: no picker and no batch is left, and     *)
(* none is installed by a command that was still awaiting something.        *)
NothingSurvivesClose ==
    closed => picker = 0 /\ local = NoReceipt /\ remote = NoReceipt

(* A receipt is in one place: while begin or commit holds it outside the    *)
(* state, no other local batch is installed that its return would overwrite. *)
ReceiptIsUnique ==
    \A c \in Calls : call[c].pc \in {"revalidating", "deleting"} => local = NoReceipt

(* The one picker slot of a window is taken exactly while its dialog is up: *)
(* no path leaks it (every later picker would be refused), none frees it    *)
(* for another dialog.                                                      *)
PickerSlotOwned ==
    /\ picker # 0 => \E c \in Calls : call[c] = [pc |-> "dialog", token |-> picker]
    /\ ~closed => \A c \in Calls : call[c].pc = "dialog" => call[c].token = picker

(* Each one-at-a-time slot of the window has the one owner it should have,  *)
(* whatever awaits what between taking it and giving it back.               *)
SlotsOwned == NothingSurvivesClose /\ ReceiptIsUnique /\ PickerSlotOwned

(* A root id that was revoked is never authorized again, so a lease, receipt *)
(* or search taken before cannot come back to life.                         *)
RevocationIsPermanent == [][roots' \cap (spent \ roots) = {}]_vars

(* The lock protocol implements the contract of RootAuthority.              *)
Authority == INSTANCE RootAuthority WITH
    authority <- IF closed THEN {} ELSE roots,
    retired   <- IF closed THEN spent ELSE spent \ roots,
    inUse     <- [c \in Calls |-> Touching(c)]
ImplementsAuthority == Authority!Spec

-----------------------------------------------------------------------------
(* What comments and docs say and the code does not keep *)

(* docs/architecture.md: every mutation of a window shares one gate with    *)
(* root replace, remove and close, so that revocation and side effects have *)
(* a definite order.  A remote delete in flight works on an authorized root. *)
RemoteDeleteAuthorized ==
    \A c \in Calls : call[c].pc = "remoteDeleting" => call[c].root \in roots
=============================================================================
