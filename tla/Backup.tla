-------------------------------- MODULE Backup -------------------------------
(* Hot exit: the backups of one working copy while its user goes on typing,   *)
(* the final flush a close or a change of folders waits for, and the native   *)
(* store (plain-workspace-backup-tracker.ts, plain-workspace-backup-service   *)
(* .ts, backup/service.rs, backup/store.rs).                                  *)
(*                                                                            *)
(* Content is its version.  An operation of the backup service runs on its    *)
(* own: nothing orders two of them, neither in the page nor in the pool that  *)
(* carries them out.  A write is staged, checked and renamed, so a reader     *)
(* sees it whole or not at all.                                               *)
EXTENDS Naturals

CONSTANTS
    MaxVersion, \* bound: edits
    Attempts    \* FINAL_BACKUP_STABILITY_ATTEMPTS

ASSUME BoundsAreNat == MaxVersion \in Nat \ {0} /\ Attempts \in Nat \ {0}

VARIABLES
    version,    \* getContentVersion of the working copy
    saved,      \* the version its file has
    timer,      \* a backup is scheduled (the tracker of the workbench)
    ops,        \* operations of the backup service under way; no two are alike
    disk,       \* the version in the backup store, 0 for no backup
    flush,      \* flushOneStableWorkingCopy
    page,       \* open, agreed to go, or gone
    flushed,    \* history: the version of the last write the flush saw done
    overtaken   \* history: another operation was under way when that write began

vars == <<version, saved, timer, ops, disk, flush, page, flushed, overtaken>>

-----------------------------------------------------------------------------
Versions == 0..MaxVersion
NoFlush == [pc |-> "idle", attempt |-> 0, seen |-> 0]

Init ==
    /\ version = 0 /\ saved = 0 /\ timer = FALSE
    /\ ops = {}
    /\ disk = 0 /\ flush = NoFlush /\ page = "open"
    /\ flushed = 0 /\ overtaken = FALSE

Modified == version # saved

(* backup() and discardBackup() up to their first await.                      *)
Started(os, who, kind) ==
    os \cup {[who |-> who, kind |-> kind, content |-> version, cancelled |-> FALSE,
              stage |-> IF kind = "write" THEN "bytes" ELSE "sent"]}

(* The tracker cancels what it has under way; only a write looks at that.     *)
Cancelled == {IF o.who = "tracker" THEN [o EXCEPT !.cancelled = TRUE] ELSE o : o \in ops}

-----------------------------------------------------------------------------
(* The user, and the tracker of the workbench *)

Edit ==
    /\ page # "gone" /\ version < MaxVersion
    /\ version' = version + 1
    /\ timer' = TRUE /\ ops' = Cancelled
    /\ UNCHANGED <<saved, disk, flush, page, flushed, overtaken>>

Save ==
    /\ page # "gone" /\ Modified
    /\ saved' = version
    /\ timer' = FALSE /\ ops' = Started(Cancelled, "tracker", "discard")
    /\ UNCHANGED <<version, disk, flush, page, flushed, overtaken>>

ScheduledBackup ==
    /\ page # "gone" /\ timer
    /\ timer' = FALSE /\ ops' = Started(ops, "tracker", "write")
    /\ UNCHANGED <<version, saved, disk, flush, page, flushed, overtaken>>

-----------------------------------------------------------------------------
(* The final flush *)

FlushOp(os, kind) ==
    /\ ops' = Started(os, "flush", kind)
    /\ overtaken' = (os # {})

Succeeds == flush' = NoFlush /\ page' = "agreed"
Fails == flush' = NoFlush /\ UNCHANGED page
Retries == flush' = [flush EXCEPT !.pc = "trying", !.attempt = @ + 1] /\ UNCHANGED page

(* mutant: the promise of the operation is not waited for *)
AwaitsNot(pc) == Succeeds

Awaits(pc) == flush' = [flush EXCEPT !.pc = pc] /\ UNCHANGED page

(* flushStableWorkingCopyBackups: nothing to do, hot exit disabled, or one    *)
(* flush at a time.                                                           *)
BeginFlush ==
    /\ page = "open" /\ flush.pc = "idle"
    /\ IF ~Modified THEN Succeeds /\ UNCHANGED <<timer, ops>>
       ELSE \/ Fails /\ UNCHANGED <<timer, ops>>
            \/ /\ flush' = [NoFlush EXCEPT !.pc = "trying", !.attempt = 1]
               /\ timer' = FALSE /\ ops' = Cancelled
               /\ UNCHANGED page
    /\ UNCHANGED <<version, saved, disk, flushed, overtaken>>

Try ==
    /\ page = "open" /\ flush.pc = "trying"
    /\ IF flush.attempt > Attempts
       THEN Fails /\ UNCHANGED <<ops, overtaken>>
       ELSE IF Modified
       THEN /\ flush' = [flush EXCEPT !.pc = "snapshot", !.seen = version]
            /\ UNCHANGED <<ops, overtaken, page>>
       ELSE FlushOp(ops, "discard") /\ Awaits("discarding")
    /\ UNCHANGED <<version, saved, timer, disk, flushed>>

(* mutant: what was typed since the snapshot or during the write is ignored *)
UnchangedSinceAny == Modified

(* The content is still the one that was looked at.                           *)
UnchangedSince == Modified /\ version = flush.seen

(* workingCopy.backup() returned: write what it has, unless it changed.       *)
SnapshotReturns ==
    /\ page = "open" /\ flush.pc = "snapshot"
    /\ IF UnchangedSince
       THEN FlushOp(ops, "write") /\ Awaits("writing")
       ELSE Retries /\ UNCHANGED <<ops, overtaken>>
    /\ UNCHANGED <<version, saved, timer, disk, flushed>>

-----------------------------------------------------------------------------
(* Operations of the backup service *)

Ends(o) == ops \ {o}
Moves(o, stage) == Ends(o) \cup {[o EXCEPT !.stage = stage]}

(* The content was read; the last look at the token is here.                  *)
BytesRead(o) ==
    /\ page # "gone" /\ o.stage = "bytes"
    /\ ops' = IF o.cancelled THEN Ends(o) ELSE Moves(o, "sent")
    /\ UNCHANGED <<version, saved, timer, disk, flush, page, flushed, overtaken>>

(* BackupService::write and discard under its gate; roots that changed or the *)
(* disk may refuse them.                                                      *)
Native(o, ok) ==
    /\ o.stage = "sent"
    /\ disk' = IF ~ok THEN disk ELSE IF o.kind = "write" THEN o.content ELSE 0
    /\ ops' = Moves(o, IF ok THEN "done" ELSE "failed")
    /\ UNCHANGED <<version, saved, timer, flush, page, flushed, overtaken>>

Returned(o, who, stages) == page # "gone" /\ o.who = who /\ o.stage \in stages

TrackerReturns(o) ==
    /\ Returned(o, "tracker", {"done", "failed"})
    /\ ops' = Ends(o)
    /\ UNCHANGED <<version, saved, timer, disk, flush, page, flushed, overtaken>>

(* mutant: a write that failed is not noticed *)
FailureIgnored(o) ==
    /\ Returned(o, "flush", {"failed"})
    /\ ops' = Ends(o) /\ Succeeds
    /\ UNCHANGED <<version, saved, timer, disk, flushed, overtaken>>

(* mutant: its promise is never rejected *)
FailureHangs(o) ==
    /\ Returned(o, "flush", {"failed"})
    /\ ops' = Ends(o)
    /\ UNCHANGED <<version, saved, timer, disk, flush, page, flushed, overtaken>>

FlushOpFails(o) ==
    /\ Returned(o, "flush", {"failed"})
    /\ ops' = Ends(o) /\ Fails
    /\ UNCHANGED <<version, saved, timer, disk, flushed, overtaken>>

FlushOpDone(o) ==
    /\ Returned(o, "flush", {"done"})
    /\ flushed' = IF o.kind = "write" THEN o.content ELSE 0
    /\ IF o.kind = "discard" \/ UnchangedSince
       THEN Succeeds /\ ops' = Ends(o) /\ UNCHANGED overtaken
       ELSE IF Modified
       THEN Retries /\ ops' = Ends(o) /\ UNCHANGED overtaken
       ELSE FlushOp(Ends(o), "discard") /\ Awaits("discarding")
    /\ UNCHANGED <<version, saved, timer, disk>>

-----------------------------------------------------------------------------
(* The window *)

(* Another participant, or another window, does not agree.                    *)
Stay ==
    /\ page = "agreed" /\ page' = "open"
    /\ UNCHANGED <<version, saved, timer, ops, disk, flush, flushed, overtaken>>

(* The page goes: what it has not sent is never sent.                         *)
Destroyed ==
    /\ page = "agreed" /\ page' = "gone"
    /\ timer' = FALSE
    /\ ops' = {o \in ops : o.stage = "sent"}
    /\ UNCHANGED <<version, saved, disk, flush, flushed, overtaken>>

(* A write nobody waits for may be lost with the process.                     *)
Lost(o) ==
    /\ page = "gone"
    /\ ops' = Ends(o)
    /\ UNCHANGED <<version, saved, timer, disk, flush, page, flushed, overtaken>>

-----------------------------------------------------------------------------
OpStep(o) ==
    \/ BytesRead(o) \/ TrackerReturns(o) \/ FlushOpFails(o) \/ FlushOpDone(o)
    \/ \E ok \in BOOLEAN : Native(o, ok)

Next ==
    \/ Edit \/ Save \/ ScheduledBackup \/ BeginFlush \/ Try \/ SnapshotReturns
    \/ Stay \/ Destroyed
    \/ \E o \in ops : OpStep(o) \/ Lost(o)

Spec == Init /\ [][Next]_vars

(* Promises are run and commands carried out, as far as the flush waits for   *)
(* them; edits, saves and closes are the user's.                              *)
FairSpec ==
    /\ Spec
    /\ WF_vars(Try) /\ WF_vars(SnapshotReturns)
    /\ WF_vars(\E o \in ops : o.who = "flush" /\ OpStep(o))

-----------------------------------------------------------------------------
Ops == [who : {"tracker", "flush"}, kind : {"write", "discard"}, content : Versions,
        cancelled : BOOLEAN, stage : {"bytes", "sent", "done", "failed"}]
Flushes == [pc : {"idle", "trying", "snapshot", "writing", "discarding"},
            attempt : 0..(Attempts + 1), seen : Versions]
Alike(o, p) == o.who = p.who /\ o.kind = p.kind /\ o.content = p.content

TypeOK ==
    /\ version \in Versions /\ saved \in 0..version /\ disk \in Versions /\ timer \in BOOLEAN
    /\ ops \subseteq Ops /\ flush \in Flushes
    /\ \A o \in ops : o.who = "tracker" \/ flush.pc \in {"writing", "discarding"}
    /\ \A o, p \in ops : Alike(o, p) => o = p
    /\ page \in {"open", "agreed", "gone"}
    /\ flushed \in 0..version /\ overtaken \in BOOLEAN

(* A flush that ends on a write leaves the version on screen at that moment:   *)
(* what was typed while it waited, at any of its awaits, was flushed again.    *)
(* The discards it ends on when the working copy was saved meanwhile are not   *)
(* looked behind: text typed while one is under way is not flushed, and the    *)
(* page agrees (lines 77-83 and 103-109).                                      *)
FlushCoversScreen ==
    [][flush.pc = "writing" /\ page' = "agreed" => Modified' /\ flushed' = version']_vars

(* The backup on disk is what was on screen when the page agreed to go, once  *)
(* everything under way has ended.                                            *)
Settled == page # "open" /\ Modified /\ flushed = version /\ ops = {}
DurableUnlessOvertaken == Settled /\ ~overtaken => disk = version

(* A flush always ends, whatever is typed, saved or refused meanwhile.        *)
FlushEnds == flush.pc # "idle" ~> flush.pc = "idle"

(* "a stable, persisted content version": the same without the proviso.       *)
FlushIsDurable == Settled => disk = version
=============================================================================
