---------------------------- MODULE BackupProofs ----------------------------
(* Theorems about Backup, for every number of edits and of attempts.          *)
EXTENDS Backup, TLAPS

(* A flush under way holds the page open, and has an attempt left.            *)
FlushAtWork ==
    /\ flush.pc # "idle" => page = "open" /\ flush.attempt >= 1
    /\ flush.pc \in {"snapshot", "writing", "discarding"} => flush.attempt <= Attempts
    /\ flush.seen <= version

(* The one operation the flush waits for is the one its pc names.             *)
FlushOwnsOne ==
    /\ \A o, p \in ops : o.who = "flush" /\ p.who = "flush" => o = p
    /\ \A o \in ops : o.who = "flush" =>
          \/ flush.pc = "writing" /\ o.kind = "write" /\ o.content = flush.seen
          \/ flush.pc = "discarding" /\ o.kind = "discard"

(* The tracker has begun at most one write, and one discard, of this version. *)
TrackerOnce ==
    \A o \in ops :
        /\ o.content <= version
        /\ o.who = "tracker" /\ o.content = version =>
             /\ o.kind = "write" => ~timer
             /\ o.kind = "discard" => ~Modified

(* An operation that cannot take the version on screen from the disk.         *)
Harmless(o) ==
    \/ o.stage \in {"done", "failed"}
    \/ o.kind = "write" /\ o.content = version

(* While the flush writes what is on screen, with nothing before it, ...      *)
WriteStands ==
    flush.pc = "writing" /\ ~overtaken /\ Modified /\ flush.seen = version =>
        /\ \A o \in ops : Harmless(o)
        /\ \A o \in ops : o.who = "flush" /\ o.stage = "done" => disk = version

(* ... and after it has.                                                      *)
FlushStands ==
    page # "open" /\ ~overtaken /\ Modified /\ flushed = version =>
        disk = version /\ \A o \in ops : Harmless(o)

IInv == TypeOK /\ FlushAtWork /\ FlushOwnsOne /\ TrackerOnce /\ WriteStands /\ FlushStands
-----------------------------------------------------------------------------
(* Operations *)

(* An operation that moves on is still the one it was.                        *)
LEMMA MovedOp ==
    ASSUME NEW o \in Ops, NEW stage \in {"sent", "done", "failed"}
    PROVE  LET q == [o EXCEPT !.stage = stage] IN
           q \in Ops /\ Alike(q, o) /\ q.stage = stage /\ q.cancelled = o.cancelled
BY DEF Ops, Alike

(* Cancelling leaves every operation what and where it is.                    *)
LEMMA CancelledOps ==
    ASSUME TypeOK
    PROVE  /\ Cancelled \subseteq Ops
           /\ \A q \in Cancelled : \E o \in ops : Alike(q, o) /\ q.stage = o.stage
           /\ \A p, q \in Cancelled : Alike(p, q) => p = q
<1> DEFINE c(o) == IF o.who = "tracker" THEN [o EXCEPT !.cancelled = TRUE] ELSE o
<1>1. Cancelled = {c(o) : o \in ops}
  BY DEF Cancelled
<1>2. \A o \in ops : c(o) \in Ops /\ Alike(c(o), o) /\ c(o).stage = o.stage
  BY DEF TypeOK, Ops, Alike
<1> HIDE DEF c
<1>3. ASSUME NEW o \in ops, NEW p \in ops, Alike(c(o), c(p)) PROVE c(o) = c(p)
  <2>1. Alike(o, p)
    BY <1>2, <1>3 DEF Alike
  <2> QED BY <2>1 DEF TypeOK
<1> QED BY <1>1, <1>2, <1>3

(* A new operation is of the version on screen, and has not been carried out. *)
NewOp(o, who, kind) ==
    /\ o \in Ops /\ o.who = who /\ o.kind = kind /\ o.content = version
    /\ o.stage \in {"bytes", "sent"}

(* Starting an operation adds one that has not ended.                       *)
LEMMA StartedOps ==
    ASSUME TypeOK, NEW who \in {"tracker", "flush"}, NEW kind \in {"write", "discard"}, NEW os
    PROVE  \E o : NewOp(o, who, kind) /\ Started(os, who, kind) = os \cup {o}
<1> DEFINE o == [who |-> who, kind |-> kind, content |-> version, cancelled |-> FALSE,
                 stage |-> IF kind = "write" THEN "bytes" ELSE "sent"]
<1>1. Started(os, who, kind) = os \cup {o}
  BY DEF Started
<1>2. NewOp(o, who, kind)
  BY DEF TypeOK, Ops, NewOp
<1> QED BY <1>1, <1>2
-----------------------------------------------------------------------------
(* The inductive invariant *)

(* The flush has not begun and nothing is stored.                           *)
LEMMA InitHolds == Init => IInv
<1> SUFFICES ASSUME Init PROVE IInv
  OBVIOUS
<1>1. TypeOK
  <2>1. timer \in BOOLEAN /\ overtaken \in BOOLEAN
    BY Zenon DEF Init
  <2>2. NoFlush \in Flushes
    BY BoundsAreNat DEF Flushes, NoFlush, Versions
  <2> QED BY <2>1, <2>2, BoundsAreNat DEF Init, TypeOK, Versions
<1> QED BY <1>1, BoundsAreNat DEF Init, IInv, NoFlush, FlushAtWork, FlushOwnsOne,
   TrackerOnce, WriteStands, FlushStands

(* Each step, conjunct by conjunct: first what it does to the operations.     *)
LEMMA StepHolds ==
    ASSUME IInv, [Next]_vars
    PROVE  IInv'
<1> USE BoundsAreNat DEF IInv, Versions, Modified
<1>1. CASE UNCHANGED vars
  BY <1>1 DEF vars, TypeOK, FlushAtWork, FlushOwnsOne, TrackerOnce, WriteStands, FlushStands,
     Harmless
<1>2. CASE Edit
  <2>1. /\ version' = version + 1 /\ version' \in Versions /\ ops' = Cancelled
        /\ UNCHANGED <<saved, disk, flush, page, flushed, overtaken>> /\ timer' = TRUE
    BY <1>2 DEF Edit, TypeOK
  <2>2. TypeOK'
    BY <2>1, CancelledOps DEF TypeOK, Alike
  <2>3. FlushAtWork' /\ FlushOwnsOne'
    BY <2>1, CancelledOps DEF TypeOK, FlushAtWork, FlushOwnsOne, Flushes, Alike
  <2>4. TrackerOnce'
    BY <2>1, CancelledOps DEF TypeOK, TrackerOnce, Ops, Alike
  <2>5. WriteStands' /\ FlushStands'
    BY <2>1 DEF TypeOK, FlushAtWork, WriteStands, FlushStands, Flushes
  <2> QED BY <2>2, <2>3, <2>4, <2>5
<1>3. CASE Save
  <2>1. PICK o : NewOp(o, "tracker", "discard") /\ ops' = Cancelled \cup {o}
    BY <1>3, StartedOps DEF Save
  <2>2. /\ saved' = version /\ timer' = FALSE /\ Modified
        /\ UNCHANGED <<version, disk, flush, page, flushed, overtaken>>
    BY <1>3 DEF Save
  <2>3. TypeOK'
    <3>1. \A q \in Cancelled : ~Alike(q, o)
      BY <2>1, <2>2, CancelledOps DEF TrackerOnce, NewOp, Alike
    <3>2. \A p, q \in ops' : Alike(p, q) => p = q
      BY <2>1, <3>1, CancelledOps DEF Alike
    <3>3. \A q \in ops' : q \in Ops /\ (q.who = "tracker" \/ flush.pc \in {"writing", "discarding"})
      BY <2>1, CancelledOps DEF TypeOK, NewOp, Alike
    <3>4. saved' \in 0..version' /\ timer' \in BOOLEAN
      <4>1. version \in 0..version
        BY DEF TypeOK
      <4> QED BY <2>2, <4>1
    <3> QED BY <2>2, <3>2, <3>3, <3>4 DEF TypeOK
  <2>4. FlushAtWork' /\ FlushOwnsOne'
    BY <2>1, <2>2, CancelledOps DEF TypeOK, FlushAtWork, FlushOwnsOne, NewOp, Alike
  <2>5. TrackerOnce'
    BY <2>1, <2>2, CancelledOps DEF TypeOK, TrackerOnce, NewOp, Alike
  <2>6. WriteStands' /\ FlushStands'
    BY <2>2 DEF WriteStands, FlushStands
  <2> QED BY <2>3, <2>4, <2>5, <2>6
<1>4. CASE ScheduledBackup
  <2>1. PICK o : NewOp(o, "tracker", "write") /\ ops' = ops \cup {o}
    BY <1>4, StartedOps DEF ScheduledBackup
  <2>2. /\ timer /\ timer' = FALSE
        /\ UNCHANGED <<version, saved, disk, flush, page, flushed, overtaken>>
    BY <1>4 DEF ScheduledBackup
  <2>3. TypeOK'
    <3>1. \A q \in ops : ~Alike(q, o) /\ ~Alike(o, q)
      BY <2>1, <2>2 DEF TrackerOnce, NewOp, Alike
    <3>2. \A p, q \in ops' : Alike(p, q) => p = q
      BY <2>1, <3>1 DEF TypeOK
    <3>3. \A q \in ops' : q \in Ops /\ (q.who = "tracker" \/ flush.pc \in {"writing", "discarding"})
      BY <2>1 DEF TypeOK, NewOp
    <3> QED BY <2>2, <3>2, <3>3 DEF TypeOK
  <2>4. FlushAtWork' /\ FlushOwnsOne'
    BY <2>1, <2>2 DEF FlushAtWork, FlushOwnsOne, NewOp
  <2>5. TrackerOnce'
    BY <2>1, <2>2 DEF TypeOK, TrackerOnce, NewOp
  <2>6. WriteStands' /\ FlushStands'
    BY <2>1, <2>2 DEF WriteStands, FlushStands, Harmless, NewOp
  <2> QED BY <2>3, <2>4, <2>5, <2>6
<1>5. CASE BeginFlush
  <2>1. /\ page = "open" /\ flush.pc = "idle"
        /\ UNCHANGED <<version, saved, disk, flushed, overtaken>>
    BY <1>5 DEF BeginFlush
  <2>2. CASE ~Modified /\ Succeeds /\ UNCHANGED <<timer, ops>>
    BY <2>1, <2>2 DEF Succeeds, NoFlush, Flushes, TypeOK, FlushAtWork, FlushOwnsOne, TrackerOnce,
       WriteStands, FlushStands
  <2>3. CASE Fails /\ UNCHANGED <<timer, ops>>
    BY <2>1, <2>3 DEF Fails, NoFlush, Flushes, TypeOK, FlushAtWork, FlushOwnsOne, TrackerOnce,
       WriteStands, FlushStands
  <2>4. CASE /\ flush' = [NoFlush EXCEPT !.pc = "trying", !.attempt = 1]
             /\ timer' = FALSE /\ ops' = Cancelled
             /\ UNCHANGED page
    <3>1. flush' = [pc |-> "trying", attempt |-> 1, seen |-> 0] /\ UNCHANGED page
      BY <2>4 DEF NoFlush
    <3>2. TypeOK'
      <4>1. flush' \in Flushes
        BY <3>1 DEF Flushes
      <4>2. \A q \in ops' : q.who = "tracker"
        BY <2>1, <2>4, CancelledOps DEF TypeOK, Alike
      <4> QED BY <2>1, <2>4, <4>1, <4>2, CancelledOps DEF TypeOK
    <3>3. FlushAtWork' /\ FlushOwnsOne'
      <4>1. \A q \in ops' : q.who # "flush"
        BY <2>1, <2>4, CancelledOps DEF FlushOwnsOne, Alike
      <4>2. 0 <= version
        BY DEF TypeOK
      <4>3. FlushOwnsOne'
        BY <4>1 DEF FlushOwnsOne
      <4> QED BY <2>1, <3>1, <4>2, <4>3 DEF FlushAtWork
    <3>4. TrackerOnce'
      BY <2>1, <2>4, CancelledOps DEF TypeOK, TrackerOnce, Alike
    <3>5. WriteStands' /\ FlushStands'
      BY <2>1, <2>4, <3>1 DEF WriteStands, FlushStands
    <3> QED BY <3>2, <3>3, <3>4, <3>5
  <2> QED BY <1>5, <2>2, <2>3, <2>4 DEF BeginFlush
<1>6. CASE Try
  <2>1. /\ page = "open" /\ flush.pc = "trying"
        /\ UNCHANGED <<version, saved, timer, disk, flushed>>
        /\ \A q \in ops : q.who = "tracker"
    BY <1>6 DEF Try, TypeOK
  <2>2. CASE flush.attempt > Attempts /\ Fails /\ UNCHANGED <<ops, overtaken>>
    BY <2>1, <2>2 DEF Fails, NoFlush, Flushes, TypeOK, FlushAtWork, FlushOwnsOne, TrackerOnce,
       WriteStands, FlushStands
  <2>3. CASE /\ ~(flush.attempt > Attempts)
             /\ flush' = [flush EXCEPT !.pc = "snapshot", !.seen = version]
             /\ UNCHANGED <<ops, overtaken, page>>
    <3>1. flush' \in Flushes /\ flush'.pc = "snapshot" /\ flush'.seen = version
          /\ flush'.attempt = flush.attempt /\ flush.attempt <= Attempts
      <4>1. flush \in Flushes /\ version \in 0..MaxVersion
        BY DEF TypeOK
      <4>2. flush' = [pc |-> "snapshot", attempt |-> flush.attempt, seen |-> version]
        BY <2>3, <4>1 DEF Flushes
      <4>3. flush.attempt \in 0..(Attempts + 1) /\ ~(flush.attempt > Attempts)
        BY <2>3, <4>1 DEF Flushes
      <4> QED BY <4>1, <4>2, <4>3 DEF Flushes
    <3>2. UNCHANGED <<ops, overtaken, page>>
      BY <2>3
    <3> QED BY <2>1, <3>1, <3>2 DEF TypeOK, FlushAtWork, FlushOwnsOne, TrackerOnce, WriteStands,
            FlushStands
  <2>4. CASE /\ ~(flush.attempt > Attempts) /\ ~Modified
             /\ FlushOp(ops, "discard") /\ Awaits("discarding")
    <3>1. PICK o : NewOp(o, "flush", "discard") /\ ops' = ops \cup {o}
      BY <2>4, StartedOps DEF FlushOp
    <3>2. flush' \in Flushes /\ flush'.pc = "discarding" /\ flush'.attempt = flush.attempt
          /\ flush'.seen = flush.seen /\ flush.attempt <= Attempts
      BY <2>4 DEF Awaits, TypeOK, Flushes
    <3>3. overtaken' \in BOOLEAN /\ UNCHANGED page
      BY <2>4, Zenon DEF FlushOp, Awaits
    <3>4. TypeOK'
      <4>1. \A q \in ops : ~Alike(q, o) /\ ~Alike(o, q)
        BY <2>1, <3>1 DEF NewOp, Alike
      <4> QED BY <2>1, <3>1, <3>2, <3>3, <4>1 DEF TypeOK, NewOp
    <3>5. FlushAtWork' /\ FlushOwnsOne'
      BY <2>1, <3>1, <3>2, <3>3 DEF FlushAtWork, FlushOwnsOne, NewOp
    <3>6. TrackerOnce'
      BY <2>1, <3>1 DEF TypeOK, TrackerOnce, NewOp
    <3> QED BY <2>1, <3>2, <3>3, <3>4, <3>5, <3>6 DEF WriteStands, FlushStands
  <2> QED BY <1>6, <2>2, <2>3, <2>4 DEF Try
<1>7. CASE SnapshotReturns
  <2>1. /\ page = "open" /\ flush.pc = "snapshot"
        /\ UNCHANGED <<version, saved, timer, disk, flushed>>
        /\ \A q \in ops : q.who = "tracker"
    BY <1>7 DEF SnapshotReturns, TypeOK
  <2>2. CASE UnchangedSince /\ FlushOp(ops, "write") /\ Awaits("writing")
    <3>1. PICK o : NewOp(o, "flush", "write") /\ ops' = ops \cup {o}
      BY <2>2, StartedOps DEF FlushOp
    <3>2. flush' \in Flushes /\ flush'.pc = "writing" /\ flush'.attempt = flush.attempt
          /\ flush'.seen = flush.seen
      BY <2>2 DEF Awaits, TypeOK, Flushes
    <3>3. /\ overtaken' \in BOOLEAN /\ UNCHANGED page
          /\ ~overtaken' => ops = {}
      <4>1. overtaken' = (ops # {})
        BY <2>2 DEF FlushOp
      <4>2. UNCHANGED page
        BY <2>2 DEF Awaits
      <4> QED BY <4>1, <4>2
    <3>4. TypeOK'
      <4>1. \A q \in ops : ~Alike(q, o) /\ ~Alike(o, q)
        BY <2>1, <3>1 DEF NewOp, Alike
      <4> QED BY <2>1, <3>1, <3>2, <3>3, <4>1 DEF TypeOK, NewOp
    <3>5. FlushAtWork' /\ FlushOwnsOne'
      BY <2>1, <2>2, <3>1, <3>2, <3>3 DEF FlushAtWork, FlushOwnsOne, NewOp, UnchangedSince
    <3>6. TrackerOnce'
      BY <2>1, <3>1 DEF TypeOK, TrackerOnce, NewOp
    <3>7. WriteStands' /\ FlushStands'
      BY <2>1, <3>1, <3>3 DEF WriteStands, FlushStands, Harmless, NewOp
    <3> QED BY <3>4, <3>5, <3>6, <3>7
  <2>3. CASE Retries /\ UNCHANGED <<ops, overtaken>>
    <3>1. flush' \in Flushes /\ flush'.pc = "trying" /\ flush'.attempt = flush.attempt + 1
          /\ flush'.seen = flush.seen
      <4>1. flush \in Flushes /\ flush.attempt \in 1..Attempts
        BY <2>1 DEF TypeOK, Flushes, FlushAtWork
      <4>2. flush' = [pc |-> "trying", attempt |-> flush.attempt + 1, seen |-> flush.seen]
        BY <2>3, <4>1 DEF Retries, Flushes
      <4>3. flush.seen \in 0..MaxVersion /\ flush.attempt + 1 \in 0..(Attempts + 1)
        BY <4>1 DEF Flushes
      <4> QED BY <4>2, <4>3 DEF Flushes
    <3>2. UNCHANGED <<ops, overtaken, page>>
      BY <2>3 DEF Retries
    <3> QED BY <2>1, <3>1, <3>2 DEF TypeOK, Flushes, FlushAtWork, FlushOwnsOne, TrackerOnce,
            WriteStands, FlushStands
  <2> QED BY <1>7, <2>2, <2>3 DEF SnapshotReturns
<1>8. ASSUME NEW o \in ops, BytesRead(o) \/ TrackerReturns(o) \/ Lost(o) PROVE IInv'
  <2>1. UNCHANGED <<version, saved, timer, disk, flush, page, flushed, overtaken>>
    BY <1>8 DEF BytesRead, TrackerReturns, Lost
  <2>2. CASE ops' \subseteq ops
    BY <2>1, <2>2 DEF TypeOK, FlushAtWork, FlushOwnsOne, TrackerOnce, WriteStands, FlushStands,
       Harmless
  <2>3. CASE o.stage = "bytes" /\ ops' = Moves(o, "sent")
    <3>1. PICK q : /\ q \in Ops /\ Alike(q, o) /\ q.stage = "sent"
                   /\ ops' = (ops \ {o}) \cup {q}
      BY <2>3, MovedOp DEF Moves, Ends, TypeOK
    <3>2. TypeOK'
      BY <2>1, <3>1 DEF TypeOK, Alike
    <3>3. FlushAtWork' /\ FlushOwnsOne' /\ TrackerOnce'
      BY <2>1, <3>1 DEF FlushAtWork, FlushOwnsOne, TrackerOnce, Alike
    <3>4. WriteStands' /\ FlushStands'
      BY <2>1, <2>3, <3>1 DEF WriteStands, FlushStands, Harmless, Alike
    <3> QED BY <3>2, <3>3, <3>4
  <2> QED BY <1>8, <2>2, <2>3 DEF BytesRead, TrackerReturns, Lost, Ends
<1>9. ASSUME NEW o \in ops, NEW ok \in BOOLEAN, Native(o, ok) PROVE IInv'
  <2>1. /\ UNCHANGED <<version, saved, timer, flush, page, flushed, overtaken>>
        /\ o.stage = "sent"
        /\ \/ disk' = disk
           \/ disk' = 0 /\ o.kind = "discard"
           \/ disk' = o.content /\ o.kind = "write"
    <3>1. o \in Ops
      BY DEF TypeOK
    <3>2. o.kind \in {"write", "discard"}
      BY <3>1 DEF Ops
    <3> QED BY <1>9, <3>2 DEF Native
  <2>2. PICK q : /\ q \in Ops /\ Alike(q, o) /\ q.stage \in {"done", "failed"}
                 /\ ops' = (ops \ {o}) \cup {q}
                 /\ q.stage = "done" => disk' = IF o.kind = "write" THEN o.content ELSE 0
    <3>1. CASE ok
      BY <1>9, <3>1, MovedOp DEF Native, Moves, Ends, TypeOK
    <3>2. CASE ~ok
      BY <1>9, <3>2, MovedOp DEF Native, Moves, Ends, TypeOK
    <3> QED BY <3>1, <3>2
  <2>3. TypeOK'
    BY <2>1, <2>2 DEF TypeOK, Alike, Ops
  <2>4. FlushAtWork' /\ FlushOwnsOne' /\ TrackerOnce'
    BY <2>1, <2>2 DEF FlushAtWork, FlushOwnsOne, TrackerOnce, Alike
  <2>5. WriteStands'
    BY <2>1, <2>2 DEF WriteStands, FlushOwnsOne, Harmless, Alike
  <2>6. FlushStands'
    BY <2>1, <2>2 DEF FlushStands, Harmless, Alike
  <2> QED BY <2>3, <2>4, <2>5, <2>6
<1>10. ASSUME NEW o \in ops, FlushOpFails(o) PROVE IInv'
  <2>1. /\ o.who = "flush" /\ ops' = ops \ {o} /\ flush' = NoFlush
        /\ UNCHANGED <<version, saved, timer, disk, page, flushed, overtaken>>
    BY <1>10 DEF FlushOpFails, Returned, Ends, Fails
  <2>2. \A q \in ops' : q.who = "tracker"
    BY <2>1 DEF TypeOK, FlushOwnsOne, Ops
  <2>3. TypeOK'
    BY <2>1, <2>2 DEF TypeOK, Flushes, NoFlush
  <2> QED BY <2>1, <2>2, <2>3 DEF TypeOK, NoFlush, FlushAtWork, FlushOwnsOne, TrackerOnce,
          WriteStands, FlushStands, Harmless
<1>11. ASSUME NEW o \in ops, FlushOpDone(o) PROVE IInv'
  <2>1. /\ o.who = "flush" /\ o.stage = "done" /\ page = "open"
        /\ flushed' = IF o.kind = "write" THEN o.content ELSE 0
        /\ UNCHANGED <<version, saved, timer, disk>>
    BY <1>11 DEF FlushOpDone, Returned, TypeOK, FlushAtWork
  <2>2. \A q \in ops \ {o} : q.who = "tracker"
    BY <2>1 DEF TypeOK, FlushOwnsOne, Ops
  <2>3. flushed' \in 0..version
    BY <2>1 DEF TypeOK, TrackerOnce, Ops
  <2>4. CASE (o.kind = "discard" \/ UnchangedSince) /\ Succeeds /\ ops' = Ends(o) /\ UNCHANGED overtaken
    <3>1. ops' = ops \ {o} /\ flush' = NoFlush /\ page' = "agreed" /\ UNCHANGED overtaken
      BY <2>4 DEF Succeeds, Ends
    <3>2. TypeOK'
      BY <2>1, <2>2, <2>3, <3>1 DEF TypeOK, Flushes, NoFlush
    <3>3. FlushAtWork' /\ FlushOwnsOne' /\ TrackerOnce' /\ WriteStands'
      BY <2>1, <2>2, <3>1 DEF TypeOK, NoFlush, FlushAtWork, FlushOwnsOne, TrackerOnce, WriteStands
    <3>4. FlushStands'
      <4>1. CASE o.kind = "discard"
        BY <2>1, <3>1, <4>1 DEF TypeOK, FlushStands
      <4>2. CASE o.kind = "write" /\ UnchangedSince
        <5>1. flush.pc = "writing" /\ Modified /\ flush.seen = version
          BY <2>1, <4>2 DEF FlushOwnsOne, UnchangedSince
        <5>2. ~overtaken => disk = version /\ \A q \in ops : Harmless(q)
          BY <2>1, <5>1 DEF WriteStands
        <5> QED BY <2>1, <3>1, <5>2 DEF FlushStands, Harmless
      <4> QED BY <2>4, <4>1, <4>2 DEF TypeOK, Ops
    <3> QED BY <3>2, <3>3, <3>4
  <2>5. CASE o.kind # "discard" /\ Retries /\ ops' = Ends(o) /\ UNCHANGED overtaken
    <3>1. flush' \in Flushes /\ flush'.pc = "trying" /\ flush'.attempt = flush.attempt + 1
          /\ flush'.seen = flush.seen /\ flush'.attempt >= 1
      <4>1. flush \in Flushes /\ flush.attempt \in 1..Attempts
        BY <2>1 DEF TypeOK, Flushes, FlushAtWork, FlushOwnsOne
      <4>2. flush' = [pc |-> "trying", attempt |-> flush.attempt + 1, seen |-> flush.seen]
        BY <2>5, <4>1 DEF Retries, Flushes
      <4>3. flush.seen \in 0..MaxVersion /\ flush.attempt + 1 \in 1..(Attempts + 1)
        BY <4>1 DEF Flushes
      <4> QED BY <4>2, <4>3 DEF Flushes
    <3>2. ops' = ops \ {o} /\ UNCHANGED <<overtaken, page>>
      BY <2>5 DEF Retries, Ends
    <3>3. TypeOK'
      BY <2>1, <2>2, <2>3, <3>1, <3>2 DEF TypeOK
    <3> QED BY <2>1, <2>2, <3>1, <3>2, <3>3 DEF FlushAtWork, FlushOwnsOne, TrackerOnce,
            WriteStands, FlushStands
  <2>6. CASE o.kind # "discard" /\ ~Modified /\ FlushOp(Ends(o), "discard") /\ Awaits("discarding")
    <3>1. PICK q : NewOp(q, "flush", "discard") /\ ops' = (ops \ {o}) \cup {q}
      BY <2>6, StartedOps DEF FlushOp, Ends
    <3>2. flush' \in Flushes /\ flush'.pc = "discarding" /\ flush'.attempt = flush.attempt
          /\ flush'.seen = flush.seen
      BY <2>6 DEF Awaits, TypeOK, Flushes
    <3>3. flush.pc = "writing" /\ overtaken' \in BOOLEAN /\ UNCHANGED page
      BY <2>1, <2>6, Zenon DEF FlushOp, Awaits, FlushOwnsOne
    <3>4. TypeOK'
      <4>1. \A p \in ops \ {o} : ~Alike(q, p) /\ ~Alike(p, q)
        BY <2>2, <3>1 DEF NewOp, Alike
      <4> QED BY <2>1, <2>2, <2>3, <3>1, <3>2, <3>3, <4>1 DEF TypeOK, NewOp
    <3>5. FlushAtWork' /\ FlushOwnsOne'
      BY <2>1, <2>2, <3>1, <3>2, <3>3 DEF FlushAtWork, FlushOwnsOne, NewOp
    <3>6. TrackerOnce'
      BY <2>1, <3>1 DEF TypeOK, TrackerOnce, NewOp
    <3> QED BY <2>1, <3>2, <3>3, <3>4, <3>5, <3>6 DEF WriteStands, FlushStands
  <2> QED BY <1>11, <2>4, <2>5, <2>6 DEF FlushOpDone
<1>12. CASE Stay \/ Destroyed
  <2>1. /\ flush.pc = "idle" /\ page = "agreed" /\ page' \in {"open", "gone"} /\ ops' \subseteq ops
        /\ timer' = timer \/ timer' = FALSE
        /\ UNCHANGED <<version, saved, disk, flush, flushed, overtaken>>
    BY <1>12 DEF Stay, Destroyed, FlushAtWork
  <2>2. timer' \in BOOLEAN /\ (timer' => timer)
    <3>1. timer \in BOOLEAN
      BY DEF TypeOK
    <3>2. CASE timer' = timer
      BY <3>1, <3>2, Zenon
    <3>3. CASE timer' = FALSE
      BY <3>3, Zenon
    <3> QED BY <2>1, <3>2, <3>3
  <2> QED BY <2>1, <2>2 DEF TypeOK, FlushAtWork, FlushOwnsOne, TrackerOnce, WriteStands, FlushStands,
          Harmless
<1> QED
  BY <1>1, <1>2, <1>3, <1>4, <1>5, <1>6, <1>7, <1>8, <1>9, <1>10, <1>11, <1>12 DEF Next, OpStep

-----------------------------------------------------------------------------
(* What the theorems below rest on.                                         *)
LEMMA Inductive == Spec => []IInv
BY InitHolds, StepHolds, PTL DEF Spec

(* Every variable keeps its type, and no two operations under way are alike:  *)
(* a flush waits for its own operation and no other.                          *)
THEOREM TypeCorrect == Spec => []TypeOK
<1>1. IInv => TypeOK
  BY DEF IInv
<1> QED BY <1>1, Inductive, PTL

(* When everything has ended after a flush that nothing was under way before, *)
(* the store holds what was on screen, whatever the tracker did meanwhile.    *)
THEOREM Durable == Spec => []DurableUnlessOvertaken
<1>1. IInv => DurableUnlessOvertaken
  BY DEF IInv, FlushStands, DurableUnlessOvertaken, Settled
<1> QED BY <1>1, Inductive, PTL

(* A flush that ends on a write has written the version on screen.            *)
THEOREM CoversScreen == Spec => FlushCoversScreen
<1>1. ASSUME IInv, [Next]_vars, flush.pc = "writing", page' = "agreed"
      PROVE  Modified' /\ flushed' = version'
  <2>1. page = "open"
    BY <1>1 DEF IInv, FlushAtWork
  <2>2. PICK o \in ops : FlushOpDone(o)
    BY <1>1, <2>1 DEF vars, Next, OpStep, Edit, Save, ScheduledBackup, BeginFlush, Try, SnapshotReturns,
       Stay, Destroyed, Lost, BytesRead, TrackerReturns, FlushOpFails, Fails, Native
  <2>3. o.kind = "write" /\ o.content = flush.seen
    BY <1>1, <2>2 DEF IInv, FlushOwnsOne, FlushOpDone, Returned
  <2>4. UnchangedSince
    BY <1>1, <2>1, <2>2, <2>3 DEF FlushOpDone, Retries, Awaits
  <2> QED BY <2>2, <2>3, <2>4 DEF FlushOpDone, UnchangedSince, Modified
<1>2. IInv /\ [Next]_vars => [flush.pc = "writing" /\ page' = "agreed"
                                => Modified' /\ flushed' = version']_vars
  BY <1>1
<1> QED BY <1>2, Inductive, PTL DEF Spec, FlushCoversScreen
=============================================================================
