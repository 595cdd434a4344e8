-------------------------- MODULE TerminalSession --------------------------
(***************************************************************************)
(* One terminal session from the pty to the screen and back:               *)
(* src-tauri/src/terminal/service.rs (reader, vt and waiter threads, the    *)
(* commands of a session, terminate_session), terminal/flow.rs              *)
(* (FlowControl), the dirty tracking of terminal/vt.rs, and in the WebView  *)
(* app/platform/tauri/terminal-stream.ts, plain-terminal-pane.ts and        *)
(* plain-terminal-renderer.ts.                                             *)
(*                                                                         *)
(* Three native threads, the page, and the commands in flight interleave.  *)
(* What is drawn is abstracted to its version: how many chunks of output    *)
(* it shows.  A frame carries the version it was computed from (`base`)     *)
(* and the one it leads to (`upto`); one that is not full is only right on  *)
(* a screen that shows `base`.                                             *)
(*                                                                         *)
(* Assumed of the outside: Tauri registers the listener of a pane before    *)
(* the session it opens can emit (one that attaches meets a running session *)
(* and gets no such promise); a child that was sent the kill signal dies,   *)
(* and the pty reports end of file once it is dead and drained.            *)
(***************************************************************************)
EXTENDS Naturals, Sequences, FiniteSets, SequencesExt

CONSTANTS
    High, Low,     \* TERMINAL_FLOW_HIGH_WATER_MARK, TERMINAL_FLOW_LOW_WATER_MARK
    ChunkSizes,    \* sizes one read() may return
    MaxChunks,     \* bound: chunks the child writes
    PtyBuffer,     \* chunks the kernel buffers before the child blocks
    MaxLayouts,    \* bound: size changes of the pane
    MaxKeys,       \* bound: key presses
    Attachments,   \* may the page attach to a session of runInTerminal, or only open one
    ListenFirst    \* an attaching pane's event listener is in place when listen() is called

ASSUME MarksAreOrdered == High \in Nat /\ Low \in Nat /\ Low < High
ASSUME ChunksArePositive == ChunkSizes \subseteq Nat \ {0}
ASSUME BoundsAreNat ==
    MaxChunks \in Nat /\ PtyBuffer \in Nat /\ MaxLayouts \in Nat /\ MaxKeys \in Nat
ASSUME ModesAreBoolean == Attachments \subseteq BOOLEAN /\ ListenFirst \in BOOLEAN

VARIABLES
    pty,        \* sizes of the chunks written and not yet read
    child,      \* "running", "exited", "reaped" (wait() returned)
    reader,     \* the reader thread: its pc, and the bytes it has just read
    flow,       \* FlowInner
    chan,       \* the vt thread's inbound VtCommand channel
    vt,         \* the vt thread: "starting", "running", "gone"
    screen,     \* VtSession: chunks fed, version of the last snapshot, full flag, size
    gate,       \* FrameEmitGate: next_sequence and awaiting_ack
    ptySize,    \* size of the pty master
    listed,     \* the session is in TerminalState.windows
    teardown,   \* terminate_session: how far, and whether it joins
    wire,       \* frames emitted, not yet dispatched in the page
    calls,      \* the page's commands in flight, in no order
    page,       \* the pane: phase, listener, held frames, next sequence, size
    grid,       \* TerminalGridModel: version and size shown, whether it is whole
    unpainted,  \* #pendingSequence: the newest frame applied and not painted
    key,        \* a key press: "idle", "waiting" for the modes
    written,    \* history: chunks the child has written
    keys        \* history: key presses

native == <<reader, flow, vt, screen, gate>>
front == <<page, grid, unpainted>>
counts == <<written, keys>>
vars == <<pty, child, native, chan, ptySize, listed, teardown, wire, calls, front, key, counts>>

Sizes == 0..MaxLayouts
Seqs == 0..(MaxChunks + MaxLayouts + 2)
HighWater == MaxChunks + MaxLayouts + 3      \* Number.MAX_SAFE_INTEGER
None == HighWater + 1                        \* undefined

Frames == [seq : Seqs, full : BOOLEAN, base : 0..MaxChunks, upto : 0..MaxChunks, size : Sizes]

Feed(n) == [op |-> "feed", bytes |-> n]
Resize(s) == [op |-> "resize", size |-> s]
Ack(q) == [op |-> "ack", seq |-> q]
Modes == [op |-> "modes"]
Shutdown == [op |-> "shutdown"]

AckCall(q) == [op |-> "ack", seq |-> q]
ResizeCall(s) == [op |-> "resize", size |-> s, done |-> FALSE]
KillCall == [op |-> "kill"]

-----------------------------------------------------------------------------
Init ==
    /\ pty = <<>> /\ child = "running"
    /\ reader = [pc |-> "waiting", bytes |-> 0]
    /\ flow = [unacked |-> 0, paused |-> FALSE, cancelled |-> FALSE]
    /\ chan = <<>> /\ vt = "starting"
    /\ screen = [drawn |-> 0, base |-> 0, full |-> TRUE, size |-> 0]
    /\ gate = [next |-> 0, awaiting |-> FALSE]
    /\ ptySize = 0
    /\ listed = TRUE
    /\ teardown = [pc |-> "none", join |-> FALSE]
    /\ wire = <<>> /\ calls = {}
    /\ \E attach \in Attachments :
         page = [attach |-> attach, phase |-> IF attach THEN "unaware" ELSE "starting",
                 listening |-> ~attach, held |-> <<>>, expected |-> 0,
                 wanted |-> 0]
    /\ grid = [version |-> 0, size |-> None, whole |-> TRUE]
    /\ unpainted = None
    /\ key = "idle"
    /\ written = 0 /\ keys = 0

-----------------------------------------------------------------------------
(* The child and the waiter thread *)

ChildWrites(n) ==
    /\ child = "running" /\ written < MaxChunks /\ Len(pty) < PtyBuffer
    /\ pty' = Append(pty, n) /\ written' = written + 1
    /\ UNCHANGED <<child, native, chan, ptySize, listed, teardown, wire, calls, front, key, keys>>

(* By itself, or of the kill signal.                                        *)
ChildExits ==
    /\ child = "running"
    /\ child' = "exited"
    /\ UNCHANGED <<pty, native, chan, ptySize, listed, teardown, wire, calls, front, key, counts>>

(* run_waiter: wait() returns and emit_exit is called, in no order with what *)
(* the reader still drains; the pane shows a status and applies on.         *)
WaiterReports ==
    /\ child = "exited"
    /\ child' = "reaped"
    /\ UNCHANGED <<pty, native, chan, ptySize, listed, teardown, wire, calls, front, key, counts>>

-----------------------------------------------------------------------------
(* run_reader *)

(* wait_until_clear_to_read                                                 *)
ReaderClears ==
    /\ reader.pc = "waiting" /\ (flow.cancelled \/ ~flow.paused)
    /\ reader' = [reader EXCEPT !.pc = IF flow.cancelled THEN "done" ELSE "reading"]
    /\ UNCHANGED <<pty, child, flow, chan, vt, screen, gate, ptySize, listed, teardown, wire,
                   calls, front, key, counts>>

(* record_read                                                              *)
Recorded(n) ==
    LET total == flow.unacked + n
    IN [flow EXCEPT !.unacked = total, !.paused = @ \/ total >= High]

ReaderReads ==
    /\ reader.pc = "reading" /\ pty # <<>>
    /\ pty' = Tail(pty)
    /\ flow' = Recorded(Head(pty))
    /\ reader' = [pc |-> "sending", bytes |-> Head(pty)]
    /\ UNCHANGED <<child, chan, vt, screen, gate, ptySize, listed, teardown, wire, calls, front,
                   key, counts>>

ReaderSeesEof ==
    /\ reader.pc = "reading" /\ pty = <<>> /\ child # "running"
    /\ reader' = [reader EXCEPT !.pc = "done"]
    /\ UNCHANGED <<pty, child, flow, chan, vt, screen, gate, ptySize, listed, teardown, wire,
                   calls, front, key, counts>>

(* send fails once the vt thread has dropped its receiver.                  *)
ReaderSends ==
    /\ reader.pc = "sending"
    /\ IF vt = "gone"
       THEN reader' = [pc |-> "done", bytes |-> 0] /\ UNCHANGED chan
       ELSE reader' = [pc |-> "waiting", bytes |-> 0] /\ chan' = Append(chan, Feed(reader.bytes))
    /\ UNCHANGED <<pty, child, flow, vt, screen, gate, ptySize, listed, teardown, wire, calls,
                   front, key, counts>>

-----------------------------------------------------------------------------
(* run_vt *)

(* mutant: the buffer's length is acknowledged, not the bytes read          *)
AcknowledgedBuffer(n) ==
    LET bytes == Max(ChunkSizes)
        total == Max({flow.unacked, bytes}) - bytes
    IN [flow EXCEPT !.unacked = total, !.paused = @ /\ total > Low]

(* mutant: acknowledged after the feed and again after the emit, not saturating *)
AcknowledgedTwice(n) ==
    LET total == flow.unacked - (n + n)
    IN [flow EXCEPT !.unacked = total, !.paused = @ /\ total > Low]

(* FlowControl::ack                                                         *)
Acknowledged(n) ==
    LET total == Max({flow.unacked, n}) - n
    IN [flow EXCEPT !.unacked = total, !.paused = @ /\ total > Low]

(* mutant: a snapshot is taken (and drained) before the gate is asked        *)
AttemptEmitDrains(s, g) ==
    /\ screen' = [s EXCEPT !.base = s.drawn, !.full = FALSE]
    /\ IF ~g.awaiting /\ (s.full \/ s.drawn # s.base)
       THEN /\ gate' = [next |-> g.next + 1, awaiting |-> TRUE]
            /\ wire' = Append(wire, [seq |-> g.next, full |-> s.full, base |-> s.base,
                                     upto |-> s.drawn, size |-> s.size])
       ELSE gate' = g /\ UNCHANGED wire

(* attempt_emit and try_take_frame: with no frame unacknowledged and        *)
(* something dirty, one frame takes all that changed since the last.        *)
AttemptEmit(s, g) ==
    IF ~g.awaiting /\ (s.full \/ s.drawn # s.base)
    THEN /\ screen' = [s EXCEPT !.base = s.drawn, !.full = FALSE]
         /\ gate' = [next |-> g.next + 1, awaiting |-> TRUE]
         /\ wire' = Append(wire, [seq |-> g.next, full |-> s.full, base |-> s.base,
                                  upto |-> s.drawn, size |-> s.size])
    ELSE screen' = s /\ gate' = g /\ UNCHANGED wire

(* mutant: only an ack beyond the last frame frees the gate                 *)
GateAckedBeyond(q) == IF q >= gate.next THEN [gate EXCEPT !.awaiting = FALSE] ELSE gate

(* FrameEmitGate::ack                                                       *)
GateAcked(q) ==
    IF gate.next > 0 /\ q >= gate.next - 1 THEN [gate EXCEPT !.awaiting = FALSE] ELSE gate

VtStarts ==
    /\ vt = "starting"
    /\ vt' = "running"
    /\ UNCHANGED <<pty, child, reader, flow, chan, screen, gate, ptySize, listed, teardown, wire,
                   calls, front, key, counts>>

(* mutant: the receiver outlives the thread                                 *)
VtEndsHoldingReceiver == vt' = "gone" /\ UNCHANGED <<chan, key>>

(* The thread returns: its receiver and every reply sender in it go.        *)
VtEnds == vt' = "gone" /\ chan' = <<>> /\ key' = "idle"

(* VtSession::new failed                                                    *)
VtFails ==
    /\ vt = "starting" /\ VtEnds
    /\ UNCHANGED <<pty, child, reader, flow, screen, gate, ptySize, listed, teardown, wire, calls,
                   front, counts>>

Receives(op) ==
    /\ vt = "running" /\ chan # <<>> /\ Head(chan).op = op
    /\ UNCHANGED <<pty, child, reader, ptySize, listed, teardown, calls, front, counts>>

VtFeeds ==
    /\ Receives("feed") /\ chan' = Tail(chan)
    /\ flow' = Acknowledged(Head(chan).bytes)
    /\ AttemptEmit([screen EXCEPT !.drawn = @ + 1], gate)
    /\ UNCHANGED <<vt, key>>

VtResizes ==
    /\ Receives("resize") /\ chan' = Tail(chan)
    /\ AttemptEmit([screen EXCEPT !.size = Head(chan).size, !.full = TRUE], gate)
    /\ UNCHANGED <<flow, vt, key>>

(* mutant: an ack frees the gate and nothing is emitted until more output   *)
VtAcksSilently ==
    /\ Receives("ack") /\ chan' = Tail(chan)
    /\ gate' = GateAcked(Head(chan).seq)
    /\ UNCHANGED <<flow, screen, wire, vt, key>>

VtAcks ==
    /\ Receives("ack") /\ chan' = Tail(chan)
    /\ AttemptEmit(screen, GateAcked(Head(chan).seq))
    /\ UNCHANGED <<flow, vt, key>>

(* ModesRequest (ScrollbackRequest is answered the same way)                 *)
VtAnswers ==
    /\ Receives("modes") /\ chan' = Tail(chan)
    /\ key' = "idle"
    /\ UNCHANGED <<flow, vt, screen, gate, wire>>

VtShutsDown ==
    /\ Receives("shutdown") /\ VtEnds
    /\ UNCHANGED <<flow, screen, gate, wire>>

-----------------------------------------------------------------------------
(* Commands of the page *)

Send(command) == chan' = IF vt = "gone" THEN chan ELSE Append(chan, command)

(* ack; an unknown session is an error.  Attaching waits for the answer.    *)
AckArrives(c) ==
    /\ c \in calls /\ c.op = "ack"
    /\ calls' = calls \ {c}
    /\ IF listed THEN Send(Ack(c.seq)) ELSE UNCHANGED chan
    /\ page' = IF c.seq = HighWater /\ page.phase \in {"acking", "abandoned"}
               THEN IF ~listed THEN [page EXCEPT !.phase = "closed", !.listening = FALSE]
                    ELSE [page EXCEPT !.phase = IF @ = "acking" THEN "acked" ELSE "leaving"]
               ELSE page
    /\ UNCHANGED <<pty, child, native, ptySize, listed, teardown, wire, grid, unpainted, key,
                   counts>>

(* resize, on the blocking pool: the master first ...                       *)
ResizePty(c) ==
    /\ c \in calls /\ c.op = "resize" /\ ~c.done
    /\ IF listed
       THEN /\ ptySize' = c.size
            /\ calls' = (calls \ {c}) \cup {[c EXCEPT !.done = TRUE]}
       ELSE calls' = calls \ {c} /\ UNCHANGED ptySize
    /\ UNCHANGED <<pty, child, native, chan, listed, teardown, wire, front, key, counts>>

(* ... then, with no lock held, the VT mirror.                              *)
ResizeVt(c) ==
    /\ c \in calls /\ c.op = "resize" /\ c.done
    /\ calls' = calls \ {c}
    /\ Send(Resize(c.size))
    /\ UNCHANGED <<pty, child, native, ptySize, listed, teardown, wire, front, key, counts>>

(* input_key: request_modes_snapshot blocks for the reply.                  *)
KeyPressed ==
    /\ page.phase = "live" /\ listed /\ key = "idle" /\ keys < MaxKeys
    /\ keys' = keys + 1
    /\ key' = IF vt = "gone" THEN "idle" ELSE "waiting"
    /\ Send(Modes)
    /\ UNCHANGED <<pty, child, native, ptySize, listed, teardown, wire, calls, front, written>>

(* kill                                                                     *)
KillArrives ==
    /\ KillCall \in calls
    /\ calls' = calls \ {KillCall}
    /\ listed' = FALSE
    /\ teardown' = IF listed THEN [pc |-> "removed", join |-> FALSE] ELSE teardown
    /\ UNCHANGED <<pty, child, native, chan, ptySize, wire, front, key, counts>>

(* close_window of a destroyed window: its page goes with it.               *)
WindowDestroyed ==
    /\ page.phase # "gone"
    /\ listed' = FALSE
    /\ teardown' = IF listed THEN [pc |-> "removed", join |-> TRUE] ELSE teardown
    /\ page' = [page EXCEPT !.phase = "gone", !.listening = FALSE, !.held = <<>>]
    /\ wire' = <<>> /\ unpainted' = None
    /\ UNCHANGED <<pty, child, native, chan, ptySize, calls, grid, key, counts>>

-----------------------------------------------------------------------------
(* terminate_session, on a thread of its own *)

Kills ==
    /\ teardown.pc = "removed"
    /\ teardown' = [teardown EXCEPT !.pc = "killed"]
    /\ UNCHANGED <<pty, child, native, chan, ptySize, listed, wire, calls, front, key, counts>>

(* mutant: the gate is not cancelled                                        *)
CancelsNothing ==
    /\ teardown.pc = "killed"
    /\ teardown' = [teardown EXCEPT !.pc = "cancelled"]
    /\ UNCHANGED <<pty, child, native, chan, ptySize, listed, wire, calls, front, key, counts>>

(* FlowControl::cancel                                                      *)
Cancels ==
    /\ teardown.pc = "killed"
    /\ teardown' = [teardown EXCEPT !.pc = "cancelled"]
    /\ flow' = [flow EXCEPT !.cancelled = TRUE]
    /\ UNCHANGED <<pty, child, reader, chan, vt, screen, gate, ptySize, listed, wire, calls,
                   front, key, counts>>

SendsShutdown ==
    /\ teardown.pc = "cancelled"
    /\ teardown' = [teardown EXCEPT !.pc = IF teardown.join THEN "joining" ELSE "over"]
    /\ Send(Shutdown)
    /\ UNCHANGED <<pty, child, native, ptySize, listed, wire, calls, front, key, counts>>

Unwound == reader.pc = "done" /\ child = "reaped" /\ vt = "gone"

Joins ==
    /\ teardown.pc = "joining" /\ Unwound
    /\ teardown' = [teardown EXCEPT !.pc = "over"]
    /\ UNCHANGED <<pty, child, native, chan, ptySize, listed, wire, calls, front, key, counts>>

-----------------------------------------------------------------------------
(* The page *)

(* TerminalGridModel.applyFrame: a full frame, or one of another size,      *)
(* starts from a blank grid.                                                *)
Shown(g, f) ==
    [version |-> f.upto, size |-> f.size,
     whole |-> f.full \/ (g.whole /\ f.size = g.size /\ f.base = g.version)]

(* deliverData drops what is older than expected; PlainTerminalRenderer      *)
(* keeps the newest sequence for the next paint.                            *)
ShowFrames(fs, p) ==
    LET fresh == {i \in DOMAIN fs : fs[i].seq >= p.expected}
        show[i \in 0..Len(fs)] ==
            IF i = 0 THEN grid
            ELSE IF i \in fresh THEN Shown(show[i - 1], fs[i]) ELSE show[i - 1]
    IN /\ grid' = show[Len(fs)]
       /\ unpainted' = IF fresh = {} THEN unpainted ELSE fs[Max(fresh)].seq
       /\ page' = IF fresh = {} THEN p ELSE [p EXCEPT !.expected = fs[Max(fresh)].seq + 1]

(* listen() resolves.                                                       *)
Registers ==
    /\ page.phase \in {"starting", "acking", "acked", "live"} /\ ~page.listening
    /\ page' = [page EXCEPT !.listening = TRUE]
    /\ UNCHANGED <<pty, child, native, chan, ptySize, listed, teardown, wire, calls, grid,
                   unpainted, key, counts>>

(* A frame is dispatched: lost with no listener, held while the session id  *)
(* is unknown, applied otherwise.                                           *)
Dispatches ==
    /\ wire # <<>> /\ wire' = Tail(wire)
    /\ \/ /\ ~page.listening \/ page.phase \in {"abandoned", "leaving"}
          /\ UNCHANGED front
       \/ /\ page.listening /\ page.phase = "starting"
          /\ page' = [page EXCEPT !.held = Append(@, Head(wire))]
          /\ UNCHANGED <<grid, unpainted>>
       \/ /\ page.listening /\ page.phase \in {"acking", "acked", "live"}
          /\ ShowFrames(<<Head(wire)>>, page)
    /\ UNCHANGED <<pty, child, native, chan, ptySize, listed, teardown, calls, key, counts>>

(* terminalStart resolves: what was held is applied, and `#stream` is set   *)
(* before the next animation frame.                                         *)
StartReturns ==
    /\ page.phase = "starting"
    /\ ShowFrames(page.held, [page EXCEPT !.phase = "live", !.held = <<>>])
    /\ UNCHANGED <<pty, child, native, chan, ptySize, listed, teardown, wire, calls, key, counts>>

(* attachTerminalStream: listen, then ack whatever was sent before.         *)
Attaches ==
    /\ page.phase = "unaware"
    /\ page' = [page EXCEPT !.phase = "acking", !.listening = ListenFirst]
    /\ calls' = calls \cup {AckCall(HighWater)}
    /\ UNCHANGED <<pty, child, native, chan, ptySize, listed, teardown, wire, grid, unpainted,
                   key, counts>>

(* The ack has resolved: `#stream` is set, and the size that was measured   *)
(* before the attach is asked for, which forces a full redraw.              *)
Attached ==
    /\ page.phase = "acked"
    /\ page' = [page EXCEPT !.phase = "live"]
    /\ calls' = calls \cup {ResizeCall(0)}
    /\ UNCHANGED <<pty, child, native, chan, ptySize, listed, teardown, wire, grid, unpainted,
                   key, counts>>

(* layout: the new size is remembered, and asked for if there is a stream.  *)
Layouts ==
    /\ page.phase \in {"starting", "acking", "acked", "live"} /\ page.wanted < MaxLayouts
    /\ page' = [page EXCEPT !.wanted = @ + 1]
    /\ calls' = IF page.phase = "live" THEN calls \cup {ResizeCall(page.wanted + 1)} ELSE calls
    /\ UNCHANGED <<pty, child, native, chan, ptySize, listed, teardown, wire, grid, unpainted,
                   key, counts>>

(* #paint: one ack per animation frame, if there is a stream by now.        *)
Paints ==
    /\ unpainted # None /\ page.phase \in {"acking", "acked", "live"}
    /\ unpainted' = None
    /\ calls' = IF page.phase = "live" THEN calls \cup {AckCall(unpainted)} ELSE calls
    /\ UNCHANGED <<pty, child, native, chan, ptySize, listed, teardown, wire, page, grid, key,
                   counts>>

(* dispose: with no stream yet, #startSession finds its generation stale    *)
(* when the start or the attach resolves.                                   *)
Disposes ==
    /\ page.phase \in {"starting", "acking", "acked", "live"}
    /\ unpainted' = None
    /\ IF page.phase \in {"starting", "acked"}
       THEN page' = [page EXCEPT !.phase = "leaving"] /\ UNCHANGED calls
       ELSE IF page.phase = "acking"
       THEN page' = [page EXCEPT !.phase = "abandoned"] /\ UNCHANGED calls
       ELSE /\ page' = [page EXCEPT !.phase = "closed", !.listening = FALSE]
            /\ calls' = calls \cup {KillCall}
    /\ UNCHANGED <<pty, child, native, chan, ptySize, listed, teardown, wire, grid, key, counts>>

(* ... and kills the session nobody will show.                              *)
Leaves ==
    /\ page.phase = "leaving"
    /\ page' = [page EXCEPT !.phase = "closed", !.listening = FALSE, !.held = <<>>]
    /\ calls' = calls \cup {KillCall}
    /\ UNCHANGED <<pty, child, native, chan, ptySize, listed, teardown, wire, grid, unpainted,
                   key, counts>>

-----------------------------------------------------------------------------
Reader == ReaderClears \/ ReaderReads \/ ReaderSeesEof \/ ReaderSends
Vt == \/ VtStarts \/ VtFails \/ VtFeeds \/ VtResizes \/ VtAcks \/ VtAnswers \/ VtShutsDown
Commands == \/ KillArrives
            \/ \E c \in calls : AckArrives(c) \/ ResizePty(c) \/ ResizeVt(c)
Teardown == Kills \/ Cancels \/ SendsShutdown \/ Joins
User == Layouts \/ KeyPressed \/ Disposes \/ WindowDestroyed
Page == Registers \/ Dispatches \/ StartReturns \/ Attaches \/ Attached \/ Paints \/ Leaves

Next ==
    \/ \E n \in ChunkSizes : ChildWrites(n)
    \/ ChildExits \/ WaiterReports
    \/ Reader \/ Vt \/ Commands \/ Teardown \/ User \/ Page

Killed == teardown.pc \notin {"none", "removed"}

(* Threads run, commands and events are delivered, a visible page paints,   *)
(* and a child that was killed dies.  The user and the child are left free. *)
Fairness ==
    /\ WF_vars(Reader) /\ WF_vars(Vt) /\ WF_vars(Teardown)
    /\ WF_vars(KillArrives)
    /\ WF_vars(\E c \in calls : AckArrives(c))
    /\ WF_vars(\E c \in calls : ResizePty(c) \/ ResizeVt(c))
    /\ WF_vars(Registers) /\ WF_vars(Dispatches) /\ WF_vars(Paints)
    /\ WF_vars(StartReturns) /\ WF_vars(Attached) /\ WF_vars(Leaves)
    /\ WF_vars(Killed /\ ChildExits) /\ WF_vars(WaiterReports)

Spec == Init /\ [][Next]_vars
FairSpec == Spec /\ Fairness

-----------------------------------------------------------------------------
(* Properties *)

Commanded == [op : {"feed"}, bytes : ChunkSizes] \cup [op : {"resize"}, size : Sizes]
             \cup [op : {"ack"}, seq : Seqs \cup {HighWater}] \cup {Modes, Shutdown}
Called == [op : {"ack"}, seq : Seqs \cup {HighWater}]
          \cup [op : {"resize"}, size : Sizes, done : BOOLEAN] \cup {KillCall}
Phases == {"unaware", "starting", "acking", "acked", "live", "abandoned", "leaving", "closed",
           "gone"}
Showing == page.phase \in {"starting", "acking", "acked", "live"}

TypeOK ==
    /\ pty \in Seq(ChunkSizes) /\ child \in {"running", "exited", "reaped"}
    /\ reader \in [pc : {"waiting", "reading", "sending", "done"}, bytes : ChunkSizes \cup {0}]
    /\ flow \in [unacked : Nat, paused : BOOLEAN, cancelled : BOOLEAN]
    /\ chan \in Seq(Commanded) /\ vt \in {"starting", "running", "gone"}
    /\ screen \in [drawn : 0..MaxChunks, base : 0..MaxChunks, full : BOOLEAN, size : Sizes]
    /\ gate \in [next : Seqs, awaiting : BOOLEAN]
    /\ ptySize \in Sizes /\ listed \in BOOLEAN
    /\ teardown \in [pc : {"none", "removed", "killed", "cancelled", "joining", "over"},
                     join : BOOLEAN]
    /\ wire \in Seq(Frames) /\ calls \subseteq Called
    /\ page \in [attach : BOOLEAN, phase : Phases, listening : BOOLEAN, held : Seq(Frames), expected : Seqs,
                 wanted : Sizes]
    /\ grid \in [version : 0..MaxChunks, size : Sizes \cup {None}, whole : BOOLEAN]
    /\ unpainted \in Seqs \cup {None}
    /\ key \in {"idle", "waiting"}
    /\ written \in 0..MaxChunks /\ keys \in 0..MaxKeys

(* The bytes of a channel, each by its command and its place in it.         *)
Bytes(s) == UNION {{i} \X (1..s[i].bytes) : i \in {j \in DOMAIN s : s[j].op = "feed"}}

(* Bytes the reader has recorded and the vt thread has not yet fed.         *)
Queued == Cardinality(Bytes(chan)) + (IF reader.pc = "sending" THEN reader.bytes ELSE 0)

(* The byte gate counts exactly what is between the two threads, so a       *)
(* paused reader always has bytes ahead of it whose feeding will wake it:   *)
(* no wake-up is lost, no byte is acknowledged twice or never.              *)
FlowConserved ==
    vt # "gone" => flow.unacked = Queued /\ (flow.paused => flow.unacked > Low)

(* A partial frame is only ever applied to the screen it was computed from, *)
(* although output is coalesced, the size changes and frames are held.      *)
ScreenIsWhole == ~page.attach => grid.whole

(* While the gate waits for an ack, the frame or the ack is on its way:     *)
(* the screen never freezes with output left to show.                       *)
Newest == gate.next - 1
CreditOnItsWay ==
    vt = "running" /\ gate.awaiting /\ Showing =>
        \/ \E i \in DOMAIN wire : wire[i].seq = Newest
        \/ \E i \in DOMAIN page.held : page.held[i].seq = Newest
        \/ unpainted = Newest
        \/ \E c \in calls : c.op = "ack" /\ c.seq >= Newest
        \/ \E i \in DOMAIN chan : chan[i].op = "ack" /\ chan[i].seq >= Newest

(* At most one frame is emitted and not painted: a page that does not paint *)
(* is not flooded.                                                          *)
OneFrameInFlight == Len(wire) + Len(page.held) + (IF unpainted = None THEN 0 ELSE 1) <= 1

(* The one credit of the gate is out exactly once.                          *)
CreditAccounted == ~page.attach => CreditOnItsWay /\ OneFrameInFlight

(* Whatever the child wrote is shown in the end, also what it wrote just    *)
(* before it exited, unless the pane goes or there is no VT.                *)
OutputIsShown ==
    \A n \in 1..MaxChunks :
        (written >= n /\ ~page.attach) ~> (grid.version >= n \/ ~Showing \/ vt = "gone")

(* A key press that waits has its request before the vt thread: it gets the *)
(* modes, or their defaults when the thread ends, and never waits for ever. *)
KeyIsAnswered == key = "waiting" => vt # "gone" /\ \E i \in DOMAIN chan : chan[i] = Modes

(* A session that was removed unwinds: its threads end and close_window,    *)
(* which joins them, returns, wherever the reader was blocked.              *)
TeardownEnds == (teardown.pc # "none") ~> (teardown.pc = "over" /\ Unwound)

-----------------------------------------------------------------------------
(* What comments say and the code does not keep *)

(* attachTerminalStream: a frame that arrived while it awaits its ack is    *)
(* acked by the renderer, and the ack of everything before it is harmless.  *)
AttachKeepsCredit == page.attach => CreditOnItsWay

(* "keeps the VT mirror's own viewport in sync": with no resize in flight   *)
(* the pty and the VT have one size.                                        *)
SizesAgree ==
    vt = "running" /\ (\A c \in calls : c.op # "resize")
                   /\ (\A i \in DOMAIN chan : chan[i].op # "resize")
        => screen.size = ptySize
=============================================================================
