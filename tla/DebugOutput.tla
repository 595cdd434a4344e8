---------------------------- MODULE DebugOutput ----------------------------
(***************************************************************************)
(* The output of a debuggee on its way to the Debug Console:               *)
(* src-tauri/src/debug/output_gate.rs (OutputGate), the reader thread and   *)
(* ack_output of debug/session.rs, the life of the session in               *)
(* debug/service.rs, and in the WebView plain-debug-session.ts and          *)
(* plain-debug-console-view.ts.                                            *)
(*                                                                         *)
(* The reader thread and every ack_output, each on a thread of its own,     *)
(* decide under the gate's lock and emit after releasing it.  A piece of    *)
(* output is its arrival number.  The events of a session that are not      *)
(* about output or its end are left out, and with them the limit of 256     *)
(* events held while the session starts: the gate lets fewer outputs out.   *)
(***************************************************************************)
EXTENDS Naturals, Sequences, FiniteSets, SequencesExt

CONSTANTS
    Categories,     \* OutputEvent.category, a string of the adapter's choice
    Rendered,       \* the categories the console shows (not telemetry)
    High,           \* DEBUG_OUTPUT_HIGH_WATER_EVENTS
    MergeCap,       \* DEBUG_OUTPUT_MERGE_CAP_BYTES, in pieces of output
    MaxCategories,  \* DEBUG_OUTPUT_MAX_CATEGORIES
    MaxOutputs,     \* bound: outputs of the debuggee
    ConsoleOpen     \* may the console be showing when the session starts

ASSUME RenderedAreCategories == Rendered \subseteq Categories
ASSUME LimitsArePositive ==
    High \in Nat \ {0} /\ MergeCap \in Nat \ {0} /\ MaxCategories \in Nat \ {0}
ASSUME MaxOutputsIsNat == MaxOutputs \in Nat
ASSUME OverflowIsNoCategory == "plain/outputOverflow" \notin Categories
ASSUME ConsoleOpenIsBoolean == ConsoleOpen \subseteq BOOLEAN

Overflow == "plain/outputOverflow"
Labels == Categories \cup {Overflow}

VARIABLES
    arrived,   \* history: number of outputs the reader has decoded
    transport, \* "open" or "shut": the adapter's end of it
    reader,    \* the reader thread: its pc, and the event it is about to emit
    acked,     \* gate: highest_acked
    merged,    \* gate: label -> what is merged under it
    released,  \* what each sequence number stands for: highest_emitted is its length
    flushing,  \* per ack_output under way: the outputs it has yet to emit
    table,     \* the session: "starting", "listed", "removed" (from the window's table)
    teardown,  \* "none", "removed", "shut", "joined"
    wire,      \* events emitted to the page, in order
    page,      \* DebugSessionController: phase, events held, calls it has in flight
    console,   \* the console view has been rendered
    lines      \* history: <<a, b>> when the console showed output b, and a before it or a = b

gate == <<acked, merged, released>>
session == <<transport, reader, flushing, table, teardown>>
vars == <<arrived, gate, session, wire, page, console, lines>>

Output(s) == [event |-> "output", seq |-> s]
Elided(s) == [event |-> "outputElided", seq |-> s]   \* the notice before output s
Terminated == [event |-> "terminated", seq |-> 0]
Ended == [event |-> "sessionEnded", seq |-> 0]
Events == [event : {"output", "outputElided"}, seq : 1..MaxOutputs] \cup {Terminated, Ended}

Phases == {"starting", "live", "none"}

-----------------------------------------------------------------------------
Init ==
    /\ arrived = 0 /\ transport = "open"
    /\ reader = [pc |-> "reading", next |-> Ended, terminated |-> FALSE]
    /\ acked = 0 /\ merged = <<>> /\ released = <<>>
    /\ flushing = {} /\ table = "starting" /\ teardown = "none"
    /\ wire = <<>>
    /\ page = [phase |-> "starting", held |-> <<>>, acks |-> {}, disconnect |-> FALSE]
    /\ console \in ConsoleOpen /\ lines = {}

-----------------------------------------------------------------------------
(* The gate *)

Unacked == Len(released) - acked

(* bucket_key: one bucket is kept back for the overflow.                    *)
BucketKey(c) ==
    LET room == IF Overflow \in DOMAIN merged THEN MaxCategories ELSE MaxCategories - 1
    IN IF c \in DOMAIN merged \/ Cardinality(DOMAIN merged) < room THEN c ELSE Overflow

(* mutant: what is dropped is not counted *)
PushUncounted(m, n) ==
    [m EXCEPT !.text = IF Len(@) < MergeCap THEN Append(@, n) ELSE Append(Tail(@), n)]

(* MergedCategory::push: the oldest pieces beyond the cap are counted out.  *)
Push(m, n) ==
    IF Len(m.text) < MergeCap THEN [m EXCEPT !.text = Append(@, n)]
    ELSE [text |-> Append(Tail(m.text), n), elided |-> m.elided + 1]

MayEmit == merged = <<>> /\ Unacked < High

EmitNow(c, n) ==
    /\ released' = Append(released, [label |-> c, text |-> <<n>>, elided |-> 0])
    /\ reader' = [reader EXCEPT !.pc = "emitting", !.next = Output(Len(released) + 1)]
    /\ UNCHANGED merged

Merge(c, n) ==
    LET key == BucketKey(c)
        bucket == IF key \in DOMAIN merged THEN merged[key] ELSE [text |-> <<>>, elided |-> 0]
    IN /\ merged' = [k \in DOMAIN merged \cup {key} |->
                        IF k = key THEN Push(bucket, n) ELSE merged[k]]
       /\ UNCHANGED <<released, reader>>

(* handle_output_event, up to the end of on_output.                         *)
OnOutput(c) ==
    /\ reader.pc = "reading" /\ arrived < MaxOutputs
    /\ arrived' = arrived + 1
    /\ IF MayEmit THEN EmitNow(c, arrived + 1) ELSE Merge(c, arrived + 1)
    /\ UNCHANGED <<acked, transport, flushing, table, teardown, wire, page, console, lines>>

(* mutant: credit is taken back and nothing drained *)
DrainedNever(credit) == {<<>>}

(* The buckets an ack drains, in any order of the hash map, while credit    *)
(* lasts; every one drained uses one more.                                  *)
Drained(credit) ==
    LET buckets == Cardinality(DOMAIN merged)
    IN {order \in [1..(IF credit < buckets THEN credit ELSE buckets) -> DOMAIN merged] :
            IsInjective(order)}

(* mutant: a bucket is read and not removed *)
RemainingAll(order) == merged

Remaining(order) == [k \in DOMAIN merged \ ToSet(order) |-> merged[k]]

(* debug_output_ack: nothing for a session that is no longer listed.  One   *)
(* that looked the session up before it was removed goes on.                *)
AckOutput(s) ==
    /\ s \in page.acks /\ page' = [page EXCEPT !.acks = @ \ {s}]
    /\ \/ /\ table # "listed"
          /\ UNCHANGED <<gate, flushing>>
       \/ /\ acked' = Max({acked, Min({s, Len(released)})})
          /\ LET unacked == Len(released) - acked'
             IN \E order \in Drained(IF unacked < High THEN High - unacked ELSE 0) :
                  LET flushed == [i \in DOMAIN order |->
                                     [label |-> order[i], text |-> merged[order[i]].text,
                                      elided |-> merged[order[i]].elided]]
                  IN /\ merged' = Remaining(order)
                     /\ released' = released \o flushed
                     /\ flushing' = IF order = <<>> THEN flushing
                                    ELSE flushing \cup {[next |-> Len(released) + 1,
                                                         last |-> Len(released) + Len(order),
                                                         told |-> FALSE]}
    /\ UNCHANGED <<arrived, transport, reader, table, teardown, wire, console, lines>>

(* What ack_output emits: each output, after a notice of what was dropped.  *)
Notices(f) == released[f.next].elided > 0 /\ ~f.told
Emitted(f) == IF Notices(f) THEN Elided(f.next) ELSE Output(f.next)
Further(f) == IF Notices(f) THEN [f EXCEPT !.told = TRUE]
              ELSE [f EXCEPT !.next = @ + 1, !.told = FALSE]

(* mutant: a call that has emitted everything is not over                   *)
EmitFlushedForever ==
    \E f \in flushing :
        /\ wire' = Append(wire, Emitted(f))
        /\ flushing' = (flushing \ {f}) \cup {Further(f)}
        /\ UNCHANGED <<arrived, gate, transport, reader, table, teardown, page, console, lines>>

EmitFlushed ==
    \E f \in flushing :
        /\ wire' = Append(wire, Emitted(f))
        /\ flushing' = (flushing \ {f})
                       \cup (IF Further(f).next > f.last THEN {} ELSE {Further(f)})
        /\ UNCHANGED <<arrived, gate, transport, reader, table, teardown, page, console, lines>>

-----------------------------------------------------------------------------
(* The reader thread and the session *)

ReaderEmits ==
    /\ reader.pc = "emitting"
    /\ wire' = Append(wire, reader.next)
    /\ reader' = [reader EXCEPT !.pc = "reading", !.next = Ended]
    /\ UNCHANGED <<arrived, gate, transport, flushing, table, teardown, page, console, lines>>

(* The adapter's own `terminated` event.                                    *)
ReaderTerminated ==
    /\ reader.pc = "reading" /\ ~reader.terminated
    /\ reader' = [reader EXCEPT !.terminated = TRUE]
    /\ wire' = Append(wire, Terminated)
    /\ UNCHANGED <<arrived, gate, transport, flushing, table, teardown, page, console, lines>>

AdapterExits ==
    /\ transport = "open" /\ transport' = "shut"
    /\ UNCHANGED <<arrived, gate, reader, flushing, table, teardown, wire, page, console, lines>>

(* mutant: the session ends without a word *)
ReaderEndsSilently ==
    /\ reader.pc = "reading" /\ transport = "shut"
    /\ reader' = [reader EXCEPT !.pc = "done"]
    /\ UNCHANGED <<arrived, gate, transport, flushing, table, teardown, wire, page, console,
                   lines>>

(* End of file: every pending request fails, emit_session_ended.            *)
ReaderEnds ==
    /\ reader.pc = "reading" /\ transport = "shut"
    /\ reader' = [reader EXCEPT !.pc = "done"]
    /\ wire' = Append(wire, Ended)
    /\ UNCHANGED <<arrived, gate, transport, flushing, table, teardown, page, console, lines>>

(* finish_starting_session: the session is listed once launch succeeded.    *)
HandshakeSucceeds ==
    /\ table = "starting" /\ table' = "listed"
    /\ UNCHANGED <<arrived, gate, transport, reader, flushing, teardown, wire, page, console,
                   lines>>

HandshakeFails ==
    /\ table = "starting" /\ table' = "removed" /\ teardown' = "removed"
    /\ UNCHANGED <<arrived, gate, transport, reader, flushing, wire, page, console, lines>>

(* debug_disconnect takes the session out of the table, ...                 *)
Disconnect ==
    /\ page.disconnect /\ page' = [page EXCEPT !.disconnect = FALSE]
    /\ table = "listed" /\ table' = "removed" /\ teardown' = "removed"
    /\ UNCHANGED <<arrived, gate, transport, reader, flushing, wire, console, lines>>

(* ... shuts its transport down, ...                                        *)
Shutdown ==
    /\ teardown = "removed" /\ teardown' = "shut" /\ transport' = "shut"
    /\ UNCHANGED <<arrived, gate, reader, flushing, table, wire, page, console, lines>>

(* ... and joins the reader.                                                *)
JoinReader ==
    /\ teardown = "shut" /\ reader.pc = "done" /\ teardown' = "joined"
    /\ UNCHANGED <<arrived, gate, transport, reader, flushing, table, wire, page, console, lines>>

-----------------------------------------------------------------------------
(* The page *)

Shows(e) == console /\ e.event = "output" /\ released[e.seq].label \in Rendered

(* #handleEvent of a live controller and of the console, for one event      *)
(* after the other until one ends the session.                              *)
Ends(e) == e \in {Terminated, Ended}
Reached(events) == {i \in DOMAIN events : \A j \in 1..(i - 1) : ~Ends(events[j])}
Lines(events) == {i \in Reached(events) : Shows(events[i])}

Handle(events) ==
    /\ page' = [page EXCEPT
                 !.phase = IF \E i \in DOMAIN events : Ends(events[i]) THEN "none" ELSE "live",
                 !.held = <<>>,
                 !.acks = @ \cup {events[i].seq : i \in Lines(events)},
                 !.disconnect = @ \/ \E i \in Reached(events) : events[i] = Terminated]
    /\ lines' = lines
           \cup {<<line[1], events[i].seq>> : line \in lines, i \in Lines(events)}
           \cup {<<events[k[1]].seq, events[k[2]].seq>> :
                     k \in {k \in Lines(events) \X Lines(events) : k[1] <= k[2]}}

Dispatch ==
    /\ wire # <<>> /\ wire' = Tail(wire)
    /\ \/ /\ page.phase = "starting" /\ page' = [page EXCEPT !.held = Append(@, Head(wire))]
          /\ UNCHANGED lines
       \/ page.phase = "live" /\ Handle(<<Head(wire)>>)
       \/ page.phase = "none" /\ UNCHANGED <<page, lines>>
    /\ UNCHANGED <<arrived, gate, session, console>>

(* mutant: the events held are forgotten *)
StartReturnsAnew ==
    /\ page.phase = "starting" /\ table = "listed"
    /\ page' = [page EXCEPT !.phase = "live", !.held = <<>>]
    /\ UNCHANGED <<arrived, gate, session, wire, console, lines>>

(* debug_launch resolves: the events of this session held so far are        *)
(* replayed.                                                                *)
StartReturns ==
    /\ page.phase = "starting" /\ table = "listed"
    /\ Handle(page.held)
    /\ UNCHANGED <<arrived, gate, session, wire, console>>

StartFails ==
    /\ page.phase = "starting" /\ teardown = "joined"
    /\ page' = [page EXCEPT !.phase = "none", !.held = <<>>]
    /\ UNCHANGED <<arrived, gate, session, wire, console, lines>>

UserStops ==
    /\ page.phase = "live"
    /\ page' = [page EXCEPT !.phase = "none", !.disconnect = TRUE]
    /\ UNCHANGED <<arrived, gate, session, wire, console, lines>>

OpenConsole ==
    /\ ~console /\ console' = TRUE
    /\ UNCHANGED <<arrived, gate, session, wire, page, lines>>

-----------------------------------------------------------------------------
Next ==
    \/ \E c \in Categories : OnOutput(c)
    \/ \E s \in page.acks : AckOutput(s)
    \/ EmitFlushed \/ ReaderEmits \/ ReaderTerminated \/ ReaderEnds \/ AdapterExits
    \/ HandshakeSucceeds \/ HandshakeFails \/ Disconnect \/ Shutdown \/ JoinReader
    \/ Dispatch \/ StartReturns \/ StartFails \/ UserStops \/ OpenConsole

(* Threads run, commands are handled, events dispatched, and the handshake, *)
(* every step of which has a timeout, ends.  The debuggee and the user are  *)
(* left free.                                                               *)
Fairness ==
    /\ WF_vars(EmitFlushed) /\ WF_vars(ReaderEmits) /\ WF_vars(ReaderEnds)
    /\ WF_vars(HandshakeSucceeds \/ HandshakeFails)
    /\ WF_vars(Disconnect) /\ WF_vars(Shutdown) /\ WF_vars(JoinReader)
    /\ WF_vars(Dispatch) /\ WF_vars(StartReturns) /\ WF_vars(StartFails)
    /\ \A s \in 1..MaxOutputs : WF_vars(AckOutput(s))

Spec == Init /\ [][Next]_vars
FairSpec == Spec /\ Fairness
-----------------------------------------------------------------------------
(* Properties *)

Pieces(entry) == ToSet(entry.text)
Increases(text) == \A i, j \in DOMAIN text : i < j => text[i] < text[j]
Precedes(a, b) == \A n \in Pieces(a), m \in Pieces(b) : n < m

Texts == {text \in Seq(1..MaxOutputs) : Len(text) <= MergeCap}
Batches == {f \in [next : 1..MaxOutputs, last : 1..MaxOutputs, told : BOOLEAN] :
               f.next <= f.last}

(* Every variable keeps its type, and the gate its limits: at most High     *)
(* events unacknowledged, at most MaxCategories buckets, each with at most  *)
(* MergeCap pieces.                                                         *)
TypeOK ==
    /\ arrived \in 0..MaxOutputs /\ transport \in {"open", "shut"}
    /\ reader \in [pc : {"reading", "emitting", "done"}, next : Events, terminated : BOOLEAN]
    /\ released \in Seq([label : Labels, text : Texts, elided : 0..MaxOutputs])
    /\ acked \in 0..Len(released) /\ Unacked <= High
    /\ DOMAIN merged \subseteq Labels /\ Cardinality(DOMAIN merged) <= MaxCategories
    /\ \A k \in DOMAIN merged : merged[k] \in [text : Texts, elided : 0..MaxOutputs]
    /\ flushing \subseteq Batches
    /\ table \in {"starting", "listed", "removed"}
    /\ teardown \in {"none", "removed", "shut", "joined"}
    /\ wire \in Seq(Events)
    /\ page \in [phase : Phases, held : Seq(Events), acks : SUBSET (1..MaxOutputs),
                 disconnect : BOOLEAN]
    /\ console \in BOOLEAN /\ lines \subseteq (1..MaxOutputs) \X (1..MaxOutputs)

(* Under one label the gate numbers output in the order in which it arrived, *)
(* whatever was merged and drained in between.                              *)
GateKeepsOrder ==
    /\ \A i \in DOMAIN released : Increases(released[i].text)
    /\ \A i, j \in DOMAIN released :
          i < j /\ released[i].label = released[j].label => Precedes(released[i], released[j])
    /\ \A i \in DOMAIN released : released[i].label \in DOMAIN merged =>
          Precedes(released[i], merged[released[i].label])

(* No output is lost without a count or doubled: each piece is numbered for *)
(* the page or held back, once, and all the others that arrived are counted *)
(* in an elision that goes out with its label.                              *)
Numbered == UNION {{i} \X Pieces(released[i]) : i \in DOMAIN released}
HeldBack == UNION {{k} \X Pieces(merged[k]) : k \in DOMAIN merged}
NumberedGaps == UNION {{i} \X (1..released[i].elided) : i \in DOMAIN released}
HeldGaps == UNION {{k} \X (1..merged[k].elided) : k \in DOMAIN merged}

EveryPieceAccounted ==
    /\ \A p, q \in Numbered : p[2] = q[2] => p = q
    /\ \A p, q \in HeldBack : p[2] = q[2] => p = q
    /\ \A p \in Numbered, q \in HeldBack : p[2] # q[2]
    /\ arrived = Cardinality(Numbered) + Cardinality(HeldBack)
                 + Cardinality(NumberedGaps) + Cardinality(HeldGaps)

(* The page believes in a live session only while the session is listed, no *)
(* disconnect of it is under way and, if its reader has ended, word of that *)
(* is still to come.                                                        *)
PageFollowsSession ==
    page.phase = "live" =>
        /\ table = "listed" /\ ~page.disconnect
        /\ reader.pc = "done" => Ended \in ToSet(wire)

(* With the console shown and every label rendered, the backlog is at last  *)
(* let out unless the session ends first.                                   *)
OutputIsReleased ==
    [](console /\ \A i \in DOMAIN released : released[i].label \in Rendered) =>
        (merged # <<>> ~> merged = <<>> \/ page.phase = "none")

(* A session that ended, however early, is at last forgotten by the page.   *)
PageLearnsOfTheEnd == reader.pc = "done" ~> page.phase = "none"

(* The lines of one label appear in the console in the order of their       *)
(* sequence numbers.                                                        *)
LinesInOrder ==
    \A line \in lines :
        released[line[1]].label = released[line[2]].label => line[1] <= line[2]
=============================================================================
