--------------------------- MODULE CaptureTimeline ---------------------------
(***************************************************************************)
(* The client's own side of the timeline: capture.py validates the packets  *)
(* of the capture helper, dsp.py turns them into frames of a fixed size     *)
(* with timestamps counted from an anchor, a new capture epoch after every  *)
(* hole, and client_latency.py keeps the ranges of continuous audio against *)
(* which the receipt of a caption is measured.                              *)
(*                                                                          *)
(* Time and positions are counted in samples and the device runs at the     *)
(* engine's rate, so the resampler is the identity and its delay 0.         *)
(***************************************************************************)
EXTENDS Integers, Sequences, SequencesExt, FiniteSets

CONSTANTS FrameSize,   \* samples of a full frame, 512 in the code
          MaxStep,     \* max_qpc_drift_ns
          MaxPackets,  \* bound: packets of the helper
          MaxQpc,      \* bound: the device clock
          MaxRanges    \* max_timeline_ranges

(* A frame holds a whole packet of the model. *)
ASSUME CaptureAssumption == FrameSize \in Nat /\ FrameSize >= 2 /\ MaxPackets \in Nat /\ MaxQpc \in Nat

VARIABLES capLast,     \* CaptureDecoder._last_sequence
          capRun,      \* the normalizer's current run, see ClearRun
          capEpoch,    \* _gap_index: names the capture epoch
          capEnd,      \* _last_emitted_end_ns
          capClosed,
          capOut,      \* frames and gaps handed to the sender, in order
          capRanges,   \* ClientLatencyTracker._ranges
          capTail,     \* _tails of the track: index of the open range, or 0
          capInvalid,  \* the track contradicted itself, or the ranges are exhausted
          capSeen,     \* the caption's first receipt has been consumed
          capSample    \* the measured intervals

capVars == <<capLast, capRun, capEpoch, capEnd, capClosed, capOut, capRanges, capTail, capInvalid, capSeen, capSample>>

(* _clear_run: nothing of the previous run is remembered.                   *)
ClearRun == [last |-> <<>>, anchor |-> -1, pending |-> <<>>, position |-> 0, frames |-> 0]

CapInit ==
    /\ capLast = 0 /\ capRun = ClearRun /\ capEpoch = 0 /\ capEnd = 0 /\ capClosed = FALSE
    /\ capOut = <<>> /\ capRanges = <<>> /\ capTail = 0 /\ capInvalid = FALSE
    /\ capSeen = FALSE /\ capSample = {}

Packets == [sequence : 1..MaxPackets, device : 0..MaxPackets, qpc : 0..MaxQpc, frames : {1, 2},
            flag : {"none", "discontinuity", "timestamp_error"}]

(* decode: a packet never rewinds the sequence; a jump is left to the       *)
(* normalizer.                                                              *)
Decodes(p) == p.sequence > capLast

-----------------------------------------------------------------------------
EndOf(f) == f.start + Len(f.samples)

(* ClientLatencyTracker: one track, with ranges r = [epoch, start, end,     *)
(* sequence].                                                               *)

Timeline == [ranges |-> capRanges, tail |-> capTail, invalid |-> capInvalid]

RangeOf(f) == [epoch |-> f.epoch, start |-> f.start, end |-> EndOf(f), sequence |-> f.sequence]
Lengthened(r, f) == [r EXCEPT !.end = EndOf(f), !.sequence = f.sequence]

(* observe_frame *)
ObserveFrame(t, f) ==
    LET r == t.ranges[t.tail]
        same == t.tail # 0 /\ r.epoch = f.epoch
    IN  IF t.invalid THEN t
        ELSE IF same /\ (f.start < r.end \/ f.sequence <= r.sequence) THEN [t EXCEPT !.invalid = TRUE]
        ELSE IF same /\ f.start = r.end /\ f.sequence = r.sequence + 1
             THEN [t EXCEPT !.ranges = [@ EXCEPT ![t.tail] = Lengthened(r, f)]]
        ELSE IF Len(t.ranges) >= MaxRanges THEN [t EXCEPT !.invalid = TRUE]
        ELSE [t EXCEPT !.ranges = @ \o <<RangeOf(f)>>, !.tail = Len(t.ranges) + 1]

(* note_gap ends the open range; older ranges stay measurable.              *)
Register(t, item) == IF item.kind = "gap" THEN [t EXCEPT !.tail = 0] ELSE ObserveFrame(t, item)

-----------------------------------------------------------------------------
(* StreamingNormalizer.  s is what a push threads through: the run, the    *)
(* epoch, the end of the last frame, and with them the items handed on and  *)
(* the timeline they are registered in (live.send), item by item.           *)

Give(s, item) == [s EXCEPT !.out = @ \o <<item>>, !.line = Register(@, item)]

Frame(s, samples) ==
    [kind |-> "frame", epoch |-> s.epoch, sequence |-> s.run.frames,
     start |-> s.run.anchor + s.run.position, samples |-> samples]

AfterCut(run, n) ==
    [run EXCEPT !.pending = SubSeq(@, n + 1, Len(@)), !.position = @ + n, !.frames = @ + 1]

Cut(s, n) ==
    LET frame == Frame(s, SubSeq(s.run.pending, 1, n)) IN
    Give([s EXCEPT !.run = AfterCut(@, n), !.end = frame.start + n], frame)

(* _output: whole frames leave, the rest is pending; a packet holds at most *)
(* two samples, so at most one full frame is due at a time.                 *)
Output(s) == IF Len(s.run.pending) >= FrameSize THEN Cut(s, FrameSize) ELSE s

(* _finish_run: the short tail leaves as it is, unpadded.                   *)
FinishRun(s) == IF s.run.pending # <<>> THEN Cut(s, Len(s.run.pending)) ELSE s

GapItem == [kind |-> "gap"]

(* A variant of Gap: what is pending is left to the next run's first frame. *)
GapKeepingTail(s) ==
    [Give(s, GapItem) EXCEPT !.run = [ClearRun EXCEPT !.pending = s.run.pending], !.epoch = @ + 1]

(* _gap: the run ends with its tail, then the gap is announced.             *)
Gap(s) == [Give(FinishRun(s), GapItem) EXCEPT !.run = ClearRun, !.epoch = @ + 1]

(* push's four ways to see a hole between two packets of a run.             *)
Continues(q, p) ==
    /\ p.flag # "discontinuity"
    /\ p.sequence = q.sequence + 1
    /\ p.device = q.device + q.frames
    /\ LET step == (p.qpc - q.qpc) - (p.device - q.device) IN step \in -MaxStep..MaxStep

Decoded(p) == [i \in 1..p.frames |-> [packet |-> p.sequence, device |-> p.device + i - 1]]

Filled(run, p) == [run EXCEPT !.pending = @ \o Decoded(p), !.last = <<p>>]

TakeIn(s, p) == Output([s EXCEPT !.run = Filled(@, p)])

Anchored(run, qpc) == [run EXCEPT !.anchor = qpc]

Push(s, p) ==
    IF p.flag = "timestamp_error" THEN Gap(s)
    ELSE LET t == IF s.run.last # <<>> /\ ~Continues(s.run.last[1], p) THEN Gap(s) ELSE s IN
         IF t.run.anchor >= 0 THEN TakeIn(t, p)
         ELSE IF p.qpc < t.end THEN Gap(t)
         ELSE TakeIn([t EXCEPT !.run = Anchored(@, p.qpc)], p)

-----------------------------------------------------------------------------
State == [run |-> capRun, epoch |-> capEpoch, end |-> capEnd, out |-> capOut, line |-> Timeline]

Leaves(s) ==
    /\ capRun' = s.run /\ capEpoch' = s.epoch /\ capEnd' = s.end /\ capOut' = s.out
    /\ capRanges' = s.line.ranges /\ capTail' = s.line.tail /\ capInvalid' = s.line.invalid

PushPacket(p) ==
    /\ ~capClosed /\ Decodes(p)
    /\ capLast' = p.sequence
    /\ Leaves(Push(State, p))
    /\ UNCHANGED <<capClosed, capSeen, capSample>>

Flush ==
    /\ ~capClosed
    /\ capClosed' = TRUE
    /\ Leaves([FinishRun(State) EXCEPT !.run = ClearRun])
    /\ UNCHANGED <<capLast, capSeen, capSample>>

Matches(from, to) == {i \in DOMAIN capRanges : capRanges[i].start <= from /\ to <= capRanges[i].end}

Overlapping(from, to) == {i \in DOMAIN capRanges : capRanges[i].start < to /\ from < capRanges[i].end}

(* observe_caption: the first receipt of a caption's text is consumed, and  *)
(* measured if its interval lies in exactly one range and touches no other. *)
ObserveCaption(from, to) ==
    /\ ~capSeen /\ from < to
    /\ capSeen' = TRUE
    /\ capSample' = IF /\ ~capInvalid
                       /\ Cardinality(Matches(from, to)) = 1
                       /\ Overlapping(from, to) \subseteq Matches(from, to)
                    THEN {<<from, to>>} ELSE {}
    /\ UNCHANGED <<capLast, capRun, capEpoch, capEnd, capClosed, capOut, capRanges, capTail, capInvalid>>

CapNext ==
    \/ \E p \in Packets : PushPacket(p)
    \/ Flush
    \/ \E from, to \in 0..MaxQpc : ObserveCaption(from, to)

CapSpec == CapInit /\ [][CapNext]_capVars

-----------------------------------------------------------------------------
Frames == {i \in DOMAIN capOut : capOut[i].kind = "frame"}

(* Two samples that the device recorded one after the other, as far as the  *)
(* packets tell.                                                            *)
Adjacent(x, y) == y.device = x.device + 1 /\ y.packet \in {x.packet, x.packet + 1}

(* A caption is measured only against audio that is whole: its interval is  *)
(* covered by frames of one epoch, so the delay is that of the sound the    *)
(* caption is about.                                                        *)
MeasuredIsWhole ==
    \A m \in capSample : \E e \in 0..capEpoch : \A u \in m[1]..(m[2] - 1) :
        \E i \in Frames : capOut[i].epoch = e /\ capOut[i].start <= u /\ u < EndOf(capOut[i])

(* What the normalizer promises the gateway: a frame is continuous audio,   *)
(* frames of one epoch that follow each other are continuous in sequence,   *)
(* in time and in the device's samples, whatever hole separates two epochs  *)
(* is announced between them, and time never runs backwards; and captions   *)
(* are measured against whole audio only.                                   *)
EpochsAreWhole ==
    /\ MeasuredIsWhole
    /\ \A i \in Frames : \A k \in 1..(Len(capOut[i].samples) - 1) :
           Adjacent(capOut[i].samples[k], capOut[i].samples[k + 1])
    /\ \A i, j \in Frames : i < j =>
         LET f == capOut[i] g == capOut[j] IN
         /\ EndOf(f) <= g.start
         /\ j = i + 1 => /\ f.epoch = g.epoch /\ g.sequence = f.sequence + 1 /\ g.start = EndOf(f)
                         /\ Adjacent(Last(f.samples), g.samples[1])
=============================================================================
