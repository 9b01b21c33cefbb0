----------------------------- MODULE WireAudio ------------------------------
(***************************************************************************)
(* The audio a gateway session accepts: the timeline checks of             *)
(* process_input and the _Reblocker (gateway_server.py), and the receipt   *)
(* times kept for deadlines (ingress_timing.py).  Time is counted in       *)
(* samples.  A sample stands for itself: the buffer holds the capture      *)
(* times of its samples, so what a block is labelled with can be compared  *)
(* with what it holds.                                                     *)
(***************************************************************************)
EXTENDS Integers, Sequences, SequencesExt, FiniteSetsExt

CONSTANTS
  Block,        \* samples of a VAD block (512)
  MaxReceipts,  \* max_ingress_frames
  MaxTime,      \* bound: capture time
  MaxFrames     \* bound: frames of a session

VARIABLES
  wlast,      \* last_wire: end of the last frame, or -1
  wgap,       \* explicit_gap_pending
  wbarrier,   \* pending_gap_start, or -1
  wbuf,       \* _Reblocker: [start, samples]
  wblocks,    \* blocks fed to the pipeline, and the gaps it was told of
  wreceipts,  \* IngressTimeline._frames
  wbreak,     \* IngressTimeline._gap_pending
  wframes,    \* every frame accepted, in order
  wdead       \* the session was refused
wireVars == <<wlast, wgap, wbarrier, wbuf, wblocks, wreceipts, wbreak, wframes, wdead>>

NoBuffer == [start |-> -1, samples |-> <<>>]
Samples(start, len) == [i \in 1..len |-> start + i - 1]

WireInit ==
  /\ wlast = -1 /\ wgap = FALSE /\ wbarrier = -1 /\ wbuf = NoBuffer /\ wblocks = <<>>
  /\ wreceipts = <<>> /\ wbreak = FALSE /\ wframes = <<>> /\ wdead = FALSE

-----------------------------------------------------------------------------
\* _Reblocker._take, push and flush: blocks are labelled from the start of
\* the buffer.
TakeBlock(buf, size) == [start |-> buf.start, samples |-> SubSeq(buf.samples, 1, size)]
Rest(buf, size) ==
  [start |-> buf.start + size, samples |-> SubSeq(buf.samples, size + 1, Len(buf.samples))]
PushFrame(buf, start, len) ==
  [start |-> IF buf.samples = <<>> THEN start ELSE buf.start,
   samples |-> buf.samples \o Samples(start, len)]
HoldsBlock(buf) == Len(buf.samples) >= Block
FlushNothing(buf) == <<>>
FlushBlocks(buf) == IF buf.samples = <<>> THEN <<>> ELSE <<TakeBlock(buf, Len(buf.samples))>>

\* gap(): feed what is buffered, tell the pipeline, start a fresh buffer.
GapBlocks(buf) == FlushBlocks(buf) \o <<NoBuffer>>

-----------------------------------------------------------------------------
Continuity(start, jump) ==
  IF wreceipts = <<>> THEN 0
  ELSE Last(wreceipts).run + (IF wbreak \/ jump \/ start # Last(wreceipts).end THEN 1 ELSE 0)
Observe(start, len, jump) ==
  LET kept == IF Len(wreceipts) = MaxReceipts THEN Tail(wreceipts) ELSE wreceipts
  IN Append(kept, [start |-> start, end |-> start + len, at |-> Len(wframes) + 1,
                   run |-> Continuity(start, jump)])

\* anchor: the receipt of the frame that holds the end of a clause, if the
\* whole clause lies in one retained continuous interval; -1 if not.
Anchor(a, b) ==
  LET ends == {i \in DOMAIN wreceipts : wreceipts[i].start < b /\ b <= wreceipts[i].end}
      i == Max(ends)
      run == {j \in 1..i : \A k \in j..i : wreceipts[k].run = wreceipts[i].run}
  IN IF ends = {} THEN -1
     ELSE IF \E j \in run : wreceipts[j].start <= a THEN wreceipts[i].at ELSE -1

-----------------------------------------------------------------------------
\* An AudioGap message; next = -1 when the client does not know.
WireGap(next) ==
  /\ ~wdead
  /\ IF next # -1 /\ (next < wlast \/ next < wbarrier)
     THEN wdead' = TRUE /\ UNCHANGED <<wgap, wbarrier, wbuf, wblocks, wbreak>>
     ELSE /\ wblocks' = wblocks \o GapBlocks(wbuf)
          /\ wbuf' = NoBuffer
          /\ wbreak' = TRUE
          /\ wgap' = TRUE
          /\ wbarrier' = next
          /\ UNCHANGED wdead
  /\ UNCHANGED <<wlast, wreceipts, wframes>>

Discontinuous(start, jump) == wlast # -1 /\ ~wgap /\ (jump \/ start # wlast)
WireFrame(start, len, jump) ==
  /\ ~wdead
  /\ IF start < wbarrier \/ start < wlast
     THEN /\ wdead' = TRUE
          /\ UNCHANGED <<wlast, wgap, wbarrier, wbuf, wblocks, wreceipts, wbreak, wframes>>
     ELSE \E broken \in {Discontinuous(start, jump)} :
          \E buf \in {PushFrame(IF broken THEN NoBuffer ELSE wbuf, start, len)} :
            /\ wblocks' = wblocks \o (IF broken THEN GapBlocks(wbuf) ELSE <<>>)
                                  \o (IF HoldsBlock(buf) THEN <<TakeBlock(buf, Block)>> ELSE <<>>)
            /\ wbuf' = IF HoldsBlock(buf) THEN Rest(buf, Block) ELSE buf
            /\ wreceipts' = Observe(start, len, jump \/ broken)
            /\ wbreak' = FALSE
            /\ wframes' = Append(wframes, [start |-> start, end |-> start + len,
                                           new |-> jump \/ wbreak \/ broken])
            /\ wlast' = start + len
            /\ wgap' = FALSE /\ wbarrier' = -1
            /\ UNCHANGED wdead

WireNext ==
  \/ \E next \in -1..MaxTime : Len(wblocks) < MaxFrames /\ WireGap(next)
  \/ \E start \in 0..MaxTime, len \in 1..Block, jump \in BOOLEAN :
       /\ Len(wframes) < MaxFrames /\ start + len <= MaxTime
       /\ WireFrame(start, len, jump)

WireSpec == WireInit /\ [][WireNext]_wireVars

-----------------------------------------------------------------------------
\* A deadline is never anchored across a gap: an anchor is the receipt of
\* the frame that holds the clause's last sample, and the frames from the
\* clause's start to that one follow each other (IngressTimeline.anchor).
AnchorsAreHonest ==
  \A b \in 1..MaxTime : \A a \in 0..(b - 1) :
    \E at \in {Anchor(a, b)} :
      at # -1 =>
        /\ wframes[at].start < b /\ b <= wframes[at].end
        /\ \E first \in 1..at :
             /\ wframes[first].start <= a
             /\ \A i \in (first + 1)..at :
                  ~wframes[i].new /\ wframes[i].start = wframes[i - 1].end

\* Blocks tell the truth: every block holds exactly the samples its label
\* says, follows the one before it unless the pipeline was told of a gap,
\* and with what is buffered nothing accepted is missing (_Reblocker, gap);
\* and what a deadline is anchored to is as honest.
BlocksTellTheTruth ==
  /\ AnchorsAreHonest
  /\ \A i \in DOMAIN wblocks :
       wblocks[i] # NoBuffer =>
         /\ wblocks[i].samples = Samples(wblocks[i].start, Len(wblocks[i].samples))
         /\ (i > 1 /\ wblocks[i - 1] # NoBuffer) =>
              wblocks[i].start = wblocks[i - 1].start + Len(wblocks[i - 1].samples)
  /\ (UNION {ToSet(wblocks[i].samples) : i \in {j \in DOMAIN wblocks : wblocks[j] # NoBuffer}})
       \cup ToSet(wbuf.samples)
     = UNION {wframes[i].start..(wframes[i].end - 1) : i \in DOMAIN wframes}
=============================================================================
