----------------------------- MODULE LiveClient ------------------------------
(***************************************************************************)
(* live.py and gateway_client.py: one live session of the client.  A        *)
(* capture helper process writes packets to a pipe; the producer reads and  *)
(* normalizes them and puts them, never waiting, into a bounded queue; one  *)
(* sender writes the queue to the RPC stream and finishes it; one receiver  *)
(* applies the server's events.  The main task waits for the three, or for  *)
(* the first failure, and then saves the captions and the summary.          *)
(*                                                                          *)
(* A packet is its sequence number and becomes one frame of that number; 0  *)
(* is a gap, Finish the FinishSession message.  Heartbeats change no state. *)
(***************************************************************************)
EXTENDS Integers, Sequences, SequencesExt, FiniteSets

CONSTANTS MaxPackets,  \* bound: packets the helper captures
          QueueFrames  \* args.queue_frames

ASSUME LiveAssumption == MaxPackets \in Nat /\ QueueFrames \in Nat

VARIABLES liveHelper,   \* the capture helper (external): phase, packets made, dropped ones
          livePipe,     \* its stdout
          liveDecoder,  \* CaptureDecoder: received packets, last sequence, terminal seen
          liveRecords,  \* _capture_records' queue of one
          liveStop,     \* the stop event: no, set, asked (request_stop sent)
          liveSource,   \* produce: open, ending, done, dead
          liveLast,     \* the normalizer's previous packet, 0 for none
          liveQueue,    \* the bounded queue of frames, gaps and the end marker
          liveWire,     \* what the sender wrote to the stream
          liveSender,   \* send: run, done, dead
          liveServer,   \* the server (external): open, completed, failed, gone
          liveReceiver, \* receive: run, done, dead
          liveTerminal, \* projection.terminal_kind
          liveFailed,   \* source_failure
          liveObserver, \* FALSE once the observer has raised
          liveMain,     \* run, saved, raised
          liveStatus    \* the saved summary's status

liveVars == <<liveHelper, livePipe, liveDecoder, liveRecords, liveStop, liveSource, liveLast, liveQueue, liveWire,
              liveSender, liveServer, liveReceiver, liveTerminal, liveFailed, liveObserver, liveMain, liveStatus>>
(* The parts of the state that move together. *)
capture == <<liveHelper, livePipe>>
reading == <<liveDecoder, liveRecords>>
sending == <<liveWire, liveSender>>
receiving == <<liveServer, liveReceiver, liveTerminal>>
ending == <<liveMain, liveStatus>>

Finish == MaxPackets + 1
End == MaxPackets + 2  \* the end marker of the queue

LiveInit ==
    /\ liveHelper = [phase |-> "run", made |-> 0, dropped |-> {}] /\ livePipe = <<>>
    /\ liveDecoder = [received |-> 0, stopped |-> FALSE] /\ liveRecords = <<>>
    /\ liveStop = "no" /\ liveSource = "open" /\ liveLast = 0 /\ liveQueue = <<>>
    /\ liveWire = <<>> /\ liveSender = "run"
    /\ liveServer = "open" /\ liveReceiver = "run" /\ liveTerminal = "none"
    /\ liveFailed = FALSE /\ liveObserver = TRUE /\ liveMain = "run" /\ liveStatus = "none"

-----------------------------------------------------------------------------
(* The helper: it records, may drop a packet, writes one terminal with its  *)
(* counts and exits; or it crashes.                                         *)

HelperRecords ==
    /\ liveHelper.phase = "run" /\ liveHelper.made < MaxPackets
    /\ LET n == liveHelper.made + 1 IN
         \/ /\ liveHelper' = [liveHelper EXCEPT !.made = n]
            /\ livePipe' = Append(livePipe, [kind |-> "packet", n |-> n])
         \/ /\ liveHelper' = [liveHelper EXCEPT !.made = n, !.dropped = @ \union {n}]
            /\ UNCHANGED livePipe
    /\ UNCHANGED <<reading, liveStop, liveSource, liveLast, liveQueue, sending, receiving, liveFailed, liveObserver, ending>>

HelperStops ==
    /\ liveHelper.phase = "run"
    /\ \/ /\ liveHelper' = [liveHelper EXCEPT !.phase = "exited"]
          /\ livePipe' = Append(livePipe, [kind |-> "stopped", n |-> liveHelper.made - Cardinality(liveHelper.dropped)])
       \/ /\ liveHelper' = [liveHelper EXCEPT !.phase = "crashed"] /\ UNCHANGED livePipe
    /\ UNCHANGED <<reading, liveStop, liveSource, liveLast, liveQueue, sending, receiving, liveFailed, liveObserver, ending>>

(* records and decode: a packet is counted, the terminal's counts must      *)
(* agree with what was received, and the end of the pipe is a success only  *)
(* after a terminal and a zero exit status.                                 *)
ReadRecord ==
    /\ liveSource = "open" /\ liveRecords = <<>> /\ liveMain = "run"
    /\ \/ /\ livePipe # <<>>
          /\ LET r == Head(livePipe) IN
             /\ liveRecords' = << IF r.kind = "packet" THEN r
                                  ELSE IF r.n = liveDecoder.received THEN r
                                  ELSE [kind |-> "error", n |-> 0] >>
             /\ liveDecoder' = IF r.kind = "packet" THEN [liveDecoder EXCEPT !.received = @ + 1]
                               ELSE [liveDecoder EXCEPT !.stopped = TRUE]
          /\ livePipe' = Tail(livePipe)
       \/ /\ livePipe = <<>> /\ liveHelper.phase # "run"
          /\ liveRecords' = << [kind |-> IF liveDecoder.stopped /\ liveHelper.phase = "exited" THEN "end" ELSE "error",
                                n |-> 0] >>
          /\ UNCHANGED <<livePipe, liveDecoder>>
    /\ UNCHANGED <<liveHelper, liveStop, liveSource, liveLast, liveQueue, sending, receiving, liveFailed, liveObserver, ending>>

-----------------------------------------------------------------------------
(* The producer *)

(* The items of a packet: the normalizer announces a jump of the sequence   *)
(* by a gap before the frame.                                               *)
Items(n) == IF liveLast # 0 /\ n # liveLast + 1 THEN <<0, n>> ELSE <<n>>

(* put_nowait, item by item: what fits is queued, the rest is QueueFull.    *)
Puts(items) ==
    LET room == QueueFrames - Len(liveQueue) IN
    [queue |-> liveQueue \o SubSeq(items, 1, IF Len(items) < room THEN Len(items) ELSE room),
     full |-> Len(items) > room]

(* A variant of SourceEnds: a failed source never marks the queue's end.    *)
SourceEndsSilently(failed) ==
    /\ liveFailed' = failed /\ liveSource' = (IF failed THEN "done" ELSE "ending") /\ UNCHANGED liveObserver

(* The source is over.  A failure is reported to the observer, which may    *)
(* raise and take the producer with it; otherwise the end marker follows.   *)
SourceEnds(failed) ==
    /\ liveFailed' = failed
    /\ \/ liveSource' = "ending" /\ UNCHANGED liveObserver
       \/ failed /\ liveObserver /\ liveSource' = "dead" /\ liveObserver' = FALSE

TakeRecord ==
    /\ liveSource = "open" /\ liveRecords # <<>> /\ liveMain = "run"
    /\ liveRecords' = <<>>
    /\ LET r == liveRecords[1] IN
       CASE r.kind = "packet" ->
              /\ liveQueue' = Puts(Items(r.n)).queue
              /\ liveLast' = r.n
              /\ IF Puts(Items(r.n)).full THEN SourceEnds(TRUE)
                 ELSE UNCHANGED <<liveSource, liveFailed, liveObserver>>
         [] r.kind = "stopped" -> UNCHANGED <<liveQueue, liveLast, liveSource, liveFailed, liveObserver>>
         [] OTHER -> SourceEnds(r.kind = "error") /\ UNCHANGED <<liveQueue, liveLast>>
    /\ UNCHANGED <<capture, liveDecoder, liveStop, sending, receiving, ending>>

UserStops ==
    /\ liveStop = "no" /\ liveMain = "run" /\ liveStop' = "set"
    /\ UNCHANGED <<capture, reading, liveSource, liveLast, liveQueue, sending, receiving, liveFailed, liveObserver, ending>>

(* _capture_records asks the helper to stop and keeps reading its tail ...  *)
AskHelper ==
    /\ liveStop = "set" /\ liveSource = "open" /\ liveMain = "run" /\ liveStop' = "asked"
    /\ UNCHANGED <<capture, reading, liveSource, liveLast, liveQueue, sending, receiving, liveFailed, liveObserver, ending>>

(* ... for five seconds at most.                                            *)
StopDeadline ==
    /\ liveStop = "asked" /\ liveSource = "open" /\ liveRecords = <<>> /\ liveMain = "run"
    /\ SourceEnds(TRUE)
    /\ UNCHANGED <<capture, reading, liveStop, liveLast, liveQueue, sending, receiving, ending>>

(* The end marker waits for room, but no longer than the drain timeout.     *)
PutEnd ==
    /\ liveSource = "ending" /\ liveMain = "run"
    /\ \/ /\ Len(liveQueue) < QueueFrames
          /\ liveQueue' = Append(liveQueue, End) /\ liveSource' = "done"
       \/ /\ Len(liveQueue) >= QueueFrames
          /\ liveSource' = "dead" /\ UNCHANGED liveQueue
    /\ UNCHANGED <<capture, reading, liveStop, liveLast, sending, receiving, liveFailed, liveObserver, ending>>

-----------------------------------------------------------------------------
(* The sender, the server and the receiver *)

Send ==
    /\ liveSender = "run" /\ liveQueue # <<>> /\ liveMain = "run"
    /\ liveQueue' = Tail(liveQueue)
    /\ \/ /\ liveServer = "open"
          /\ liveWire' = Append(liveWire, IF Head(liveQueue) = End THEN Finish ELSE Head(liveQueue))
          /\ liveSender' = IF Head(liveQueue) = End THEN "done" ELSE "run"
       \/ liveServer # "open" /\ liveSender' = "dead" /\ UNCHANGED liveWire
    /\ UNCHANGED <<capture, reading, liveStop, liveSource, liveLast, receiving, liveFailed, liveObserver, ending>>

Finished == liveWire # <<>> /\ Last(liveWire) = Finish

(* The server completes after FinishSession; it may fail, or the connection *)
(* be lost or time out, at any moment.                                      *)
ServerEnds ==
    /\ liveServer = "open"
    /\ \/ Finished /\ liveServer' = "completed"
       \/ liveServer' \in {"failed", "gone"}
    /\ UNCHANGED <<capture, reading, liveStop, liveSource, liveLast, liveQueue, sending, liveReceiver, liveTerminal,
                   liveFailed, liveObserver, ending>>

(* receive: the terminal is applied and shown to the observer; a stream     *)
(* that ends without one is a protocol error.                               *)
ReadResult ==
    /\ liveReceiver = "run" /\ liveMain = "run" /\ liveServer # "open"
    /\ liveTerminal' = IF liveServer = "gone" THEN "none" ELSE liveServer
    /\ \/ /\ liveReceiver' = IF liveServer = "completed" THEN "done" ELSE "dead"
          /\ UNCHANGED liveObserver
       \/ /\ liveServer # "gone" /\ liveObserver
          /\ liveReceiver' = "dead" /\ liveObserver' = FALSE
    /\ UNCHANGED <<capture, reading, liveStop, liveSource, liveLast, liveQueue, sending, liveServer, liveFailed, ending>>

-----------------------------------------------------------------------------
(* The main task *)

Tasks == <<liveSource, liveSender, liveReceiver>>

(* All three are done: the captions are saved.  The server's count of gaps  *)
(* is among the counts that make a session unsuccessful.                    *)
MainEnds ==
    /\ liveMain = "run" /\ \A i \in 1..3 : Tasks[i] = "done"
    /\ liveMain' = "saved"
    /\ liveStatus' = IF liveFailed \/ liveTerminal # "completed" \/ 0 \in ToSet(liveWire)
                     THEN "failed" ELSE "completed"
    /\ UNCHANGED <<capture, reading, liveStop, liveSource, liveLast, liveQueue, sending, receiving, liveFailed, liveObserver>>

(* The first failure cancels the others and is reported to the observer; if *)
(* it raises at that point run_live raises too, before it has saved.        *)
MainFails ==
    /\ liveMain = "run" /\ \E i \in 1..3 : Tasks[i] = "dead"
    /\ \/ /\ liveMain' = "saved" /\ liveStatus' = "failed" /\ UNCHANGED liveObserver
       \/ /\ liveObserver
          /\ liveMain' = "raised" /\ liveObserver' = FALSE /\ UNCHANGED liveStatus
    /\ UNCHANGED <<capture, reading, liveStop, liveSource, liveLast, liveQueue, sending, receiving, liveFailed>>

LiveNext ==
    \/ HelperRecords \/ HelperStops \/ ReadRecord
    \/ TakeRecord \/ UserStops \/ AskHelper \/ StopDeadline \/ PutEnd
    \/ Send \/ ServerEnds \/ ReadResult
    \/ MainEnds \/ MainFails

(* The event loop runs every task that can go on, timers included; a server *)
(* that was told to finish answers, or the RPC deadline ends the stream.    *)
(* Nothing is assumed of the helper.                                        *)
LiveFairness ==
    /\ WF_liveVars(ReadRecord) /\ WF_liveVars(TakeRecord) /\ WF_liveVars(AskHelper)
    /\ WF_liveVars(StopDeadline) /\ WF_liveVars(PutEnd) /\ WF_liveVars(Send)
    /\ WF_liveVars(Finished /\ ServerEnds) /\ WF_liveVars(ReadResult)
    /\ WF_liveVars(MainEnds) /\ WF_liveVars(MainFails)

LiveSpec == LiveInit /\ [][LiveNext]_liveVars /\ LiveFairness

-----------------------------------------------------------------------------
(* A session whose summary says "completed" has sent the server every       *)
(* packet the helper wrote, in order and without a hole, and finished the   *)
(* stream; what is missing before or after was dropped by the helper, whose *)
(* terminal counts said so.                                                 *)
CompletedIsHeard ==
    liveStatus = "completed" =>
        \E i \in 1..(liveHelper.made + 1), k \in 0..liveHelper.made :
            /\ liveWire = [j \in 1..(k - i + 1) |-> i + j - 1] \o <<Finish>>
            /\ (1..liveHelper.made) \ (i..k) \subseteq liveHelper.dropped

(* Once the user stops, the session ends: a silent helper, a full queue, a  *)
(* lost server or a failing observer delays run_live, and never holds it.   *)
(* And whenever it ends it tells the truth about what was heard.            *)
StopEndsTruly == []CompletedIsHeard /\ []<>(liveStop = "no" \/ liveMain # "run")

=============================================================================
