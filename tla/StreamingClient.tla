--------------------------- MODULE StreamingClient ---------------------------
(***************************************************************************)
(* scripts/client.py: the reference client of the streaming gateway, with  *)
(* the session (app/session/state.py) it talks to.  One task makes calls   *)
(* (send a partial, send a final and wait for its translation, reset,      *)
(* disconnect and recover), the receiver task follows the websocket and    *)
(* opens a new one when it breaks, up to Reconnects times and without      *)
(* sending anything again.  A call that fails ends the client.             *)
(*                                                                         *)
(* A final is an utterance of its own, named by its sequence number.  When *)
(* the connection drops, any part of what was under way is lost.           *)
(***************************************************************************)
EXTENDS Integers, Sequences

CONSTANTS
  Reconnects,   \* --reconnects
  MaxSequence,  \* bound: sequence numbers used
  MaxWire,      \* bound: frames, or events, under way
  MaxResets     \* bound: resets asked for

VARIABLES
  clSnap, clNext, clReady, clError, clAttempts,  \* the client's fields
  clReader,     \* the receiver: reading, retry, ended
  clCall,       \* the call in progress
  clOutcome,    \* history: the last call that returned, and how
  clResets,     \* history: resets that returned
  wsUp, wsFrames, wsEvents,                      \* the connection, both ways
  svAttached, svLast, svGen, svOpen, svDone,     \* the session
  svStale, svTranslated, svResets                \* history of the session

clientVars == <<clSnap, clNext, clReady, clError, clAttempts, clReader>>
callVars == <<clCall, clOutcome, clResets>>
wireVars == <<wsUp, wsFrames, wsEvents>>
serverVars == <<svAttached, svLast, svGen, svOpen, svDone, svStale, svTranslated, svResets>>
clVars == <<clientVars, callVars, wireVars, serverVars>>

(* "failed" is history: the receiver had failed before a recovery began. *)
NoCall == [kind |-> "none", at |-> "idle", seq |-> -1, gen |-> 0, failed |-> FALSE]
Closing == clCall.kind = "closed"

(* TranslationSession.snapshot: it is final once every utterance is translated. *)
Snapshot == [kind |-> "state", gen |-> svGen, last |-> svLast,
             final |-> svDone # {} /\ svOpen = {}, done |-> svDone]

(* __aenter__ on a session that may have been used before. *)
ClInit ==
  /\ svAttached = TRUE /\ svLast \in {-1, 0} /\ svGen = 0
  /\ svOpen = {} /\ svDone = {} /\ svStale = FALSE /\ svTranslated = {} /\ svResets = 0
  /\ wsUp = TRUE /\ wsFrames = <<>> /\ wsEvents = <<>>
  /\ clSnap = Snapshot /\ clNext = svLast + 1
  /\ clReady = TRUE /\ clError = FALSE /\ clAttempts = 0 /\ clReader = "reading"
  /\ clCall = NoCall /\ clOutcome = NoCall /\ clResets = 0

-----------------------------------------------------------------------------
(* The task that makes the calls.                                          *)
Begins(kind) ==
  /\ clCall = NoCall
  /\ kind = "reset" => clResets < MaxResets
  /\ clCall' = [NoCall EXCEPT !.kind = kind, !.at = "sending", !.gen = clSnap.gen]
  /\ UNCHANGED <<clientVars, clOutcome, clResets, wireVars, serverVars>>

Succeeds ==
  /\ clOutcome' = clCall /\ clCall' = NoCall
  /\ clResets' = clResets + (IF clCall.kind = "reset" THEN 1 ELSE 0)
  /\ UNCHANGED <<clientVars, wireVars>>

(* The connection ends; a beginning of what was under way still arrives. *)
Breaks ==
  /\ wsUp' = FALSE
  /\ \E m \in 0 .. Len(wsFrames), n \in 0 .. Len(wsEvents) :
       wsFrames' = SubSeq(wsFrames, 1, m) /\ wsEvents' = SubSeq(wsEvents, 1, n)

(* close(): the receiver is cancelled and the websocket closed. *)
Closes ==
  /\ clCall' = [NoCall EXCEPT !.kind = "closed"]
  /\ clReader' = "ended" /\ Breaks
  /\ UNCHANGED <<clSnap, clNext, clReady, clError, clAttempts, clOutcome, clResets>>

(* send(), with the sequence number of send_asr.  A partial is sent and    *)
(* forgotten; the library may not know yet that the connection is gone.    *)
Sent(frame, seq) ==
  /\ Len(wsFrames) < MaxWire
  /\ wsFrames' = IF wsUp THEN Append(wsFrames, frame) ELSE wsFrames
  /\ IF clCall.kind = "partial"
     THEN clOutcome' = clCall /\ clCall' = NoCall
     ELSE clCall' = [clCall EXCEPT !.at = "waiting", !.seq = seq] /\ UNCHANGED clOutcome
  /\ UNCHANGED <<clResets, wsUp, wsEvents>>
Sends ==
  /\ clCall.at = "sending" /\ clCall.kind \in {"partial", "final", "reset"}
  /\ clReady /\ ~clError
  /\ IF clCall.kind = "reset"
     THEN Sent([kind |-> "reset"], -1) /\ UNCHANGED clNext
     ELSE /\ clNext <= MaxSequence /\ clNext' = clNext + 1
          /\ Sent([kind |-> clCall.kind, seq |-> clNext], clNext)
  /\ UNCHANGED <<clSnap, clReady, clError, clAttempts, clReader, serverVars>>
(* The connection is known to be closed, or an error was recorded. *)
SendRaises ==
  /\ clCall.at = "sending" /\ clReady /\ (clError \/ ~wsUp)
  /\ Closes /\ UNCHANGED serverVars

(* disconnect_and_recover(): whatever the receiver does, or did, it clears *)
(* ready, closes the websocket and waits.                                   *)
Disconnects ==
  /\ clCall = NoCall
  /\ clReady' = FALSE /\ Breaks
  /\ clCall' = [NoCall EXCEPT !.kind = "recover", !.at = "waiting", !.failed = clError]
  /\ UNCHANGED <<clSnap, clNext, clError, clAttempts, clReader, clOutcome, clResets, serverVars>>

(* What wait_final, reset and disconnect_and_recover wait for. *)
Awaited ==
  CASE clCall.kind = "final" ->
         clSnap.final /\ clSnap.last >= clCall.seq /\ clCall.seq \in clSnap.done
    [] clCall.kind = "reset" -> clSnap.gen # clCall.gen
    [] OTHER -> clReady
Wakes ==
  /\ clCall.at = "waiting"
  /\ \/ clError /\ (clCall.kind = "recover" => clReady) /\ Closes
     \/ ~clError /\ Awaited /\ Succeeds
  /\ UNCHANGED serverVars
(* --timeout passes, or the program ends. *)
TimesOut ==
  /\ ~Closing /\ Closes
  /\ UNCHANGED serverVars

-----------------------------------------------------------------------------
(* The receiver.                                                           *)
(* Variant bug: a caller that waits for the connection is not woken. *)
ReaderFails == clError' = TRUE /\ clReader' = "ended"
ReaderEndsQuietly == ReaderFails /\ UNCHANGED clReady
(* The end of _receive with an error. *)
ReaderEnds == ReaderFails /\ clReady' = TRUE

Higher(n, last) == IF last + 1 > n THEN last + 1 ELSE n

(* _update. *)
ReaderGets ==
  /\ clReader = "reading" /\ wsEvents # <<>>
  /\ wsEvents' = Tail(wsEvents)
  /\ LET e == Head(wsEvents)
     IN /\ clNext' = Higher(clNext, e.last)
        /\ \/ e.kind = "state" /\ clSnap' = e /\ UNCHANGED <<clError, clReader, clReady>>
           \/ e.kind = "error" /\ ReaderEnds /\ UNCHANGED clSnap
  /\ UNCHANGED <<clAttempts, callVars, wsUp, wsFrames, serverVars>>

ReaderNotices ==
  /\ clReader = "reading" /\ ~wsUp /\ wsEvents = <<>>
  /\ clReader' = "retry" /\ clReady' = FALSE
  /\ UNCHANGED <<clSnap, clNext, clError, clAttempts, callVars, wireVars, serverVars>>

(* _open is refused while the session still has its old connection. *)
ReaderOpens ==
  /\ clReader = "retry" /\ clAttempts < Reconnects /\ ~svAttached
  /\ clAttempts' = clAttempts + 1
  /\ svAttached' = TRUE /\ wsUp' = TRUE
  /\ clSnap' = Snapshot /\ clNext' = Higher(clNext, svLast)
  /\ clReady' = TRUE /\ clReader' = "reading"
  /\ UNCHANGED <<clError, callVars, wsFrames, wsEvents, svLast, svGen, svOpen, svDone,
                 svStale, svTranslated, svResets>>
OpenFails ==
  /\ clReader = "retry" /\ clAttempts < Reconnects
  /\ clAttempts' = clAttempts + 1
  /\ UNCHANGED <<clSnap, clNext, clReady, clError, clReader, callVars, wireVars, serverVars>>
Exhausted ==
  /\ clReader = "retry" /\ clAttempts = Reconnects /\ ReaderEnds
  /\ UNCHANGED <<clSnap, clNext, clAttempts, callVars, wireVars, serverVars>>

-----------------------------------------------------------------------------
(* The session, and the network.                                           *)
Tell(e) ==
  /\ Len(wsEvents) < MaxWire
  /\ wsEvents' = IF wsUp THEN Append(wsEvents, e) ELSE wsEvents

(* ingest() and reset(); another rule may refuse the frame (RATE_LIMIT). *)
ServerTakes ==
  /\ svAttached /\ wsFrames # <<>> /\ wsFrames' = Tail(wsFrames)
  /\ LET f == Head(wsFrames)
     IN \/ /\ f.kind = "reset"
           /\ svGen' = svGen + 1 /\ svOpen' = {} /\ svDone' = {} /\ svResets' = svResets + 1
           /\ UNCHANGED <<svLast, svStale>> /\ Tell(Snapshot')
        \/ /\ f.kind # "reset" /\ f.seq > svLast
           /\ svLast' = f.seq
           /\ svOpen' = IF f.kind = "final" THEN svOpen \cup {f.seq} ELSE svOpen
           /\ UNCHANGED <<svGen, svDone, svStale, svResets>> /\ Tell(Snapshot')
        \/ /\ svStale' = (svStale \/ (f.kind # "reset" /\ f.seq <= svLast))
           /\ Tell([kind |-> "error", last |-> svLast])
           /\ UNCHANGED <<svLast, svGen, svOpen, svDone, svResets>>
  /\ UNCHANGED <<clientVars, callVars, wsUp, svAttached, svTranslated>>

ServerTranslates ==
  /\ svAttached
  /\ \E u \in svOpen :
       /\ svOpen' = svOpen \ {u} /\ svDone' = svDone \cup {u}
       /\ svTranslated' = svTranslated \cup {u}
  /\ UNCHANGED <<clientVars, callVars, wsUp, wsFrames, svAttached, svLast, svGen, svStale,
                 svResets>>
  /\ Tell(Snapshot')

Drop ==
  /\ wsUp /\ Breaks
  /\ UNCHANGED <<clientVars, callVars, serverVars>>

(* detach(): work in progress is given a new generation. *)
ServerDetaches ==
  /\ svAttached /\ ~wsUp
  /\ svAttached' = FALSE /\ svGen' = svGen + 1
  /\ wsFrames' = <<>>
  /\ UNCHANGED <<clientVars, callVars, wsUp, wsEvents, svLast, svOpen, svDone, svStale,
                 svTranslated, svResets>>

ClNext ==
  \/ \E kind \in {"partial", "final", "reset"} : Begins(kind)
  \/ Sends \/ SendRaises \/ Disconnects \/ Wakes \/ TimesOut
  \/ ReaderGets \/ ReaderNotices \/ ReaderOpens \/ OpenFails \/ Exhausted
  \/ ServerTakes \/ ServerTranslates \/ Drop \/ ServerDetaches

(* Both tasks run on.  Time may stand still: TimesOut is not fair. *)
ClFairness ==
  /\ WF_clVars(SendRaises) /\ WF_clVars(Wakes)
  /\ WF_clVars(ReaderGets) /\ WF_clVars(ReaderNotices) /\ WF_clVars(OpenFails \/ Exhausted)

ClSpec == ClInit /\ [][ClNext]_clVars /\ ClFairness

-----------------------------------------------------------------------------
(* The client's word can be trusted.  Through every loss and recovery it   *)
(* never sends a sequence number the session already has, and wait_final   *)
(* returns only what the session translated.  Once the receiver has failed *)
(* no caller keeps waiting: send, the waits for a snapshot and a recovery  *)
(* under way see the error before their timeout.  A recovery begun after   *)
(* the failure is excepted: nobody sets the "ready" it has cleared, and it *)
(* waits its timeout out.                                                  *)
CallsEndTruly ==
  /\ []~svStale
  /\ [](clOutcome.kind = "final" => clOutcome.seq \in svTranslated)
  /\ [](clError => <>(clCall.at = "idle" \/ clCall.failed))

(* ":reset clears context": a reset that returns was carried out.          *)
ResetClears == clResets <= svResets
=============================================================================
