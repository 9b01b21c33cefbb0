--------------------------- MODULE ProviderStream ---------------------------
(***************************************************************************)
(* myvote_engine/translation.py: how an answer of an inference server is   *)
(* read.  Lines arrive one at a time; a profile turns them into chunks of  *)
(* visible text and one completion, or fails.  Profiles: "ollama" reads a  *)
(* JSON object per line, "chat" (llama.cpp) server-sent events, "guarded"  *)
(* (LM Studio) and "gemma" (TranslateGemma, orchestrated_translation.py)   *)
(* the same with a guard that holds back what may become reasoning markup. *)
(*                                                                         *)
(* A payload is what the JSON of an event says: `text` its content, `stop` *)
(* its finish reason, `bad` the category of an error, reasoning, tool call *)
(* or malformed structure.  Text is a sequence of letters; markers are     *)
(* short stand-ins for <think>.  Byte limits are a line that is too long.  *)
(***************************************************************************)
EXTENDS Integers, Sequences, FiniteSets

CONSTANTS
  Letters,    \* the letters of texts
  Markers,    \* reasoning markup, a set of sequences of letters
  MaxText,    \* bound on the text a server sends
  MaxDelta    \* bound on the text of one payload

ASSUME StreamAssumption ==
  /\ Markers # {} /\ Markers \subseteq Seq(Letters) \ {<<>>}
  /\ MaxDelta \in Nat

VARIABLES
  profile,
  parts,      \* _sse_data: the data lines of the event so far
  guard,      \* _InlineReasoningGuard.pending
  finished,   \* a stop reason was read
  stream,     \* open, completed or failed
  visible,    \* the text yielded so far
  said,       \* history: the text the server sent in events that were read
  ended       \* history: "no", or how the server ended: "stop" then "done"

streamVars == <<profile, parts, guard, finished, stream, visible, said, ended>>

StreamInit ==
  /\ profile \in {"ollama", "chat", "guarded", "gemma"}
  /\ parts = <<>> /\ guard = <<>> /\ finished = FALSE /\ stream = "open"
  /\ visible = <<>> /\ said = <<>> /\ ended = "no"

Texts == UNION {[1 .. n -> Letters] : n \in 0 .. MaxDelta}
Payloads ==
  [text : Texts, stop : {"none", "stop", "length"}, bad : {FALSE}]
    \cup {[text |-> <<>>, stop |-> "none", bad |-> TRUE]}
Done == [text |-> <<>>, stop |-> "DONE", bad |-> FALSE]   \* data: [DONE]

Within(m, s) == \E i \in 0 .. Len(s) - Len(m) : SubSeq(s, i + 1, i + Len(m)) = m
Markup(s) == \E m \in Markers : Within(m, s)
EndsWith(s, p) == Len(p) <= Len(s) /\ SubSeq(s, Len(s) - Len(p) + 1, Len(s)) = p

(* Variant bug: only what begins with this delta is held back. *)
RetainedOfDelta(pending, content) ==
  LET held == {n \in 0 .. Len(content) :
                 \E m \in Markers : n < Len(m) /\ EndsWith(content, SubSeq(m, 1, n))}
  IN  CHOOSE n \in held : \A k \in held : k <= n

(* _InlineReasoningGuard.feed: how many letters of pending and content are *)
(* held back, the longest beginning of a marker they end with.             *)
Retained(pending, content) ==
  LET all == pending \o content
      held == {n \in 0 .. Len(all) :
                 \E m \in Markers : n < Len(m) /\ EndsWith(all, SubSeq(m, 1, n))}
  IN  CHOOSE n \in held : \A k \in held : k <= n

Guarded == profile \in {"guarded", "gemma"}
FailRead == stream' = "failed" /\ UNCHANGED <<guard, finished, visible>>

(* The text of a payload is passed on, through the guard if there is one. *)
Show(text) ==
  IF Guarded /\ text # <<>>
  THEN LET all == guard \o text
           n == Retained(guard, text)
       IN  /\ visible' = visible \o SubSeq(all, 1, Len(all) - n)
           /\ guard' = SubSeq(all, Len(all) - n + 1, Len(all))
  ELSE visible' = visible \o text /\ UNCHANGED guard

(* What the three stream() methods check before they show the text.        *)
(* OllamaProvider returns at the first terminal line.                      *)
Unusable(p) ==
  \/ p.bad
  \/ p.text # <<>> /\ finished
  \/ Guarded /\ Markup(guard \o p.text)
  \/ profile = "gemma" /\ finished /\ p.stop \in {"stop", "length"}

(* One event: the body of the loops of _OpenAIChatProvider.stream and      *)
(* TranslateGemmaProvider.stream, and of OllamaProvider.stream.            *)
ReadEvent(p) ==
  /\ said' = said \o p.text
  /\ ended' = IF p.stop = "none" THEN ended ELSE p.stop
  /\ \/ Unusable(p) /\ FailRead
     \/ /\ ~Unusable(p) /\ p.stop = "length"
        /\ Show(p.text) /\ stream' = "failed" /\ UNCHANGED finished
     \/ /\ ~Unusable(p) /\ p.stop \in {"none", "stop"}
        /\ Show(p.text)
        /\ finished' = (finished \/ p.stop = "stop")
        /\ stream' = IF profile = "ollama" /\ p.stop = "stop" THEN "completed" ELSE stream
     \/ /\ p.stop = "DONE" /\ ~finished /\ FailRead
     \/ /\ p.stop = "DONE" /\ finished
        /\ visible' = visible \o guard /\ guard' = <<>>
        /\ stream' = "completed" /\ UNCHANGED finished

Fits(p) == Len(said) + Len(p.text) <= MaxText

(* A line of JSON for Ollama. *)
JsonLine(p) ==
  /\ stream = "open" /\ profile = "ollama" /\ p # Done /\ Fits(p)
  /\ ReadEvent(p)
  /\ UNCHANGED <<profile, parts>>

(* _sse_data: a data line joins the event, a blank line ends it.  Lines    *)
(* that were joined are no JSON object and not [DONE].                     *)
DataLine(p) ==
  /\ stream = "open" /\ profile # "ollama" /\ Len(parts) < 2 /\ Fits(p)
  /\ parts' = Append(parts, p)
  /\ UNCHANGED <<profile, guard, finished, stream, visible, said, ended>>
BlankLine ==
  /\ stream = "open" /\ profile # "ollama" /\ parts # <<>>
  /\ parts' = <<>>
  /\ \/ Len(parts) = 1 /\ ReadEvent(parts[1])
     \/ Len(parts) > 1 /\ FailRead /\ UNCHANGED <<said, ended>>
  /\ UNCHANGED profile

(* _bounded_lines: too many bytes, or no UTF-8; check_status. *)
Garbage ==
  /\ stream = "open" /\ FailRead
  /\ UNCHANGED <<profile, parts, said, ended>>

(* The connection ends.  An event without its blank line is not read. *)
EndOfStream ==
  /\ stream = "open" /\ stream' = "failed"
  /\ UNCHANGED <<profile, parts, guard, finished, visible, said, ended>>

StreamNext ==
  \/ \E p \in Payloads : JsonLine(p)
  \/ \E p \in Payloads \cup {Done} : DataLine(p)
  \/ BlankLine \/ Garbage \/ EndOfStream

StreamSpec == StreamInit /\ [][StreamNext]_streamVars

-----------------------------------------------------------------------------
(* What reaches a subtitle is sound.  However the deltas cut it, reasoning *)
(* markup is never shown, and the guard neither loses nor reorders text; a *)
(* result is complete only if the server said that it stopped by itself    *)
(* (and, for events, that the stream is done), and then it is the whole    *)
(* text: no cut connection, length limit or late text passes as one.       *)
ShownIsSound ==
  /\ Guarded => ~Markup(visible)
  /\ stream = "open" => visible \o guard = said
  /\ stream = "completed" =>
       /\ visible = said /\ finished
       /\ profile # "ollama" => ended = "DONE"
=============================================================================
