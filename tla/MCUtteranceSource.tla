------------------------- MODULE MCUtteranceSource -------------------------
(* Small instances of UtteranceSource: the empty text and every text that  *)
(* begins with a letter and has no two blanks in a row, up to MaxLen       *)
(* characters over one letter and up to MaxMixed over all of them.         *)
EXTENDS UtteranceSource

CONSTANTS MaxLen, MaxMixed

OneLetter == {CHOOSE x \in Letters : TRUE}
Sentences(letters, longest) ==
  {t \in UNION {[1 .. n -> letters \cup {Blank}] : n \in 0 .. longest} :
     /\ t # <<>> => t[1] \in letters
     /\ \A i \in 1 .. Len(t) - 1 : ~(t[i] = Blank /\ t[i + 1] = Blank)}
AllHypotheses == Sentences(OneLetter, MaxLen) \cup Sentences(Letters, MaxMixed)
=============================================================================
