----------------------------- MODULE LWEWriter -----------------------------
(***************************************************************************)
(* LWEWriter: every raw message gets a goroutine of its own that looks up  *)
(* the multicast group of the talker, takes a line number and writes a     *)
(* datagram.                                                               *)
(***************************************************************************)
EXTENDS Naturals, Sequences, FiniteSets

CONSTANTS
  IncludeLineCount,
  LineNumbers,    \* 1000: line numbers run from 0 to LineNumbers - 1
  Talkers(_)      \* may this message have one of the talkers of the table

ASSUME LineNumberAssumption ==
  LineNumbers \in Nat \ {0} /\ IncludeLineCount \in BOOLEAN

VARIABLES
  inbox,       \* messages on their way to the writer
  multicasts,  \* messages whose goroutine runs
  lineCount,
  received,    \* history: messages received of a known talker
  numbered     \* history: the line numbers, in the order they were taken

lweVars == <<inbox, multicasts, lineCount, received, numbered>>

LWEInit ==
  /\ inbox = <<>>
  /\ multicasts = {}
  /\ lineCount = 0
  /\ received = <<>> /\ numbered = <<>>

(* WriteRaw.  Goroutines that find no sentence of a known talker return.   *)
WriteRaw ==
  /\ inbox # <<>>
  /\ inbox' = Tail(inbox)
  /\ IF Talkers(Head(inbox))
     THEN /\ received' = Append(received, Head(inbox))
          /\ multicasts' = multicasts \cup {Head(inbox)}
     ELSE UNCHANGED <<received, multicasts>>
  /\ UNCHANGED <<lineCount, numbered>>

(* DialUDP fails *)
DialFails(m) ==
  /\ multicasts' = multicasts \ {m}
  /\ UNCHANGED <<inbox, lineCount, received, numbered>>

(* Mutant: the number is reset one line late. *)
NextLineCount_Late(n) == IF n > LineNumbers THEN 0 ELSE n

(* if w.lineCount >= 1000 { w.lineCount = 0 } *)
NextLineCount(n) == IF n >= LineNumbers THEN 0 ELSE n

(* createTagBlock, which takes the line number under the mutex if one is   *)
(* configured, and conn.Write, whose error is not looked at.               *)
Multicast(m) ==
  /\ multicasts' = multicasts \ {m}
  /\ LET n == NextLineCount(lineCount)
     IN  IF IncludeLineCount
         THEN /\ numbered' = Append(numbered, n)
              /\ lineCount' = n + 1
         ELSE UNCHANGED <<lineCount, numbered>>
  /\ UNCHANGED <<inbox, received>>

LWENext ==
  \/ WriteRaw
  \/ \E m \in multicasts : DialFails(m) \/ Multicast(m)

-----------------------------------------------------------------------------
(* Properties. *)

(* Goroutines take their numbers in any order, but each takes the one      *)
(* after the last that was taken: two messages have one number only when   *)
(* a whole round of numbers was taken between them.                        *)
NumbersInTurn ==
  /\ \A i \in DOMAIN numbered : numbered[i] \in 0 .. LineNumbers - 1
  /\ \A i, j \in DOMAIN numbered :
       (numbered[i] = numbered[j]) = ((j - i) % LineNumbers = 0)

=============================================================================
