--------------------------- MODULE LineConnector ---------------------------
(***************************************************************************)
(* LineConnector: a goroutine scans lines from a connection and sends the  *)
(* slices bufio.Scanner returns on the stream.  They are slices of the     *)
(* scanner's buffer: when the scanner has used the buffer up it moves back *)
(* to its front and reads new lines over the old ones, whoever still holds *)
(* a slice.  What process then publishes depends on the race and is here   *)
(* a torn line.                                                            *)
(*                                                                         *)
(* Lines are numbered as the device sends them and fill one cell of the    *)
(* buffer each.                                                            *)
(***************************************************************************)
EXTENDS RawSource

CONSTANTS
  MaxLines,      \* bound: lines the device sends
  LongLines,     \* those that do not fit into the largest buffer
  BufferLines    \* cells of the buffer

ASSUME LineAssumption ==
  /\ MaxLines \in Nat /\ LongLines \subseteq 1 .. MaxLines
  /\ BufferLines \in Nat \ {0, 1}

VARIABLES
  connection,   \* "none", "open", or "closed" at the other end
  arrived,      \* lines that have arrived on the connection
  read,         \* lines read into the buffer, or given up
  next,         \* cell of the next line to scan; start
  filled,       \* cells filled; end
  tail,         \* the line arriving next is what remains of a long one
  scanned,      \* history: lines scanned
  sent          \* history: what process made of them

lineVars ==
  <<connection, arrived, read, next, filled, tail, scanned, sent>>

LineInit ==
  /\ connection = "none"
  /\ arrived = 0 /\ read = 0
  /\ next = 1 /\ filled = 0
  /\ tail = FALSE
  /\ scanned = <<>> /\ sent = <<>>

(* createConnection: it is tried every five seconds until it works.  The   *)
(* connection is made once, when the connector is created.                 *)
Connect ==
  /\ connection = "none"
  /\ connection' = "open"
  /\ UNCHANGED <<sourceVars, arrived, read, next, filled, tail, scanned, sent>>

(* The device *)
Line ==
  /\ connection = "open" /\ arrived < MaxLines
  /\ arrived' = arrived + 1
  /\ UNCHANGED <<sourceVars, connection, read, next, filled, tail, scanned, sent>>

Close ==
  /\ connection = "open"
  /\ connection' = "closed"
  /\ UNCHANGED <<sourceVars, arrived, read, next, filled, tail, scanned, sent>>

(* Somebody still holds slices of these cells. *)
Torn(cells, slices) ==
  [i \in DOMAIN slices |->
     [slices[i] EXCEPT !.torn =
        IF @ = 0 /\ slices[i].cell \in cells THEN Len(scanned) ELSE @]]

Overwrite(cells) ==
  /\ stream' = [stream EXCEPT !["line"] = Torn(cells, @)]
  /\ hand' = [hand EXCEPT !["line"] = Torn(cells, @)]

Released(slices) == [i \in DOMAIN slices |-> [slices[i] EXCEPT !.cell = 0]]

(* Mutant: the last line of the buffer is left. *)
AtEnd_OneEarly == next >= filled

AtEnd == next > filled

(* scanner.Scan reads when it has no line left: behind those it has, or    *)
(* from the front when the buffer is full or more than half used.          *)
Read ==
  LET front == next > 1 /\ (filled = BufferLines \/ 2 * (next - 1) > BufferLines)
      base == IF front THEN 0 ELSE filled
  IN  /\ connection # "none" /\ AtEnd
      /\ \E n \in 1 .. BufferLines - base :
           /\ read + n <= arrived
           /\ \A i \in 1 .. n : read + i \notin LongLines \/ (i = 1 /\ tail)
           /\ read' = read + n
           /\ next' = base + 1
           /\ filled' = base + n
           /\ Overwrite(base + 1 .. base + n)
      /\ tail' = FALSE
      /\ UNCHANGED <<socket, connection, arrived, scanned, sent>>

(* scan begins again with a new scanner, which has a buffer of its own.    *)
Rescan ==
  /\ next' = 1 /\ filled' = 0
  /\ stream' = [stream EXCEPT !["line"] = Released(@)]
  /\ hand' = [hand EXCEPT !["line"] = Released(@)]
  /\ UNCHANGED <<socket, connection, arrived, read, scanned, sent>>

(* token too long: receive returns and is called again; it goes on in the  *)
(* middle of the line.                                                     *)
TooLong ==
  /\ connection # "none" /\ AtEnd
  /\ read < arrived /\ read + 1 \in LongLines /\ ~tail
  /\ tail' = TRUE
  /\ Rescan

(* At the end of the file, too, for ever and with the same connection.     *)
EndOfFile ==
  /\ connection = "closed" /\ AtEnd /\ read = arrived
  /\ Rescan
  /\ UNCHANGED tail

(* stream <- scanner.Bytes(): cell becomes 0 when the buffer is no longer  *)
(* in use, torn the number of lines scanned when the slice is overwritten. *)
Scan ==
  LET line == read - (filled - next)
  IN  /\ ~AtEnd
      /\ Put("line", [line |-> line, cell |-> next, torn |-> 0])
      /\ next' = next + 1
      /\ scanned' = Append(scanned, line)
      /\ UNCHANGED <<hand, socket, connection, arrived, read, filled, tail, sent>>

(* for range stream of process; whether the message is torn is in sent.    *)
TakeLine == Take("line") /\ UNCHANGED lineVars

PublishLine ==
  /\ LET slice == hand["line"][1]
     IN  /\ Publish("line", [connector |-> "line", line |-> slice.line])
         /\ sent' = Append(sent, [line |-> slice.line, torn |-> slice.torn])
  /\ UNCHANGED <<connection, arrived, read, next, filled, tail, scanned>>

LineNext ==
  Connect \/ Line \/ Close \/ Read \/ TooLong \/ EndOfFile \/ Scan \/ TakeLine \/ PublishLine

-----------------------------------------------------------------------------
(* Properties. *)

(* One message per line scanned, in order; and when the scanner overwrites *)
(* its buffer it can tear only the two lines scanned last: one in the      *)
(* channel and one in the hand of process.                                 *)
TornBound ==
  \A i \in DOMAIN sent :
    /\ i \in DOMAIN scanned /\ sent[i].line = scanned[i]
    /\ sent[i].torn # 0 => i \in {sent[i].torn - 1, sent[i].torn}

=============================================================================
