--------------------------- MODULE OutputCollector ---------------------------
(***************************************************************************)
(* What a command's output is cut down to: a head, and a ring of chunks    *)
(* for the tail (_OutputCollector of bash_executor.py).  A byte is the     *)
(* position it has in the stream, so that the stream of n bytes is 1..n.   *)
(***************************************************************************)
EXTENDS Integers, Sequences, SequencesExt

CONSTANTS
  Limits,     \* the max_output_bytes that a call may ask for; 0 is None
  MaxChunk,   \* bound: the longest chunk that a read returns
  MaxBytes    \* bound: the bytes of a stream

OutputCollectorAssumption ==
  Limits \subseteq Nat /\ MaxChunk \in Nat \ {0} /\ MaxBytes \in Nat

VARIABLES maxBytes, total, head, tail

vars == <<maxBytes, total, head, tail>>

HeadLimit == maxBytes \div 2
TailLimit == maxBytes - HeadLimit

Chunk(first, n) == [i \in 1 .. n |-> first + i - 1]
Bytes(chunks) == FlattenSeq(chunks)

\* Mutant: only whole chunks leave the ring.
TrimmedWhole(chunks) ==
  IF Len(Bytes(Tail(chunks))) >= TailLimit THEN Tail(chunks) ELSE chunks
\* Chunks, and in the end a part of one, leave the ring at its front.
Trimmed(chunks) ==
  LET overflow == Len(Bytes(chunks)) - TailLimit
      Before(k) == Len(Bytes(SubSeq(chunks, 1, k)))
      gone == CHOOSE k \in 0 .. Len(chunks) :
                /\ Before(k) <= overflow
                /\ k = Len(chunks) \/ Before(k + 1) > overflow
      rest == SubSeq(chunks, gone + 1, Len(chunks))
  IN  IF overflow <= 0 THEN chunks
      ELSE IF Before(gone) = overflow THEN rest
      ELSE <<SubSeq(rest[1], overflow - Before(gone) + 1, Len(rest[1]))>> \o Tail(rest)

Append_(n) ==
  /\ total + n <= MaxBytes
  /\ total' = total + n
  /\ LET chunk == Chunk(total + 1, n)
         space == IF HeadLimit > Len(head) THEN HeadLimit - Len(head) ELSE 0
         first == SubSeq(chunk, 1, IF space < n THEN space ELSE n)
         second == SubSeq(chunk, space + 1, n)
     IN  IF maxBytes = 0
         THEN tail' = Append(tail, chunk) /\ UNCHANGED head
         ELSE /\ head' = head \o first
              /\ tail' = IF second = <<>> THEN tail ELSE Trimmed(Append(tail, second))
  /\ UNCHANGED maxBytes

\* The output, and how many bytes the marker in it says are left out.
Retained ==
  IF maxBytes = 0 \/ total <= maxBytes THEN [bytes |-> head \o Bytes(tail), omitted |-> 0]
  ELSE [bytes |-> head \o Bytes(tail), omitted |-> total - Len(head) - Len(Bytes(tail))]

Init == maxBytes \in Limits /\ total = 0 /\ head = <<>> /\ tail = <<>>
Next == \E n \in 1 .. MaxChunk : Append_(n)
Spec == Init /\ [][Next]_vars

-----------------------------------------------------------------------------
(* However the stream is cut into chunks, the output is all of it, or its  *)
(* first and last bytes, as many as the limit allows, and a true count of  *)
(* what is missing between them.                                           *)
EndsKept ==
  LET all == Chunk(1, total)
  IN  Retained =
        IF maxBytes = 0 \/ total <= maxBytes THEN [bytes |-> all, omitted |-> 0]
        ELSE [bytes |-> SubSeq(all, 1, HeadLimit) \o SubSeq(all, total - TailLimit + 1, total),
              omitted |-> total - maxBytes]
===============================================================================
