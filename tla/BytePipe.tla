------------------------------ MODULE BytePipe ------------------------------
(***************************************************************************)
(* What one direction of a RemoteCL connection promises to the packet      *)
(* layer above it: a pipe of bytes.  Bytes are named by their position in  *)
(* the stream the writer produces, so "the right bytes in the right order" *)
(* is "the positions 1, 2, 3, ...".                                        *)
(***************************************************************************)
EXTENDS Naturals, Sequences

VARIABLES accepted,   \* how many bytes the writer has handed over
          delivered   \* the bytes the reader has been given, in order

pipeVars == <<accepted, delivered>>

\* The k bytes that follow the first `from` bytes of the stream.
Numbers(from, k) == [i \in 1..k |-> from + i]

Init == accepted = 0 /\ delivered = << >>

\* The writer hands over more bytes.
Accept ==
  /\ accepted' \in Nat /\ accepted' > accepted
  /\ UNCHANGED delivered

\* The reader is given the next k bytes, all of which were handed over.
Deliver ==
  /\ \E k \in 1 .. accepted - Len(delivered) :
        delivered' = delivered \o Numbers(Len(delivered), k)
  /\ UNCHANGED accepted

Next == Accept \/ Deliver

Spec == Init /\ [][Next]_pipeVars
=============================================================================
