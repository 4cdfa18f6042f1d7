------------------------------ MODULE BytePipe ------------------------------
(***************************************************************************)
(* What a session promises of the bytes written to it.  Bytes are numbered *)
(* in the order they are accepted.  They reach the terminal in that order  *)
(* and each of them once; only when the pipe breaks (a write that failed,  *)
(* a close) is a tail of them dropped, and nothing is accepted afterwards. *)
(***************************************************************************)
EXTENDS Naturals, Sequences

VARIABLES
  accepted,  \* how many bytes have been accepted
  written,   \* the bytes that have reached the terminal, in order
  lost,      \* how many bytes, the last accepted, are given up
  broken     \* whether the pipe has broken

pipeVars == <<accepted, written, lost, broken>>

Init == accepted = 0 /\ written = <<>> /\ lost = 0 /\ broken = FALSE

Accept ==
  /\ ~broken
  /\ accepted' \in Nat /\ accepted' > accepted
  /\ UNCHANGED <<written, lost, broken>>

Deliver ==
  /\ Len(written) + lost < accepted
  /\ \E n \in 1..(accepted - lost - Len(written)) :
       written' = written \o [i \in 1..n |-> Len(written) + i]
  /\ UNCHANGED <<accepted, lost, broken>>

Break ==
  /\ broken' = TRUE
  /\ lost' \in lost..(accepted - Len(written))
  /\ UNCHANGED <<accepted, written>>

Next == Accept \/ Deliver \/ Break

Spec == Init /\ [][Next]_pipeVars
=============================================================================
