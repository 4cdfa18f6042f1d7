--------------------------- MODULE OutputStream ---------------------------
(***************************************************************************)
(* What PtySession.output promises (lib/src/api/session.dart), with no     *)
(* threads, batches or acknowledgements in sight: the listener receives    *)
(* the child's output from its first byte on, in order and without gaps,   *)
(* and is told that the stream is done only when there is nothing left to  *)
(* receive, unless something has cut the stream short: the session was     *)
(* closed, reading failed, or the isolate is gone.                         *)
(***************************************************************************)
EXTENDS Naturals

VARIABLES written,    \* bytes the child has written
          delivered,  \* bytes the listener has received
          ended,      \* the listener has been told the stream is done
          cut         \* something has cut the stream short

vars == <<written, delivered, ended, cut>>

Init == written = 0 /\ delivered = 0 /\ ended = FALSE /\ cut = FALSE

Write == written' = written + 1 /\ (ended => cut) /\ UNCHANGED <<delivered, ended, cut>>

Deliver ==
  /\ ~ended
  /\ delivered' \in (delivered + 1)..written
  /\ UNCHANGED <<written, ended, cut>>

End ==
  /\ ~ended
  /\ delivered = written \/ cut
  /\ ended' = TRUE
  /\ UNCHANGED <<written, delivered, cut>>

Cut == cut' = TRUE /\ UNCHANGED <<written, delivered, ended>>

Next == Write \/ Deliver \/ End \/ Cut

Spec == Init /\ [][Next]_vars
===========================================================================
