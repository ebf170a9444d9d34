------------------------------- MODULE Mailbox -------------------------------
(***************************************************************************)
(* What an event stream promises for its coalescing events: of the counts  *)
(* that were put into an open stream the last one is shown in the end;     *)
(* those before it may never be.                                           *)
(***************************************************************************)
EXTENDS Naturals

VARIABLES
    open,    \* the stream is subscribed
    box,     \* the count that is not yet shown, 0 when there is none
    shown    \* the count that the client shows

vars == <<open, box, shown>>

Init == ~open /\ box = 0 /\ shown = 0

Open == ~open /\ open' = TRUE /\ box' = 0 /\ UNCHANGED shown

Put == open /\ box' \in Nat \ {0} /\ UNCHANGED <<open, shown>>

Show == open /\ box # 0 /\ shown' = box /\ box' = 0 /\ UNCHANGED open

\* A client that connects is first sent the count of that moment.
Snapshot == open /\ shown' \in Nat /\ UNCHANGED <<open, box>>

Close == open /\ open' = FALSE /\ box' = 0 /\ UNCHANGED shown

Next == Open \/ Put \/ Show \/ Snapshot \/ Close

Spec == Init /\ [][Next]_vars /\ WF_vars(Show)
=============================================================================
