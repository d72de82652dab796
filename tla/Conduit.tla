------------------------------ MODULE Conduit ------------------------------
(***************************************************************************)
(* What the status code driver promises of the codes it takes for the data *)
(* hub: they come out in the order they went in, each at most once, and    *)
(* none but the oldest is ever dropped, when memory is out.  Codes are     *)
(* numbered as they are accepted.                                          *)
(***************************************************************************)
EXTENDS Naturals, Sequences

CONSTANTS Codes     \* records with a number, id

VARIABLES queue, delivered

Numbers == {queue[j].id : j \in DOMAIN queue} \cup {delivered[j].id : j \in DOMAIN delivered}

Init == queue = << >> /\ delivered = << >>

Accept ==
    /\ queue' # << >>
    /\ LET c == queue'[Len(queue')]
       IN  /\ c \in Codes /\ \A n \in Numbers : n < c.id
           /\ queue' = Append(queue, c)
    /\ UNCHANGED delivered

Deliver ==
    /\ queue # << >>
    /\ delivered' = Append(delivered, Head(queue))
    /\ queue' = Tail(queue)

Drop == queue # << >> /\ queue' = Tail(queue) /\ UNCHANGED delivered

Next == Accept \/ Deliver \/ Drop
Spec == Init /\ [][Next]_<< queue, delivered >>
=============================================================================
