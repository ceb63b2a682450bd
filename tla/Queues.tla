------------------------------- MODULE Queues -------------------------------
(* Queues of numbered events, as sequences. *)
EXTENDS Naturals, Sequences, SequencesExt

(***************************************************************************)
(* The members of a queue that are in a set, in order: SelectSeq of the    *)
(* standard module, as a function, so that what it computes can be proved. *)
(***************************************************************************)
Filter(queue, keep) ==
    LET kept[i \in 0 .. Len(queue)] ==
            IF i = 0 THEN <<>>
            ELSE IF queue[i] \in keep THEN Append(kept[i - 1], queue[i]) ELSE kept[i - 1]
    IN  kept[Len(queue)]

(* Oldest first, none twice. *)
Rising(queue) == \A i, j \in DOMAIN queue : i < j => queue[i] < queue[j]
=============================================================================
