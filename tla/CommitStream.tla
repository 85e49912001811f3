---------------------------- MODULE CommitStream ----------------------------
(***************************************************************************)
(* What the commit stream promises, without files: a sequence of commits   *)
(* that grows one at a time at its end; a crash may drop commits from the  *)
(* end, but never one that was acknowledged nor one ahead of it; nothing   *)
(* is ever reordered, replaced or inserted.                                *)
(***************************************************************************)
EXTENDS Integers, Sequences

CONSTANT Oid

VARIABLES
    stream,     \* the commits a recovery would find now
    promised    \* the commits known to be acknowledged

streamVars == <<stream, promised>>

StreamInit ==
    /\ stream = <<>>
    /\ promised = <<>>

Grow ==
    /\ \E o \in Oid : stream' = Append(stream, o)
    /\ UNCHANGED promised

Promise ==
    /\ promised' = stream
    /\ UNCHANGED stream

Lose ==
    /\ \E k \in Len(promised)..Len(stream) : stream' = SubSeq(stream, 1, k)
    /\ UNCHANGED promised

StreamNext == Grow \/ Promise \/ Lose

StreamSpec == StreamInit /\ [][StreamNext]_streamVars
=============================================================================
