------------------------------ MODULE StringMap ------------------------------
(***************************************************************************)
(* What a client of StrHashTable may rely on, without chains and hashes:   *)
(* a map whose first value for a question stays.                           *)
(*                                                                         *)
(* A question is answered by every key it is a prefix of, as far as the    *)
(* hash leads there: Answers is a parameter.  Were it the identity, this   *)
(* would be a plain map that refuses when it is full and never overwrites. *)
(***************************************************************************)
EXTENDS Naturals

CONSTANTS
    Keys, Asked,    \* what can be added, what can be asked
    Values, Missing,
    Answers,        \* \subseteq Keys \X Asked: this key answers this question
    Capacity

VARIABLES
    answer,     \* [Asked -> Values \cup {Missing}]
    offers,     \* keys offered so far, kept or dropped
    closed      \* nothing more can be said

mapVars == <<answer, offers, closed>>

MapInit ==
    /\ answer = [q \in Asked |-> Missing]
    /\ offers = 0
    /\ closed = FALSE

Put(key, value) ==
    /\ ~closed
    /\ answer' = [q \in Asked |->
                    IF answer[q] = Missing /\ <<key, q>> \in Answers
                    THEN value ELSE answer[q]]
    /\ offers' = offers + 1
    /\ UNCHANGED closed

\* Only a full map drops a key.
Drop ==
    /\ ~closed
    /\ offers + 1 >= Capacity
    /\ offers' = offers + 1
    /\ UNCHANGED <<answer, closed>>

\* A key the representation has no room for ends the promise.
Close ==
    /\ closed' = TRUE
    /\ offers' = offers + 1
    /\ UNCHANGED answer

MapNext ==
    \/ \E key \in Keys, value \in Values : Put(key, value)
    \/ Drop
    \/ Close

MapSpec == MapInit /\ [][MapNext]_mapVars
=============================================================================
