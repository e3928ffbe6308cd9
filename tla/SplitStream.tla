---------------------------- MODULE SplitStream ----------------------------
(***************************************************************************)
(* What split_connector.hpp and split_provider.hpp promise the source      *)
(* operator of a scan: a stream that delivers every split of the scan at   *)
(* most once, in any order, and that ends when every split has been        *)
(* delivered, or earlier when its provider failed or its query was given   *)
(* up.  Nothing is delivered after the end.  Module ScanSplits implements  *)
(* it with providers, a dispatcher, pool threads and a blocking connector. *)
(***************************************************************************)
CONSTANTS Streams, AllSplits

VARIABLES delivered,   \* per stream, the splits the operator has received
          broken,      \* per stream, whether its provider failed
          ended        \* per stream, whether it has ended

stvars == <<delivered, broken, ended>>

StInit ==
    /\ delivered = [s \in Streams |-> {}]
    /\ broken = [s \in Streams |-> FALSE]
    /\ ended = [s \in Streams |-> FALSE]

Deliver(s) ==
    \E x \in AllSplits \ delivered[s] :
        /\ ~ended[s]
        /\ delivered' = [delivered EXCEPT ![s] = @ \cup {x}]
        /\ UNCHANGED <<broken, ended>>

Break(s) ==
    /\ broken' = [broken EXCEPT ![s] = TRUE]
    /\ UNCHANGED <<delivered, ended>>

End(s) ==
    /\ delivered[s] = AllSplits \/ broken[s]
    /\ ended' = [ended EXCEPT ![s] = TRUE]
    /\ UNCHANGED <<delivered, broken>>

\* The streams of a query are given up together, when one of them is broken.
GiveUp(S) ==
    /\ \E s \in S : broken[s]
    /\ ended' = [s \in Streams |-> ended[s] \/ s \in S]
    /\ UNCHANGED <<delivered, broken>>

StNext ==
    \/ \E s \in Streams : Deliver(s) \/ Break(s) \/ End(s)
    \/ \E S \in SUBSET Streams : GiveUp(S)

StSpec == StInit /\ [][StNext]_stvars
=============================================================================
