---------------------------- MODULE MCPipelines ----------------------------
(* Plans on which Pipelines is model-checked.                              *)
EXTENDS Pipelines, TLC

CONSTANTS p1, p2, p3, w1, w2, c1, c2

OnePipe    == {p1}
TwoPipes   == {p1, p2}
ThreePipes == {p1, p2, p3}
OneWorker  == {w1}
TwoWorkers == {w1, w2}
OneLambda  == {c1}
TwoLambdas == {c1, c2}

(* p1 alone: a split scan whose sink is the result collector.              *)
LoneParents == p1 :> <<>>
LoneKind    == p1 :> "split"
LoneInputs  == p1 :> 2

(* p1 -> p2, a scan executor's pipeline and the result pipeline behind it.  *)
PairParents == p1 :> <<p2>> @@ p2 :> <<>>
PairKind    == p1 :> "iceberg" @@ p2 :> "ports"
PairInputs  == p1 :> 2 @@ p2 :> 0
SplitPairKind == p1 :> "split" @@ p2 :> "ports"

(* p1 -> p2 -> p3 with a FULL barrier before the result pipeline.           *)
ChainParents == p1 :> <<p2>> @@ p2 :> <<p3>> @@ p3 :> <<>>
ChainKind    == p1 :> "iceberg" @@ p2 :> "ports" @@ p3 :> "ports"
ChainInputs  == p1 :> 2 @@ p2 :> 0 @@ p3 :> 0
ChainFull    == {<<p2, p3>>}

(* p1 and p2 feed p3: a join whose build side is a FULL barrier.            *)
JoinParents == p1 :> <<p3>> @@ p2 :> <<p3>> @@ p3 :> <<>>
JoinKind    == p1 :> "cpu" @@ p2 :> "split" @@ p3 :> "ports"
JoinInputs  == p1 :> 0 @@ p2 :> 2 @@ p3 :> 0
JoinFull    == {<<p1, p3>>}

NoEdges == {}
One     == {1}
Scans1  == {p1}
Scans2  == {p1, p2}

Symmetry == Permutations({w1, w2}) \cup Permutations({c1, c2})
=============================================================================
