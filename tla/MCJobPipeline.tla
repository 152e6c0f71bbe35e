---------------------------- MODULE MCJobPipeline ----------------------------
(* Instances of JobPipeline for TLC: wirings of jobs through events.       *)
EXTENDS JobPipeline

None == [j \in Jobs |-> NoEvent]
Once == [j \in Jobs |-> 1]
Never == [j \in Jobs |-> 0]

(* A ring of a, fired by a task event, and b, which fans out; c, fired by  *)
(* the clock, handles the failures of a and creates a task: a second ring, *)
(* which the refusals of the first go through.                             *)
RingListens == [j \in Jobs |-> CASE j = "a" -> {"task.created", "b.ok"}
                                 [] j = "b" -> {"a.ok"}
                                 [] j = "c" -> {"a.failed"}]
RingItems == [j \in Jobs |-> IF j = "b" THEN 2 ELSE 1]
RingPublishes == [j \in Jobs |-> IF j = "c" THEN 1 ELSE 0]
RingSuccess == [j \in Jobs |-> CASE j = "a" -> "a.ok"
                                 [] j = "b" -> "b.ok"
                                 [] j = "c" -> NoEvent]
RingFailure == [j \in Jobs |-> IF j = "a" THEN "a.failed" ELSE NoEvent]

(* a triggers b; both edited.                                              *)
PairListens == [j \in Jobs |-> IF j = "b" THEN {"a.ok"} ELSE {}]
PairSuccess == [j \in Jobs |-> IF j = "a" THEN "a.ok" ELSE NoEvent]

Limit(n) == [j \in Jobs |-> n]
Limit1 == Limit(1)
Limit9 == Limit(9)

(* The wirings of both runs are of the kind ChainsAreFinite is about.      *)
ASSUME RingsOfFailures == FailureHandlersEnd
=============================================================================
