----------------------------- MODULE MCServing -----------------------------
(* Instances of Serving for TLC. *)
EXTENDS Serving, TLC

CONSTANTS dish, part, s1, s2, t1, t2, k1, k2, nobody

OneItem == {dish}
DishAndPart == {dish, part}
OnlyPart == {part}
TwoServers == {s1, s2}
OneServer == {s1}
OneSession == [w \in Servers |-> "one"]
OwnSessions == [w \in Servers |-> w]
OneTask == {t1}
TwoTasks == {t1, t2}
TwoThreads == {k1, k2}

(* Rows are anonymous, and so are threads and servers with a session each. *)
Anonymous == Permutations(TwoTasks) \cup Permutations(TwoThreads)
                \cup Permutations(TwoServers)

(* A table that is over has nothing calm again once nothing is: what staff *)
(* do to it from then on is beside the property.                           *)
UntilDisturbed == over => \E i \in Items : calm[i]

=============================================================================
