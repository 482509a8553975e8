---------------------------- MODULE MCStaffCalls ----------------------------
(* An instance of StaffCalls for TLC. *)
EXTENDS StaffCalls, TLC

CONSTANTS c1, c2, s1, s2, s3, k1, k2, noOne

TwoCalls == {c1, c2}
ThreeSessions == {s1, s2, s3}
TwoThreads == {k1, k2}
TwoUsers == s1 :> "Kim" @@ s2 :> "Kim" @@ s3 :> "Lee"

Anonymous == Permutations(TwoCalls) \cup Permutations(TwoThreads)
                \cup Permutations({s1, s2})
=============================================================================
