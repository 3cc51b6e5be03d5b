------------------------------ MODULE MCHosted ------------------------------
(***************************************************************************)
(* One operator who is a member of two clients and may lose one of them;   *)
(* one case id that requests for both clients use, with their own targets. *)
(***************************************************************************)
EXTENDS Hosted, TLC

CONSTANTS h1, k1, k2, A, B, t1, t2

MCCases    == {1}
MCClientOf == t1 :> A @@ t2 :> B
MCUnstable == {<<h1, A>>}
MCSymmetry == Permutations(Calls)
MCRequests == {[case |-> 1, client |-> A, targets |-> {t1}],
               [case |-> 1, client |-> B, targets |-> {t2}]}
=============================================================================
