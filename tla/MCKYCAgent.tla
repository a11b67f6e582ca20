------------------------------ MODULE MCKYCAgent ------------------------------
(***************************************************************************)
(* Instances of KYCAgent for TLC: two users, a few calls, an income below  *)
(* zero, which the endpoint takes, and a document for each way in which an *)
(* income is found in its text, or not.                                    *)
(***************************************************************************)
EXTENDS KYCAgent

MCIncomes == {-1}

MCDocuments == {[aadhaar |-> TRUE, labelled |-> None, number |-> 2],
                [aadhaar |-> FALSE, labelled |-> 0, number |-> 2],
                [aadhaar |-> FALSE, labelled |-> None, number |-> 0]}
=============================================================================
