---------------------------- MODULE MCApiAccess ----------------------------
(* An instance of ApiAccess for TLC.                                       *)
EXTENDS ApiAccess, TLC

CONSTANTS poll, query, c1, c2, stranger, k

MCKind == [r \in Requests |-> IF r = poll THEN "retrieve"
                              ELSE IF r = query THEN "graphql" ELSE "create"]

MCKey == [r \in Requests |-> IF r \in {c1, c2, query} THEN k ELSE NoKey]

(* The two requests to create a notification are alike.                    *)
Symmetry == Permutations({c1, c2})
=============================================================================
