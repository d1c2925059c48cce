----------------------------- MODULE MCApprovals -----------------------------
(* A small instance of Approvals for TLC.                                   *)
EXTENDS Approvals, TLC

CONSTANTS r1, r2, alice, bob, req, otherReq

Signed(i, key, at, tags, req_, ok) ==
    [id |-> i, pubkey |-> key, created_at |-> at, kind |-> "verdict",
     verdictTags |-> tags, eTags |-> {req_}, verifies |-> ok]

(* Alice: a rejection and an approval of one second, an earlier approval, a *)
(* later one that does not verify, one with two verdicts.  Bob: an approval *)
(* and an approval of another request.                                      *)
MCLog ==
    {Signed(5, alice, 1, <<"approve">>, req, TRUE),
     Signed(4, alice, 2, <<"approve">>, req, TRUE),
     Signed(3, alice, 2, <<"reject", "">>, req, TRUE),
     Signed(2, alice, 3, <<"approve">>, req, FALSE),
     Signed(6, bob, 1, <<"approve">>, req, TRUE),
     Signed(7, bob, 2, <<"reject">>, otherReq, TRUE),
     Signed(8, bob, 3, <<"approve", "reject">>, req, TRUE)}

(* Readers are interchangeable.                                             *)
ReaderSymmetry == Permutations(Readers)
=============================================================================
