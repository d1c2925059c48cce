------------------------------ MODULE MCBridge ------------------------------
(* Small instances of Bridge for TLC.                                       *)
EXTENDS Bridge

NodeOneKey == {<<"derived", 1>>}

(* A relay whose policy knows the accounting kind and not the lifecycle one.*)
AllLifecycle == [kind : {"lifecycle"}, run : Runs, key : Keys]
=============================================================================
