---------------------------- MODULE MCWriteQueue ----------------------------
(* The site writes five times; the poller runs the worker.                 *)
EXTENDS WriteQueue, TLC
CONSTANTS poller, web, a, b, c, d, e
Programs == web :> <<a, c, b, e, d>> @@ poller :> <<>>
Sizes == a :> 4 @@ b :> 2 @@ c :> 1 @@ d :> 1 @@ e :> 1
=============================================================================
