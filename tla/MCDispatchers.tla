--------------------------- MODULE MCDispatchers ----------------------------
(***************************************************************************)
(* Lists of subscribers for TLC.                                           *)
(***************************************************************************)
EXTENDS Dispatchers

(* A full list, and another that is shorter and in another order. *)
MCList == {<<>>, <<"s1", "s2", "s3">>, <<"s3", "s1">>}
=============================================================================
