------------------------------ MODULE MCSystem ------------------------------
(***************************************************************************)
(* Rings that hold two bytes and packets of one or two: a full packet      *)
(* fills a ring, and the indexes wrap after three bytes.  Four tasks, of   *)
(* which two share the highest priority and one is between them and idle.  *)
(* A flash of two blocks of two pages, a screen of four pixels, requests   *)
(* of one, two and more packets, with and without one that ends early.     *)
(***************************************************************************)
EXTENDS System

CONSTANTS v

MixedPrio == [t \in 0 .. 3 |-> IF t = 0 THEN 0 ELSE IF t = 2 THEN 1 ELSE 2]

MCRequests ==
  {[kind |-> q[1], len |-> q[2], wlength |-> q[3]] :
     q \in {<<"a", 1, 2>>, <<"b", 3, 4>>, <<"b", 3, 2>>, <<"c", 2, 3>>, <<"set", 0, 0>>, <<"line", 0, 1>>, <<"bad", 0, 0>>}}

MCAsks ==
  {<<0, 0, 1, 1>>, <<1, 1, 1, 1>>, <<1, 0, 1, 2>>, <<0, 1, 2, 1>>, <<-1, 0, 2, 1>>, <<0, -1, 1, 2>>, <<1, 1, 3, 3>>,
   <<0, 0, 3, 3>>, <<-1, -1, 4, 4>>, <<2, 0, 1, 1>>, <<-1, 0, 1, 1>>, <<0, 0, 0, 1>>, <<0, 2, 2, 1>>}
=============================================================================
