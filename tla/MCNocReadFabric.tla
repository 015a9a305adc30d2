-------------------------- MODULE MCNocReadFabric --------------------------
(* Traffic for model checking NocReadFabric, with masters "m0" and "m1".   *)
EXTENDS NocReadFabric

To(ids, tgts) == [id : ids, tgt : tgts]

(* A master alone, with two ids at three servers; two masters that share   *)
(* two servers, with one id each.                                          *)
MCTraffic ==
  {[m0 |-> To({"i0", "i1"}, {0, 1, 4}), m1 |-> {}],
   [m0 |-> To({"i0"}, {0, 4}), m1 |-> To({"i0"}, {0, 4})]}
=============================================================================
