------------------------------ MODULE MCVendor ------------------------------
(***************************************************************************)
(* One vendor for TLC: an administrator a, a procurement manager p who may *)
(* raise and decide but not enable, another editor e, two versions of the  *)
(* vendor's own data and up to three status change requests.               *)
(***************************************************************************)
EXTENDS Vendor

CONSTANTS a, p, e, d1, d2

Everyone == {a, p, e}
Purchasing == {a, p}
AdminOnly == {a}
TwoVersions == {d1, d2}

=============================================================================
