------------------------------ MODULE MCPages ------------------------------
(* Constants for the rating pages: the provider and two deployers.          *)
EXTENDS RatingPages

MCAccount == {"prov", "dep1", "dep2"}
=============================================================================
