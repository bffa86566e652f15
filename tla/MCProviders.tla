---------------------------- MODULE MCProviders ----------------------------
(* An instance of Providers for TLC: a status of every kind the code tells *)
(* apart, those at the edges of its comparisons among them.                *)
EXTENDS Providers

MCStatuses == {101, 200, 201, 299, 304, 399, 400, 428, 429, 430, 499, 500, 504, 599, 600}
=============================================================================
