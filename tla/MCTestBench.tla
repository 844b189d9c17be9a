----------------------------- MODULE MCTestBench -----------------------------
(* Every bench of accelerators/.                                           *)
EXTENDS TestBench, TestBenches

MCLatencies == {0, 3, 200}
=============================================================================
