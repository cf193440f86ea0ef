---------------------------- MODULE MCPipeline ----------------------------
(* A small instance of Pipeline for TLC.                                   *)
EXTENDS Pipeline

\* Problem 11, whose rollout has no number, and rollout 1 of problem 1: "11" and "1_1".
Dataset == << <<11, NoRollout>>, <<1, 1>> >>
=============================================================================
