----------------------------- MODULE MCWorkerIO -----------------------------
(* Instances of WorkerIO for TLC.                                          *)
EXTENDS WorkerIO

MCTokens == {"text", "quest", "ion", "riddle", "(i/n)", "upgrading", "package"}
MCLines  == {Text, Question, Riddle, Numbered, Unnumbered}
=============================================================================
