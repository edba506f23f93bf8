---------------------------- MODULE MCDemoSession ----------------------------
(* Instances of DemoSession.                                               *)
EXTENDS DemoSession
=============================================================================
