---------------------------- MODULE MCReportPipeline ---------------------------
(***************************************************************************)
(* Two gates that have names of their own, or are started without GATE_ID, *)
(* or of which one is started with an empty one.                           *)
(***************************************************************************)
EXTENDS ReportPipeline, TLC

CONSTANTS g1, g2

MCMaxCount == (g1 :> 2 @@ g2 :> 1)

MCGateIds == {(g1 :> g1 @@ g2 :> g2), (g1 :> None @@ g2 :> None), (g1 :> g1 @@ g2 :> Empty)}
===============================================================================
