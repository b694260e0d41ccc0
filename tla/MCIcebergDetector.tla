-------------------------- MODULE MCIcebergDetector --------------------------
(* Two bid prices, a reorder window of one unit of time, a buffer of three *)
(* events.                                                                 *)
EXTENDS IcebergDetector

MCPrices == 1..2
MCMaxQty == <<1, 2>>
=============================================================================
