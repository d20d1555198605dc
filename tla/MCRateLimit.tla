---------------------------- MODULE MCRateLimit ----------------------------
(* TLC instance of RateLimit: one limited and one unlimited tool.          *)
EXTENDS RateLimit

CONSTANTS t1, t2, toolA, toolB, ToolMax, GlobalMax

MCThreads == {t1, t2}
MCTools == {toolA, toolB}
MCLimited == {toolA}
MCMax == [l \in {toolA, Global} |-> IF l = Global THEN GlobalMax ELSE ToolMax]
=============================================================================
