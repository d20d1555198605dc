----------------------------- MODULE MCToolCall -----------------------------
(* TLC instances of ToolCall: two apps, at most two rows, searches of up   *)
(* to four rows, every row_limit from -3 to 4, and queries with up to two  *)
(* levels of subsearches, a forbidden command standing first or last.      *)
EXTENDS ToolCall

CONSTANTS a1, a2, plain, bad, inner, outer, mixed

MCApps == {a1, a2}
MCRowLimitArgs == {None} \cup -3..4
MCRowCounts == 0..4

MCTexts   == {plain, bad, inner, outer, mixed}
MCNames   == {"search", "join", "eval", "delete"}
MCSafe    == {"search", "join", "eval"}
MCNesting == {"search", "join"}

Cmd(name, cuts) == [name |-> name, cuts |-> cuts]

(* outer is safe throughout, with the text of bad in brackets of a regular *)
(* expression; mixed hides a forbidden command behind a safe subsearch.    *)
MCParse ==
  [t \in MCTexts |->
     CASE t = plain -> <<Cmd("search", <<>>), Cmd("eval", <<bad>>)>>
       [] t = bad   -> <<Cmd("search", <<>>), Cmd("delete", <<>>)>>
       [] t = inner -> <<Cmd("join", <<plain, plain>>)>>
       [] t = outer -> <<Cmd("join", <<inner, plain>>), Cmd(None, <<>>)>>
       [] t = mixed -> <<Cmd("search", <<plain>>), Cmd("join", <<inner, bad>>)>>]
=============================================================================
