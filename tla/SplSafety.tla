------------------------------ MODULE SplSafety ------------------------------
(***************************************************************************)
(* What check_spl_safe of spl_bridge/splunk_client.py goes through: the    *)
(* commands Splunk's parser lists for a text, the allowlist, and the texts *)
(* the bracket scans cut out of a command's argument, which are parsed in  *)
(* their turn.  Texts are opaque: how a text reads is the parser's matter, *)
(* and which brackets the scans pair is in the cuts of a command.          *)
(***************************************************************************)
EXTENDS Sequences, Functions

CONSTANTS
  Texts,    \* SPL texts: queries and subsearches
  Names,    \* command names, lower case
  Safe,     \* safe_spl_commands
  Nesting,  \* keys of sub_search_arg_cmd
  Parse,    \* the commands services/search/parser lists for a text
  NoName    \* an entry of the list without a command name

(* An entry of the list: its name, and the texts in brackets the scan of   *)
(* its argument cuts out, in order, if the command is one that nests.      *)
Commands == [name : Names \cup {NoName}, cuts : Seq(Texts)]

ASSUME SafetyAssumption ==
  /\ Texts \cap Commands = {}
  /\ Parse \in [Texts -> Seq(Commands)]

Forbidden(c) == c.name # NoName /\ c.name \notin Safe

(* Mutants: the first subsearch found safe ends the scan; brackets are     *)
(* followed in the argument of any command.                                *)
FirstSubsearch(c) == IF c.name \in Nesting /\ c.cuts # <<>> THEN <<Head(c.cuts)>> ELSE <<>>
AnyBrackets(c) == c.cuts

(* The subsearches of a command the check follows.                         *)
Subsearches(c) == IF c.name \in Nesting THEN c.cuts ELSE <<>>

(* A set of texts that leaves out no subsearch of its members, and a query *)
(* with its subsearches at any depth: the least such set that holds it.    *)
Closed(S) ==
  \A t \in S : \A i \in DOMAIN Parse[t] :
    Parse[t][i].name \in Nesting => Range(Parse[t][i].cuts) \subseteq S

Reachable(t) == {u \in Texts : \A S \in SUBSET Texts : t \in S /\ Closed(S) => u \in S}
=============================================================================
