------------------------------ MODULE HostConfig ------------------------------
(***************************************************************************)
(* The JSON file in which an MCP host registers its servers, and the       *)
(* functions of setup_wizard/mcp_clients.py that read and merge it.        *)
(* A file is abstracted to what these tell apart: whether it can be read,  *)
(* decoded and parsed, its mcpServers section, and the rest of its keys    *)
(* taken together.                                                         *)
(***************************************************************************)
EXTENDS Naturals

CONSTANTS
  Names,      \* names an entry of mcpServers may have
  Launches,   \* entries that are objects, each with a command
  Scalar,     \* an entry that is not an object
  NoEntry,
  Rests,      \* contents of the other top-level keys
  NoRest      \* there are none

ASSUME HostConfigAssumption ==
  /\ Scalar \notin Launches
  /\ NoEntry \notin Launches \cup {Scalar}
  /\ NoRest \in Rests

NoServers == [n \in Names |-> NoEntry]

Shapes == {"absent", "blank", "undecodable", "invalid", "nonobject", "object"}

(* section "none": missing, null or another falsy value; "bad": any other  *)
(* value that dict() does not take.                                        *)
File ==
  [shape    : Shapes,
   readable : BOOLEAN,
   section  : {"none", "map", "bad"},
   servers  : [Names -> Launches \cup {Scalar, NoEntry}],
   rest     : Rests]

Shaped(s) ==
  [shape |-> s, readable |-> TRUE, section |-> "none", servers |-> NoServers, rest |-> NoRest]

Empty == Shaped("object")   \* {}

(* Only an object has keys, only a map has entries, and every file that is *)
(* absent is as good as readable.                                          *)
WellFormed(f) ==
  /\ f.shape # "object" => f.section = "none" /\ f.rest = NoRest
  /\ f.section # "map" => f.servers = NoServers
  /\ f.shape = "absent" => f.readable
-----------------------------------------------------------------------------
(* _read_existing.  A file that cannot be read counts as an empty one, a   *)
(* file that is not a JSON object is refused with a WriterError, and one   *)
(* that is not UTF-8 ends the wizard with a UnicodeDecodeError.            *)
Unreadable(f) == f.shape # "absent" /\ ~f.readable
Crashes(f)    == f.readable /\ f.shape = "undecodable"
Refused(f)    == f.readable /\ f.shape \in {"invalid", "nonobject"}
Read(f)       == IF Unreadable(f) \/ f.shape \in {"absent", "blank"} THEN Empty ELSE f

(* inspect_existing of the two JSON writers: only an object in a map is an *)
(* entry.                                                                  *)
Inspected(f, n) ==
  IF Read(f).section = "map" /\ Read(f).servers[n] \in Launches THEN Read(f).servers[n]
  ELSE NoEntry

(* _merge_mcp_servers, of an f whose section is not "bad".                 *)
Merged(f, n, e) == [f EXCEPT !.section = "map", !.servers[n] = e]
-----------------------------------------------------------------------------
(* What the smoke test gets through json.load and .get("mcpServers").      *)
IsMap(f) == f.readable /\ f.shape = "object" /\ f.section = "map"
=============================================================================
