---------------------------- MODULE NetworkSession ----------------------------
(***************************************************************************)
(* The networks the MCP server keeps (crates/gridoxide-mcp/src/session.rs, *)
(* Session::network, and the two tools that keep a solution with them).    *)
(*                                                                         *)
(* One network, read from a directory of files.  Whoever edits the files   *)
(* does so at any moment, between the listing, the stamps and the reads of *)
(* a call: external.  Each edit gives its file a later modification time,  *)
(* so two edits are told apart by the clock of the file system.            *)
(***************************************************************************)
EXTENDS Integers

CONSTANTS
  Files,
  MaxEdits           \* edits in a run

ASSUME SessionAssumption == MaxEdits \in Nat

VARIABLES
  disk,              \* each file: whether it is there, and its version
  edits,             \* the clock
  tool, at,          \* the call being served and where it stands
  files, stamps,     \* this call's source_files and their stamps
  list, read,        \* what load found and what it has read, version by file
  kept,              \* the session's Loaded, if any
  solved,            \* Loaded::solved: the versions it was solved on, if any
  served,            \* what the last call answered from
  begun              \* history: the disk when the call began

world == <<disk, edits>>
loading == <<list, read>>
session == <<kept, solved>>
answer == <<served, begun>>
sessionvars == <<world, tool, at, files, stamps, loading, session, answer>>

Missing == -1
There == {f \in Files : disk[f].there}

SessionInit ==
  /\ disk = [f \in Files |-> [there |-> TRUE, version |-> 0]]
  /\ edits = 0
  /\ tool = "results" /\ at = "idle"
  /\ files = {} /\ stamps = <<>> /\ list = {} /\ read = <<>>
  /\ kept = {} /\ solved = {} /\ served = {}
  /\ begun = disk

\* A file is written, added or removed. The version is the modification time.
Edit ==
  /\ edits < MaxEdits
  /\ edits' = edits + 1
  /\ \E f \in Files, there \in BOOLEAN :
       disk' = [disk EXCEPT ![f] = [there |-> there, version |-> edits + 1]]
  /\ UNCHANGED <<tool, at, files, stamps, loading, session, answer>>

\* source_files; a directory without files is refused.
CallBegins ==
  /\ at = "idle"
  /\ tool' \in {"power_flow", "results"} /\ at' = "listed"
  /\ begun' = disk /\ files' = There
  /\ stamps' = <<>> /\ served' = {}
  /\ UNCHANGED <<world, loading, session>>

Refuse ==
  /\ at = "listed" /\ files = {}
  /\ at' = "idle"
  /\ UNCHANGED <<world, tool, files, stamps, loading, session, answer>>

Extend(f, x, v) == [y \in DOMAIN f \cup {x} |-> IF y = x THEN v ELSE f[y]]

\* stamps, file by file: none for one that has gone.
Stamp(f) == IF disk[f].there THEN disk[f].version ELSE Missing
StampNext ==
  /\ at = "listed"
  /\ \E f \in files \ DOMAIN stamps : stamps' = Extend(stamps, f, Stamp(f))
  /\ UNCHANGED <<world, tool, at, files, loading, session, answer>>

Stamped == at = "listed" /\ files # {} /\ DOMAIN stamps = files
Fresh == \E k \in kept : k.files = files /\ k.stamps = stamps

Trust ==
  /\ Stamped /\ Fresh
  /\ at' = "tool"
  /\ UNCHANGED <<world, tool, files, stamps, loading, session, answer>>

\* load lists the directory itself, then reads file by file.
LoadBegins ==
  /\ Stamped /\ ~Fresh
  /\ at' = "loading" /\ list' = There /\ read' = <<>>
  /\ UNCHANGED <<world, tool, files, stamps, session, answer>>

LoadNext ==
  /\ at = "loading"
  /\ \E f \in list \ DOMAIN read :
       disk[f].there /\ read' = Extend(read, f, disk[f].version)
  /\ UNCHANGED <<world, tool, at, files, stamps, list, session, answer>>

\* A file has gone or does not parse: what was kept before stays.
LoadFails ==
  /\ at = "loading"
  /\ at' = "idle"
  /\ UNCHANGED <<world, tool, files, stamps, loading, session, answer>>

\* a mutant: stamped once it has been read.
KeptStampsAsRead == [f \in files |-> Stamp(f)]
KeptStamps == stamps

Insert ==
  /\ at = "loading" /\ list # {} /\ DOMAIN read = list
  /\ kept' = {[files |-> files, stamps |-> KeptStamps, net |-> read]}
  /\ solved' = {}
  /\ at' = "tool"
  /\ UNCHANGED <<world, tool, files, stamps, loading, answer>>

\* power_flow answers from the network, and its report stays with it; a solve
\* that is refused leaves the one before.
PowerFlow ==
  /\ at = "tool" /\ tool = "power_flow"
  /\ \/ served' = {k.net : k \in kept} /\ solved' = served'
     \/ UNCHANGED <<served, solved>>
  /\ at' = "idle"
  /\ UNCHANGED <<world, tool, files, stamps, loading, kept, begun>>

\* results answers from the report.
Results ==
  /\ at = "tool" /\ tool = "results"
  /\ served' = solved
  /\ at' = "idle"
  /\ UNCHANGED <<world, tool, files, stamps, loading, session, begun>>

SessionNext ==
  \/ Edit \/ CallBegins \/ Refuse \/ StampNext \/ Trust
  \/ LoadBegins \/ LoadNext \/ LoadFails \/ Insert \/ PowerFlow \/ Results

SessionSpec == SessionInit /\ [][SessionNext]_sessionvars

-----------------------------------------------------------------------------
\* "Networks, read once and kept until a file of theirs changes" (session.rs:1):
\* whatever is edited while a network is listed, stamped and read, a later call
\* never answers from a network or a solution older than the files were when it
\* began, nor with a file that was gone by then.  Only a file that load saw and
\* the listing before it did not is not watched: it may go unnoticed.
Watched(f) == \E k \in kept : f \in k.files
AnswersAreCurrent ==
  \A net \in served : \A f \in Files :
    disk[f] = begun[f] =>
      /\ begun[f].there => f \in DOMAIN net /\ net[f] = begun[f].version
      /\ ~begun[f].there /\ Watched(f) => f \notin DOMAIN net
=============================================================================
