----------------------------- MODULE ClientFiles -----------------------------
(***************************************************************************)
(* The configuration files of the clients, which the agent configuration   *)
(* tool and the migration helper replace, and which their owners edit.     *)
(*                                                                         *)
(* A content names an endpoint by its port and a model, and has providers  *)
(* for validate_config.  A copy that is being made, or that was broken     *)
(* off, is Torn: the first half of some content, or no bytes at all.       *)
(***************************************************************************)
EXTENDS Naturals, FiniteSets, Sequences

CONSTANTS
  File,
  Tool,       \* processes of the two tools
  Content,    \* contents with a port, a model and providers
  Absent, Torn, NoFile,
  Written,    \* the contents that an owner may write into each file
  MaxEdits    \* bound: how often owners edit

ASSUME FilesAssumption ==
  /\ Absent \notin Content /\ Torn \notin Content \cup {Absent}
  /\ \A c \in Content : c = [port |-> c.port, model |-> c.model, providers |-> c.providers]
  /\ NoFile \notin File
  /\ Written \in [File -> SUBSET Content]
  /\ MaxEdits \in Nat

Whole == Content \cup {Absent}
Bytes == Whole \cup {Torn}

VARIABLES
  file,     \* the content of each file
  edits,    \* the edits so far
  claim,    \* the file each tool is about to replace, from its last look at it on
  raced     \* the tools whose file has been changed by others since then

fileVars == <<file, edits, claim, raced>>

FilesInit ==
  /\ file \in {s \in [File -> Content] : \A f \in File : s[f] \in Written[f]}
  /\ edits = 0
  /\ claim = [t \in Tool |-> NoFile]
  /\ raced = {}

(* A file is replaced, by a tool or not. *)
Put(f, content) ==
  /\ file' = [file EXCEPT ![f] = content]
  /\ raced' = raced \cup {t \in Tool : claim[t] = f}

Claim(t, f) == claim' = [claim EXCEPT ![t] = f] /\ UNCHANGED <<file, edits, raced>>

(* A tool has done with its file, and has replaced it or not. *)
Drop(t) ==
  /\ claim' = [claim EXCEPT ![t] = NoFile]
  /\ raced' = raced \ {t}
  /\ UNCHANGED <<file, edits>>

PutClaimed(t, content) ==
  /\ file' = [file EXCEPT ![claim[t]] = content]
  /\ raced' = (raced \cup {u \in Tool : claim[u] = claim[t]}) \ {t}
  /\ claim' = [claim EXCEPT ![t] = NoFile]
  /\ UNCHANGED edits

(* The owner of a file writes or removes it. *)
Edit(f) ==
  /\ edits < MaxEdits
  /\ edits' = edits + 1
  /\ \E content \in Written[f] \cup {Absent} : content # file[f] /\ Put(f, content)
  /\ UNCHANGED claim
=============================================================================
