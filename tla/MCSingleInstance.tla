-------------------------- MODULE MCSingleInstance --------------------------
(* SingleInstance.tla for TLC: the circumstances of each run.               *)
EXTENDS SingleInstance

(* An empty file that stays; one launch and one signal after the other;    *)
(* and deaths anywhere.                                                    *)
EveryWorld ==
  { [file |-> "empty", overlap |-> "anything", deaths |-> "none"],
    [file |-> "absent", overlap |-> "nothing", deaths |-> "handled"] }
  \cup { [file |-> f, overlap |-> "anything", deaths |-> "any"] : f \in {"absent", "stale"} }

(* A dead instance has left its file. *)
StaleWorlds == { [file |-> "stale", overlap |-> "nothing", deaths |-> "none"] }

(* There is no file, and launches overlap. *)
RaceWorlds == { [file |-> "absent", overlap |-> "anything", deaths |-> "none"] }
=============================================================================
