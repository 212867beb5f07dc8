---------------------------- MODULE CheckpointNames ----------------------------
(***************************************************************************)
(* Both readings the converter makes of a checkpoint's names: what the     *)
(* passes over them do to the tensors (Conversion), and which expert each  *)
(* belongs to in the layout and in the engine (Naming, over the names as   *)
(* they are after the passes).  A behaviour is one or the other: the names *)
(* of Naming carry towers and stacks, those of Conversion carry rows.      *)
(***************************************************************************)
EXTENDS Conversion

CONSTANTS
  Scanned,     \* Checkpoints of Naming
  Importable   \* guarded architectures the installed transformers has

VARIABLES
  reading,     \* "convert" or "scan"
  ckpt, todo, groups, dense, failed

scan == <<ckpt, todo, groups, dense, failed>>

Parsing == INSTANCE Naming WITH Checkpoints <- Scanned

ASSUME ScannedAssumption == \A c \in Scanned : Parsing!Published(c)

\* What the reading that is not made leaves alone.
NoScan       == ckpt = "none" /\ todo = {} /\ groups = <<>> /\ dense = {} /\ failed = FALSE
NoConversion == /\ root = "none" /\ mode = "none" /\ subfolder = "none" /\ step = "idle" /\ at = {}
                /\ names = <<>> /\ virtual = <<>> /\ weights = {} /\ plan = <<>>
                /\ cache = <<>> /\ quantized = <<>> /\ store = <<>>

ReadInit ==
  \/ reading = "convert" /\ ConvertInit /\ NoScan
  \/ reading = "scan" /\ NoConversion /\ Parsing!Init
ReadNext ==
  \/ reading = "convert" /\ ConvertNext /\ UNCHANGED <<reading, scan>>
  \/ reading = "scan" /\ Parsing!Scan /\ UNCHANGED <<reading, conversion>>
ReadSpec == ReadInit /\ [][ReadNext]_<<reading, conversion, scan>>
-----------------------------------------------------------------------------
(* The store layer and expert of a group are those of one expert of the    *)
(* model, and the groups fill the table the engine is told to expect.      *)
GroupsAreExperts == reading = "scan" => Parsing!GroupsAreExperts

(* What is left resident and what is offloaded is right for every family,  *)
(* and the four chains of substring tests see the same family.             *)
OffloadedExactly == reading = "scan" => Parsing!OffloadedExactly /\ Parsing!ChainsAgree
=============================================================================
