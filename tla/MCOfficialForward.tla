-------------------------- MODULE MCOfficialForward --------------------------
(* Jobs for model checking OfficialLoader and OfficialForward: each loader *)
(* over checkpoints that suit it and some that do not, loaded twice by a   *)
(* process, and two ranks that serve calls.                                *)
EXTENDS OfficialForward

CONSTANTS t1, t2

Key(place, layer, part, name, leaf) ==
  [place |-> place, layer |-> layer, part |-> part, name |-> name, leaf |-> leaf]
T(key, shape, dtype) == [key |-> key, shape |-> shape, dtype |-> dtype]
Place(t) == [shape |-> t.shape, dtype |-> t.dtype]
PlacesOf(ts) == [k \in {t.key : t \in ts} |-> Place(CHOOSE t \in ts : t.key = k)]

Embed  == T(Key("top", 0, "none", "embed", "weight"), <<4, 2>>, "bf16")
Norm   == T(Key("top", 0, "none", "norm", "weight"), <<2, 1>>, "bf16")
Wqb    == T(Key("layers", 0, "attn", "wq_b", "weight"), <<4, 2>>, "fp8")
WqbS   == T(Key("layers", 0, "attn", "wq_b", "scale"), <<2, 1>>, "e8m0")
Wob    == T(Key("layers", 0, "attn", "wo_b", "weight"), <<2, 6>>, "fp8")
Sink   == T(Key("layers", 0, "attn", "attn_sink", "plain"), <<4, 1>>, "fp32")
Expert == T(Key("layers", 0, "experts", "w1", "weight"), <<4, 2>>, "fp4")
Gate   == T(Key("layers", 0, "gate", "gate", "weight"), <<4, 2>>, "bf16")
Shared == T(Key("layers", 0, "shared", "w1", "weight"), <<4, 2>>, "fp4")
WoA    == T(Key("layers", 0, "attn", "wo_a", "weight"), <<4, 4>>, "bf16")
WoAq   == T(Key("layers", 0, "attn", "wo_a", "weight"), <<4, 4>>, "fp8")
WoAs   == T(Key("layers", 0, "attn", "wo_a", "scale"), <<2, 2>>, "e8m0")
Draft  == T(Key("mtp", 0, "attn", "wq_b", "weight"), <<4, 2>>, "fp8")
DraftE == T(Key("mtp", 0, "experts", "w1", "weight"), <<4, 2>>, "fp4")
Eye    == T(Key("vision", 0, "none", "patch", "weight"), <<4, 2>>, "bf16")
Extra  == T(Key("top", 0, "none", "rope", "plain"), <<2, 1>>, "fp32")
Table(l)  == T(EngramKey(l, "weight"), <<3, 4>>, "fp8")
TableS(l) == T(EngramKey(l, "scale"), <<3, 2>>, "e8m0")

\* Tensor-parallel V4: one file; a wo_b too wide by one column; an embedding of
\* another size; an odd number of rows.
TpPlaces == PlacesOf({Embed, Norm, Wqb, WqbS, Wob, Sink, Expert})
TpCheckpoints ==
  {<<<<Embed, Norm, Extra, Wqb, WqbS, Wob, Sink, Expert>>>>,
   <<<<Expert, Sink, [Wob EXCEPT !.shape = <<2, 7>>], Embed>>>>,
   <<<<Wqb, [Embed EXCEPT !.shape = <<6, 2>>]>>>>}

V4Places == PlacesOf({Embed, Wqb, WqbS, Wob, Gate, Expert, Draft, DraftE, Eye})
V4Plain == {<<<<Embed, Extra, DraftE, Wob, Wqb, WqbS, Gate, Draft, Eye>>>>}
V4Checkpoints == {<<<<Eye, Draft, DraftE, Expert, Extra, Gate, Wob, WqbS, Wqb, Embed>>>>,
                  <<<<Embed, Wqb, WqbS, Gate, Expert, Wob, DraftE, Draft, Eye>>>>}

V41Places == PlacesOf({Embed, Wqb, WqbS, Gate, Shared, Expert, WoA, Draft, DraftE, Eye}
                      \cup UNION {{Table(l), TableS(l)} : l \in {0, 1}})
HubShared == [Shared EXCEPT !.dtype = "int8"]
V41Tables == <<Table(0), TableS(0), Table(1), TableS(1)>>
V41Checkpoints ==
  {<<<<Embed, Wqb, WqbS, WoAs, WoAq>>, <<Gate, HubShared, Expert, Draft, DraftE, Eye>>, V41Tables>>,
   <<V41Tables, <<Embed, WoA, Wqb, WqbS, Gate, Shared, Expert, Draft, DraftE, Eye>>>>,
   <<<<Embed, Wqb, WqbS, WoA, Gate, Shared>>, <<Table(0), TableS(0)>>>>}
V41Whole == {<<<<Embed, WoA, Wqb, WqbS, Gate, Shared, Expert, Draft, DraftE, Eye>>, V41Tables>>}
\* The scale of wo_a ends one file and its weight begins the next.
V41Split == {<<<<Embed, Wqb, WqbS, WoAs>>, <<WoAq, Gate, HubShared, Expert, Draft, DraftE, Eye>>, V41Tables>>}

Job(loader, world, engram, places, checkpoint) ==
  [loader |-> loader, world |-> world, engramLayers |-> engram, places |-> places, files |-> checkpoint,
   textOnly |-> TRUE, offloadEngram |-> engram # {}, visionExp |-> loader = "v4",
   mayRaise |-> TRUE, maxLoads |-> 2, maxCalls |-> 0, getRaises |-> FALSE]
\* A load that ends: a tensor is missing, or is of another shape than the model's.
Once(loader, world, engram, places, checkpoint) ==
  [Job(loader, world, engram, places, checkpoint) EXCEPT !.mayRaise = FALSE, !.maxLoads = 1]
Wide(t) == [t EXCEPT !.shape[1] = @ + 1]
Gaps == {Once("sharded", 2, {}, TpPlaces, <<<<Norm, Wqb, Wob, Expert>>>>),
         Once("v4", 1, {}, V4Places, <<<<Embed, Wide(Wqb), WqbS, Gate, Expert, DraftE, Draft>>>>),
         Once("v4", 1, {}, V4Places, <<<<Wide(Embed), Wqb, Embed>>, <<Wide(Embed), Wob, Wide(Gate)>>>>),
         Once("v41", 1, {0, 1}, V41Places,
              <<<<Wide(Embed), Wqb, WoA, Gate, Wide(HubShared)>>, V41Tables>>)}
\* Two calls of two ranks; with failing reads a bundle cannot be read on one of them.
Served == {[Once("sharded", 2, {}, PlacesOf({Embed}), <<<<Embed>>>>)
             EXCEPT !.maxCalls = 2, !.getRaises = raises] : raises \in BOOLEAN}
AllJobs ==
  {Job("sharded", 2, {}, TpPlaces, c) : c \in TpCheckpoints}
  \cup {Job("v4", 1, {}, V4Places, c) : c \in V4Checkpoints}
  \cup {[Job("v4", 1, {}, V4Places, c) EXCEPT !.visionExp = FALSE] : c \in V4Plain}
  \cup {Job("v41", 1, {0, 1}, V41Places, c) : c \in V41Checkpoints}
  \cup Gaps \cup Served
EngramJobs == {[Job("v41", 1, {0, 1}, V41Places, c) EXCEPT !.offloadEngram = FALSE] : c \in V41Whole}
WoAJobs == {Job("v41", 1, {0, 1}, V41Places, c) : c \in V41Split}

SomeHeads == {1, 2, 5, 7}
\* Tokens shared by the ranks, all on one rank, all on the other.
SomeRoutes == {(t1 :> {0, 2} @@ t2 :> {1, 2}), (t1 :> {0, 1} @@ t2 :> {1}),
               (t1 :> {3} @@ t2 :> {2, 3}), (t1 :> {1, 2} @@ t2 :> {0, 3})}
=============================================================================
