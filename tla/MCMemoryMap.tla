---------------------------- MODULE MCMemoryMap ----------------------------
(* Instances of MemoryMap: two processes, a GPT that spans sections (ga) and *)
(* two that span the pages of one section (gb and gd).                       *)
EXTENDS MemoryMap, TLC

CONSTANTS p, q, ga, gb, gd, px, py, c1, c2

To(o) == [obj |-> o, ro |-> FALSE]
RoTo(o) == [obj |-> o, ro |-> TRUE]

\* A slot of ga spans a small space, so that its other slot is beyond it.
TwoLevels == ga :> 4 @@ gb :> 1 @@ gd :> 1

\* The slots of one GPT have the same tag.
Tags == [s \in Slot |-> CASE s[1] = p -> 1 [] s[1] = q -> 2 [] s[1] = ga -> 3
                         [] s[1] = gb -> 4 [] OTHER -> 5]

Tree == <<p, 0>> :> To(ga) @@ <<q, 0>> :> RoTo(gd)
        @@ <<ga, 0>> :> To(gb) @@ <<ga, 1>> :> VoidKey
        @@ <<gb, 0>> :> To(px) @@ <<gb, 1>> :> To(px)
        @@ <<gd, 0>> :> To(py) @@ <<gd, 1>> :> VoidKey

SoundKeys == [s \in Slot |->
    CASE s = <<q, 0>> -> {RoTo(gd), To(gb)}
      [] s = <<ga, 0>> -> {To(gb), RoTo(gd)}
      [] s = <<ga, 1>> -> {VoidKey, To(gb)}
      [] s = <<gb, 0>> -> {To(px), VoidKey}
      [] OTHER -> {Tree[s]}]
OwnAddresses == p :> {0} @@ q :> {0, 1}

\* A process whose tree is small refers to an address in the second section.
SmallTree == <<q, 0>> :> To(gb) @@ Tree
SmallTreeKeys == [s \in Slot |-> {SmallTree[s]}]
FarAddresses == p :> {} @@ q :> {0, 2}

\* A page that can be reached read-only is not pinned.
ReadOnlyTree == <<q, 0>> :> To(gd) @@ <<gd, 0>> :> RoTo(py) @@ Tree
ReadOnlyKeys == [s \in Slot |-> {ReadOnlyTree[s]}]
OneAddress == p :> {} @@ q :> {0}
=============================================================================
