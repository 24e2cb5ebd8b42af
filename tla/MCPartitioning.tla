----------------------------- MODULE MCPartitioning -----------------------------
(* Partitioning for TLC: disks with room for three slots of 17 grains, tables    *)
(* that FormatDisks made and five that it did not, and requests that match     *)
(* them, differ in size, type or number, or ask for what cannot be.              *)
EXTENDS Partitioning

CONSTANTS d1, d2

P(s, e) == [start |-> s * Grain, end |-> (e + 1) * Grain - 1]

MCLayouts == {
    <<>>,
    <<P(17, 26), P(34, 43)>>,
    <<P(17, 26), P(34, 43), P(51, 57)>>,
    <<P(1, 16), P(17, 50)>>,
    <<P(2, 2), P(3, 58)>>,
    2 :> P(3, 58),
    2 :> P(20, 30),
    1 :> P(16, 26) @@ 3 :> P(34, 43) }

W(fs, size) == [fs |-> fs, size |-> size]
On(d, parts) == [disk |-> d, parts |-> parts]

MCRequests == {
    << On(d1, <<W("ntfs", 10)>>), On(d2, <<W("ntfs", 10)>>) >>,
    << On(d1, <<W("ntfs", 10), W("fat32", 10)>>) >>,
    << On(d1, <<W("ntfs", 40), W("ext4", 5)>>) >>,
    << On(d1, <<W("ntfs", 11), W("ntfs", 15)>>) >>,
    << On(d1, <<W("ntfs", 10), W("ntfs", 60)>>) >>,
    << On(d1, <<W("btrfs?", 10)>>) >> }
================================================================================
