--------------------------- MODULE MC_ResearchFeed ---------------------------
(* Small instances of ResearchFeed: the artifacts of a stock, by what the feed sorts them by. *)
EXTENDS ResearchFeed, TLC

CONSTANTS info, important, newer

\* "newer" is a later version of what "info" was about.
MCGroup == [s \in Sources |-> IF s = important THEN "event" ELSE "peer"]
MCAttention == [s \in Sources |-> IF s = important THEN 3 ELSE 1]
MCId == [s \in Sources |-> IF s = info THEN 1 ELSE IF s = important THEN 2 ELSE 3]

MCSymmetry == Permutations(Sessions)
=============================================================================
