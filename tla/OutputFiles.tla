----------------------------- MODULE OutputFiles -----------------------------
(***************************************************************************)
(* listOutputFiles: the files of a task's working directory that a final   *)
(* report carries.  A directory tree is a numbering of its entries in the  *)
(* order readdir returns them, 1 being the directory itself: what each one *)
(* is in, what it is - a directory, a file, a file that is gone when it is *)
(* looked at, or a name that is skipped - and when it was last changed.    *)
(***************************************************************************)
EXTENDS Naturals, Sequences, FiniteSets, SequencesExt

CONSTANTS
    MaxFiles,   \* MAX_FILES
    Trees       \* bound: the directories a task leaves behind, among AllTrees

Kinds       == {"dir", "file", "gone", "skipped"}
Entries     == 1..5
AllTrees    == [parent : [Entries -> Entries], kind : [Entries -> Kinds], changed : [Entries -> Nat]]
WellFormed(tree) == \A n \in Entries \ {1} : tree.parent[n] < n /\ tree.kind[1] = "dir"

ASSUME TreesAssumption == Trees \subseteq {tree \in AllTrees : WellFormed(tree)} /\ MaxFiles \in Nat

EmptyTree == [parent  |-> [n \in Entries |-> 1],
              kind    |-> [n \in Entries |-> IF n = 1 THEN "dir" ELSE "skipped"],
              changed |-> [n \in Entries |-> 0]]

Inside(tree, n) == SelectSeq([i \in Entries |-> i], LAMBDA k : k # 1 /\ tree.parent[k] = n)

(* What is left of the room when some files have been found.  Mutant: a    *)
(* directory inside gets all the room its parent had.                      *)
RoomGiven(room, found) == room
RoomLeft(room, found)  == room - Len(found)

(* walk: what a directory adds to the list that has `room' left.           *)
Walk(tree) ==
    LET walk[n \in Entries, room \in 0..MaxFiles] ==
            FoldLeft(LAMBDA found, k :
                         IF Len(found) >= room THEN found
                         ELSE CASE tree.kind[k] = "dir"  -> found \o walk[k, RoomLeft(room, found)]
                                [] tree.kind[k] = "file" -> Append(found, k)
                                [] OTHER                 -> found,
                     <<>>, Inside(tree, n))
    IN  walk[1, MaxFiles]

(* The list is capped while it is collected, and sorted then.              *)
ListOutputFiles(tree) == SortSeq(Walk(tree), LAMBDA a, b : tree.changed[a] > tree.changed[b])

(* The files that should be considered: every directory above them is      *)
(* walked.                                                                 *)
Visible(tree) ==
    LET open[n \in Entries] == n = 1 \/ (tree.kind[n] = "dir" /\ open[tree.parent[n]])
    IN  {n \in Entries : tree.kind[n] = "file" /\ open[tree.parent[n]]}

(* Of two entries, the one that a walk in depth meets first: it, or a      *)
(* directory it is in, precedes the other, or one that is in, in the same  *)
(* directory.                                                              *)
Precedes(tree, a, b) ==
    LET above[n \in Entries] == IF n = 1 THEN {} ELSE {n} \cup above[tree.parent[n]]
    IN  \E x \in above[a], y \in above[b] : tree.parent[x] = tree.parent[y] /\ x < y

(* The list of a directory: files worth considering, each once, the latest *)
(* first, all of them if there are no more than MAX_FILES and that many    *)
(* otherwise.  Those it has no room for are the ones a walk in depth finds *)
(* last.                                                                   *)
IsListing(files, tree) ==
    /\ ToSet(files) \subseteq Visible(tree)
    /\ Len(files) = Cardinality(ToSet(files))
    /\ Len(files) = IF Cardinality(Visible(tree)) <= MaxFiles
                    THEN Cardinality(Visible(tree)) ELSE MaxFiles
    /\ \A i, j \in 1..Len(files) : i < j => tree.changed[files[i]] >= tree.changed[files[j]]
    /\ \A n \in ToSet(files), m \in Visible(tree) \ ToSet(files) : Precedes(tree, n, m)

(* None is left out for one that was changed earlier.                      *)
HoldsLatest(files, tree) ==
    \A n \in ToSet(files), m \in Visible(tree) \ ToSet(files) : tree.changed[n] >= tree.changed[m]
=============================================================================
