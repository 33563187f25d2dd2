----------------------------- MODULE MCTaskRun -----------------------------
(* TaskRun with a few events and trees.                                    *)
EXTENDS TaskRun, TLC

Symmetry == Permutations(Calls)

(* A result, with a token counter that looks like a rate limit when it is  *)
(* torn, and a limit told with its reset time.                             *)
MCEvents == {[tells |-> {"session", "result"}, looks |-> "rest"],
             [tells |-> {"limit", "reset"}, looks |-> "head"]}

(* Two levels, a file before a directory, and a file more than the list    *)
(* holds: the last found is the latest, or not; a directory is skipped and *)
(* a file is gone.                                                         *)
MCTrees ==
    {[parent |-> <<1, 1, 1, 3, 3>>, kind |-> <<"dir", "file", k, g, "file">>, changed |-> c] :
        <<k, g, c>> \in {<<"dir", "file", <<0, 1, 0, 2, 3>>>>, <<"dir", "gone", <<0, 3, 0, 1, 2>>>>,
                         <<"skipped", "file", <<0, 3, 0, 1, 2>>>>}}

(* `The list is sorted by last modification descending and capped at       *)
(* MAX_FILES, so the most recently changed files (the actual task result)  *)
(* always come first' (list-output-files.ts:23-26).  They do not: the walk *)
(* stops when it has found that many, and only those are sorted.           *)
LargeTree == [parent  |-> <<1, 1, 1, 1, 1>>,
              kind    |-> <<"dir", "file", "file", "file", "file">>,
              changed |-> <<0, 1, 2, 3, 4>>]
ASSUME LatestMayBeMissing ==
    LET files == ListOutputFiles(LargeTree)
    IN  IsListing(files, LargeTree) /\ ~HoldsLatest(files, LargeTree)
=============================================================================
