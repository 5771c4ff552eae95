----------------------------- MODULE Phase1Table -----------------------------
(***************************************************************************)
(* The candidate table of the scan screen (Phase1Widget in src/src/ui.cpp),*)
(* as operators on its rows: a function from every MAC to what its row     *)
(* shows.  Two helpers insert a row only where there is none, which is why *)
(* an old row decides what the next detection of that MAC looks like.      *)
(***************************************************************************)

CONSTANTS
    Mac,
    RandomMac   \* the locally administered ones among Mac

\* "candidate" has a register button, "random" a label that says it cannot be
\* registered, "registered" a badge and a change button.
RowKind   == {"none", "candidate", "random", "registered"}
RowsTable == [Mac -> RowKind]
NoRows    == [m \in Mac |-> "none"]

isRandom(m) == m \in RandomMac

addCandidate(rows, m) ==
    IF rows[m] # "none" THEN rows
    ELSE [rows EXCEPT ![m] = IF isRandom(m) THEN "random" ELSE "candidate"]

showDuplicateNotice(rows, m) ==
    IF rows[m] # "none" THEN rows ELSE [rows EXCEPT ![m] = "registered"]

removeCandidate(rows, m) == [rows EXCEPT ![m] = "none"]

clearRegistered_all(rows) == [m \in Mac |-> "none"]    \* mutant
\* Keeps the rows whose last cell is a bare button, the register button.
clearRegistered(rows) ==
    [m \in Mac |-> IF rows[m] = "candidate" THEN rows[m] ELSE "none"]
=============================================================================
