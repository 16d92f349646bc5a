--------------------------- MODULE MC_WorkQueue ---------------------------
(* Model-checking instance of WorkQueue: beads and processes are model     *)
(* values given in the .cfg files.                                         *)
EXTENDS WorkQueue, TLC

\* Beads are interchangeable, and so are dispatchers: Init treats every
\* member alike and no action names one.
Symmetry == Permutations(Beads) \cup Permutations(Dispatchers)

\* Every bead is returned by bd ready in the one directory.
MCOneDir == [b \in Beads |-> CHOOSE t \in Dirs : TRUE]

\* Each bead lives in a directory of its own (a rig's store each).
MCSplitDirs ==
    CHOOSE f \in [Beads -> Dirs] : \A x, y \in Beads : x # y => f[x] # f[y]

\* With split directories, beads are interchangeable only together with
\* their directories: a permutation of beads carries each bead's
\* directory to the directory of its image.
DirsWith(p) ==
    [x \in Beads \cup Dirs |->
        IF x \in Beads THEN p[x]
        ELSE MCSplitDirs[p[CHOOSE b \in Beads : MCSplitDirs[b] = x]]]
SplitSymmetry ==
    {DirsWith(p) : p \in Permutations(Beads)} \cup Permutations(Dispatchers)
=============================================================================
