------------------------------ MODULE MCUpdate ------------------------------
(* Small instances of Update: SemVer's own chain of prereleases, cut to    *)
(* the places where its order is not the alphabet's.                       *)
EXTENDS Update, TLC

CONSTANTS r1, r2, r3

Number(n) == [number |-> TRUE, value |-> n]
Word(n) == [number |-> FALSE, value |-> n]
Version(core, pre) == [core |-> core, pre |-> pre]

Dev == Version(<<>>, <<>>)
Beta2 == Version(<<1, 0, 0>>, <<Word(2), Number(2)>>)
Beta11 == Version(<<1, 0, 0>>, <<Word(2), Number(11)>>)
One == Version(<<1, 0, 0>>, <<>>)

MCInstalled == {Dev, Beta2}
MCReleases == {Beta11, One}
MCSymmetry == Permutations(Runs \ DryRuns)
=============================================================================
