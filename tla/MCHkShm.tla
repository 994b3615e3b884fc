------------------------------ MODULE MCHkShm ------------------------------
(* Small instances of HkShm for TLC, and the mutants of its definitions.    *)
EXTENDS HkShm, TLC

\* A checksum without collisions: the payload itself, tagged.
MCCrc32(d) == <<"crc", d>>
MCZeroCrc  == <<"zeroed">>

\* A segment that has its tags may hold any uint32_t.  Of a build with a larger ring:
\* an index past this one, which the check at the start of Get is for, up to the
\* last but one that fits in an int.  Of no build: the last one that does, and -1.
MCInitIndexes == {0, N, Wrap \div 2 - 1, Wrap - 1}
MCIndexesOfBuilds == {0, Wrap \div 2 - 2}
MCIndexZero == {0}

\* Writers differ only in name, and so do the words of a payload.
Symmetry == Permutations(Writers) \cup Permutations(Words)
=============================================================================
