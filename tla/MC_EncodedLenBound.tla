-------------------------- MODULE MC_EncodedLenBound --------------------------
EXTENDS EncodedLenBound

\* Bounds at every Compact mode change below 2^30, and near the usize limit.
MCBoundValues == {0, 1, 63, 64, 2 ^ 14 - 1, 2 ^ 14, 2 ^ 20, 2 ^ 29, 2 ^ 30 - 1}

\* () and u8 .. u32 sized elements, a large blob, and one at usize::MAX.
MCElemLens == {0, 1, 4, 2 ^ 10, 2 ^ 30 - 1}

\* Map sizes at the same edges, and a few that make bound * (K + V)
\* overflow while n * (K + V) does not.
MCSizes == {0, 1, 2, 63, 64, 2 ^ 14 - 1, 2 ^ 14, 2 ^ 19, 2 ^ 20}
=============================================================================
