---------------------------- MODULE MCRsyncDelta ----------------------------
(***************************************************************************)
(* RsyncDelta for TLC: every file up to a length.  With blocks of 3 bytes  *)
(* over 0..2 different blocks have the same rolling checksum, such as      *)
(* 1 0 1 and 0 2 0.                                                        *)
(***************************************************************************)
EXTENDS RsyncDelta

FilesUpTo(n) == UNION {[1..l -> Byte] : l \in 0..n}

\* Every file of at most one block, and some of two or three blocks, the last
\* of them short.
MCOldFiles ==
  FilesUpTo(3) \cup {<<1, 0, 1, 0, 2, 0>>, <<0, 2, 0, 1, 0, 1>>, <<1, 1, 1, 1>>,
                     <<0, 0, 0, 0, 0, 1, 2>>}
MCNewFiles == FilesUpTo(6)

\* A shorter file, and one of two blocks of other bytes.
MCRewritten == {<<0>>, <<2, 2, 2, 2, 1>>}
=============================================================================
