---------------------------- MODULE MCFileSystem ----------------------------
(***************************************************************************)
(* Two paths, the standard files and one more; the program writes one or   *)
(* two bytes.                                                              *)
(***************************************************************************)
EXTENDS FileSystem

MCPath == {"a", "b"}
MCName == {"in", "out", "err", "f"}
W(k)    == <<"written", k>>
MCChunk == {<<W(1)>>, <<W(1), W(2)>>}
=============================================================================
