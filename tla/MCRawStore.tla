----------------------------- MODULE MCRawStore -----------------------------
(***************************************************************************)
(* RawStore for TLC: a fetch returns one or two rows, the same id twice    *)
(* included.  One content may come without an id.                          *)
(***************************************************************************)
EXTENDS RawStore, FiniteSets

MCRow == [id : Keys, val : Vals] \cup [id : {NoId}, val : Vals \ Blanks]

MCBatches == UNION {[1 .. n -> MCRow] : n \in 1 .. 2}
=============================================================================
