------------------------- MODULE MCBufferCollection -------------------------
(* Two files, one of which has two names, for the model checker.           *)
EXTENDS BufferCollection, TLC

CONSTANTS f1, f2, b1, b2

MCNames == {"n1", "alias", "n2"}
MCCanon == "n1" :> f1 @@ "alias" :> f1 @@ "n2" :> f2

\* A file of two chunks, one of a single chunk or none, and edits unlike both.
MCStored == f1 :> {<< b1, b2 >>} @@ f2 :> {<< b1 >>, Absent}
MCEdited == {<< b2, b2 >>}

\* A '!', and a character of two bytes.
MCTyped == {<< "bang" >>, << "first", "second" >>}
=============================================================================
