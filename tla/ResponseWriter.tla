--------------------------- MODULE ResponseWriter ---------------------------
(***************************************************************************)
(* The response as one script sees it: sendStatus, sendHeader and          *)
(* sendCookie fill the head, the first body byte commits it.               *)
(***************************************************************************)
EXTENDS Naturals, Sequences

\* heads: the heads the commit closure was called with; body: bytes written.
NewWriter == [status |-> 200, set |-> FALSE, headers |-> <<>>,
              cookies |-> <<>>, committed |-> FALSE, heads |-> <<>>, body |-> 0]

SetStatus(w, status) == [w EXCEPT !.status = status, !.set = TRUE]
AddHeader(w, h)      == [w EXCEPT !.headers = Append(@, h)]
AddCookie(w, k)      == [w EXCEPT !.cookies = Append(@, k)]

\* The cookies are rendered behind the headers.
HeadSnapshot(w) == [status |-> w.status, headers |-> w.headers \o w.cookies]

\* Slip: the head is committed again by every write.
WriteCommitsAgain(w, delivered) ==
    [w EXCEPT !.committed = TRUE, !.heads = Append(@, HeadSnapshot(w)),
              !.body = IF delivered THEN @ + 1 ELSE @]

\* The first write hands the head to the commit closure and empties it; a
\* write that finds the client gone has still committed.
Write(w, delivered) ==
    LET sent == IF delivered THEN w.body + 1 ELSE w.body IN
    IF w.committed THEN [w EXCEPT !.body = sent]
    ELSE [w EXCEPT !.committed = TRUE, !.heads = Append(@, HeadSnapshot(w)),
                   !.headers = <<>>, !.cookies = <<>>, !.body = sent]

\* n writes that are delivered, one after the other.
Writes(w, n) == IF n = 0 THEN w ELSE [Write(w, TRUE) EXCEPT !.body = w.body + n]
=============================================================================
