--------------------------- MODULE MCDeduplication ---------------------------
(***************************************************************************)
(* Model-checking definitions for Deduplication: postings that hit every   *)
(* rule of the canonical forms.  The titles be ~ bd ~ dd form a chain      *)
(* whose ends are not alike.                                               *)
(***************************************************************************)
EXTENDS Deduplication

be == <<"backend", "engineer">>
bd == <<"backend", "developer">>
dd == <<"data", "developer">>

MCAlike == {{be, bd}, {bd, dd}}

page == [host |-> "acme", path |-> "jobs/1", query |-> ""]
pageWithQuery == [page EXCEPT !.query = "src=board"]
pathOnly == [page EXCEPT !.host = ""]

(* A posting without a location is a remote one. *)
Posting(title, company, location, employer, extra) ==
    [title |-> title, company |-> company, location |-> location, employer |-> employer,
     remote |-> location = <<>>, extra |-> extra]

MCPostings ==
    {Posting(t, <<"acme">>, l, u, {}) :
        t \in {be, bd, dd}, l \in {<<>>, <<"bangalore", "in">>}, u \in {NoUrl, page}}
    \cup
    {Posting(<<"senior">> \o be, <<"acme", "pvt", "ltd">>, <<"bengaluru", "india">>, NoUrl, {"salary"}),
     Posting(bd, <<"acme", "inc">>, <<"austin", "tx">>, pageWithQuery, {"salary"}),
     Posting(be, <<"other">>, <<>>, pageWithQuery, {}),
     Posting(dd, <<"other">>, <<"london">>, pathOnly, {"salary"}),
     Posting(<<>>, <<>>, <<"london">>, page, {"salary"}),
     Posting(<<"senior">>, <<>>, <<"london">>, NoUrl, {})}

(* Every list of up to three of these, and of four of a selection where     *)
(* merges of all three stages meet.                                         *)
Selection ==
    {Posting(t, <<"acme">>, l, NoUrl, {}) : t \in {be, bd, dd}, l \in {<<>>, <<"bangalore", "in">>}}
    \cup {Posting(dd, <<"acme">>, <<>>, page, {"salary"}),
          Posting(be, <<"other">>, <<>>, pageWithQuery, {})}
MCInputs == (UNION {[1..n -> MCPostings] : n \in 1..3}) \cup [1..4 -> Selection]

(* No embeddings, or embeddings that set one pair of the first three apart. *)
MCApart == {{}} \cup {{e} : e \in {{1, 2}, {1, 3}, {2, 3}}}

(* Four postings for the embedding gate, which one duplicate shifts. *)
FewPostings == {Posting(t, <<"acme">>, <<>>, NoUrl, {}) : t \in {be, dd}}
    \cup {Posting(be, <<"acme">>, <<"london">>, NoUrl, {})}
FewApart == {{{3, 4}}}
FewInputs == UNION {[1..n -> FewPostings] : n \in 1..4}
=============================================================================
