------------------------- MODULE MCConfluenceIngest -------------------------
(* TLC instance of ConfluenceIngest: a page has three chunks of text, after a *)
(* first edit none, after a second one; editing a moves it to the front of    *)
(* the search or to its end.                                                  *)
EXTENDS ConfluenceIngest

CONSTANTS a, b, f

MCPages == {a, b, f}
MCOrders == {<<a, b, f>>, <<b, f, a>>}
MCLength == <<3, 0, 1>>
MCSize == [model |-> 2, hash |-> 1]
=============================================================================
