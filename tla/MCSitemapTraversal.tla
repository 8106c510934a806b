----------------------- MODULE MCSitemapTraversal -----------------------
(* Every site of three documents. *)
EXTENDS SitemapTraversal

ThreeDocs == {"a", "b", "c"}
ThreePages == {"p", "q", "r"}
Overlapping == [d \in ThreeDocs |-> CASE d = "a" -> {"p"}
                                      [] d = "b" -> {"p", "q"}
                                      [] d = "c" -> {"r"}]

Wide == [explicit |-> <<"a">>, others |-> <<"b">>, list |-> FALSE,
         maxDocuments |-> 3, maxRedirects |-> 1, maxUrls |-> 3]
Tight == [Wide EXCEPT !.maxDocuments = 2, !.maxUrls = 2]
List == [Wide EXCEPT !.explicit = <<"a", "b">>, !.others = <<>>, !.list = TRUE,
                     !.maxRedirects = 2, !.maxUrls = 2]
Explicit == [Wide EXCEPT !.explicit = <<"a", "b">>, !.others = <<>>]

WideTightAndList == {Wide, Tight, List}
ExplicitOnly == {Explicit}
=============================================================================
