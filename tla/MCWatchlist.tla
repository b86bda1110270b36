---------------------------- MODULE MCWatchlist ----------------------------
(***************************************************************************)
(* A shop for Watchlist.  Its page changes in case, in the order and the   *)
(* number of what it lists, and loses its headline; or it says nothing.    *)
(***************************************************************************)
EXTENDS Watchlist

T(word, look) == [word |-> word, look |-> look]
WatchTexts ==
    [word : {"serum", "shop", "about", "buy", "20% off", "vegan", "clean", "cheap", "reviews"},
     look : {"plain", "upper"}]

Sale ==
    [headings |-> <<T("serum", "plain")>>, title |-> T("shop", "plain"),
     labels |-> <<[text |-> T("about", "plain"), known |-> FALSE], [text |-> T("buy", "plain"), known |-> TRUE]>>,
     phrase |-> Null, offer |-> T("20% off", "plain"), positioning |-> Null, metaDescription |-> Null,
     benefits |-> <<T("vegan", "plain"), T("clean", "plain")>>, trust |-> <<>>]
Shouted == [Sale EXCEPT !.headings = <<T("serum", "upper")>>, !.benefits = <<T("clean", "plain"), T("vegan", "plain"), T("cheap", "plain")>>]
Headless == [Sale EXCEPT !.headings = <<>>, !.title = Null, !.offer = Null, !.trust = <<T("reviews", "plain")>>]

Empty == [headings |-> <<>>, title |-> Null, labels |-> <<>>, phrase |-> Null, offer |-> Null,
          positioning |-> Null, metaDescription |-> Null, benefits |-> <<>>, trust |-> <<>>]

WatchUrls == {"shop"}
WatchPages == [url \in WatchUrls |-> {Sale, Shouted, Headless, Empty}]
WatchStored == {<<Item(1, "shop")>>}
=============================================================================
