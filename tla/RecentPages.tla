----------------------------- MODULE RecentPages -----------------------------
(***************************************************************************)
(* What the web cache of NetworkProtocols/LRU.cpp promises: the pages of   *)
(* the Cap URLs requested last are kept, in the order of their last        *)
(* requests, and a URL whose page is kept is not fetched again.            *)
(***************************************************************************)
EXTENDS Naturals, Sequences

CONSTANTS Url, Response, Cap

VARIABLES
    request,   \* the URL requested last
    pages      \* <<url, response>>, the most recently requested first

Kept(u) == \E i \in DOMAIN pages : pages[i][1] = u

Init == request \notin Url /\ pages = <<>>

\* The i-th page goes to the front, the others keep their order.
ToFront(i) ==
    <<pages[i]>> \o SubSeq(pages, 1, i - 1) \o SubSeq(pages, i + 1, Len(pages))

Serve(u) ==
    /\ request' = u
    /\ \E i \in DOMAIN pages : pages[i][1] = u /\ pages' = ToFront(i)

Fetch(u) ==
    /\ ~Kept(u)
    /\ request' = u
    /\ \E r \in Response :
        pages' = SubSeq(<<<<u, r>>>> \o pages, 1,
                        IF Len(pages) < Cap THEN Len(pages) + 1 ELSE Cap)

Next == \E u \in Url : Serve(u) \/ Fetch(u)

Spec == Init /\ [][Next]_<<request, pages>>
=============================================================================
