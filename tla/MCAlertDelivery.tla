--------------------------- MODULE MCAlertDelivery ---------------------------
(* AlertDelivery on small instances. *)
EXTENDS AlertDelivery

CONSTANTS s1, s2

\* The topics were followed one after the other.
FollowTimes == [s \in Topics \cup Authors |-> IF s = "old" THEN 1 ELSE 2]

\* The first post is a blog's; the others may tell its story again, or another,
\* in a blog or in both topics.
ThreePosts ==
    LET later == [story : {s1, s2}, from : {{"blogs"}, {"old", "new"}}] IN
    [i \in Items |-> IF i = 1 THEN [story : {s1}, from : {{"blogs"}}] ELSE later]

\* Posts of one blog, each a story.
OneBlog == [i \in Items |-> [story : {i}, from : {{"blogs"}}]]
=============================================================================
