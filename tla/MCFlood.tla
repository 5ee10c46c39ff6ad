------------------------------- MODULE MCFlood -------------------------------
EXTENDS Page

\* The second stage is warned of when the first one fills.  The first takes three
\* corners, so that it is left open which, the second one corner and the edges.
MCWarn == <<1, 2>>
MCFill == <<2, 3>>
MCCount == <<3, 5>>
=============================================================================
