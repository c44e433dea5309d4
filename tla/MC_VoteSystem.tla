--------------------------- MODULE MC_VoteSystem ---------------------------
(* Requests for one candidate after requests for one of more digits, an    *)
(* inquiry, a response, noise, and two requests at once.                   *)
EXTENDS VoteSystem

Request(k) == [kind |-> "request", isInquiry |-> FALSE, candidate |-> k]
Inquiry(k) == [kind |-> "request", isInquiry |-> TRUE, candidate |-> k]
Other(s)   == [kind |-> s, isInquiry |-> FALSE, candidate |-> 12]

OneRequest == {<<Request(3)>>, <<Request(12)>>, <<Inquiry(3)>>}
Some == OneRequest \cup {<<Other("response")>>, <<Other("noise")>>,
                         <<Request(12), Request(3)>>, <<Request(12), Inquiry(3)>>,
                         <<Inquiry(12), Other("noise")>>}
=============================================================================
