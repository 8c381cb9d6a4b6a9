---------------------------- MODULE MCChatDelivery ----------------------------
(* Small instances of ChatDelivery for TLC.                                *)
EXTENDS ChatDelivery

\* Devices, accounts and message ids are interchangeable.
Symmetry ==
  Permutations(Devices) \cup Permutations(Users) \cup Permutations(Messages)

Untouched(d) == session[d] = NoUser /\ observed[d] = {} /\ connNo[d] = 0
Brief(d) == connNo[d] <= 1 /\ crashes[d] = 0 /\ Cardinality(observed[d]) <= 1

\* Bound: either one phone does everything, or several phones keep a single
\* connection and user each, without crashes.
OneOrBrief ==
  \/ \E d \in Devices : \A e \in Devices \ {d} : Untouched(e)
  \/ \A d \in Devices : Brief(d)

\* Bound: logins whose listens are revoked before they are answered could raise
\* the counter for ever.
FewRequests == \A d \in Devices : unacked[d] <= 3

=============================================================================
