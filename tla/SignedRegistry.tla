--------------------------- MODULE SignedRegistry ---------------------------
(***************************************************************************)
(* What the registry and its clients promise, without points, sums, cached *)
(* aggregates or transactions: members join and are dismissed, and a check *)
(* succeeds exactly if the keys that signed are the members it names.      *)
(* SigningRound implements it.                                             *)
(*                                                                         *)
(* A check names members by their positions, counted from 0: it names the  *)
(* members at the given positions, or all but those, or all of them.       *)
(***************************************************************************)
EXTENDS Integers, Sequences

CONSTANTS Keys, Clients

VARIABLES
    members,   \* the keys of the registry, in the order they joined
    requests,  \* requests[c]: what c has asked for and not been answered
    verdict    \* the answer given last

vars == <<members, requests, verdict>>

Naming == {"only", "allBut", "all", "allOfSeveral"}

Init ==
    /\ members = <<>>
    /\ requests = [c \in Clients |-> <<>>]
    /\ verdict = "none"

\* A client asks for one thing more.
Ask(c) ==
    /\ requests'[c] # <<>>
    /\ LET asked == requests'[c][Len(requests'[c])] IN
          /\ requests' = [requests EXCEPT ![c] = Append(@, asked)]
          /\ \/ asked.kind = "join" /\ asked.key \in Keys
             \/ asked.kind = "dismiss"
             \/ asked.kind \in Naming /\ asked.signers \subseteq Keys
    /\ UNCHANGED <<members, verdict>>

\* The members at these positions, each position being one of the registry.
Positions == 0 .. Len(members) - 1
At(positions) == {members[i + 1] : i \in positions}

Named(check) ==
    At({i \in Positions :
           \/ check.kind = "only" /\ i \in check.positions
           \/ check.kind = "allBut" /\ i \notin check.positions
           \/ check.kind \in {"all", "allOfSeveral"}})

Holds(check) ==
    /\ check.positions \subseteq Positions
    /\ check.kind = "allOfSeveral" => Len(members) > 1
    /\ check.signers = Named(check)

\* The one thing left open: an empty registry asked for all but some.
LeftOpen(check) == members = <<>> /\ check.kind = "allBut"

Answer(c) ==
    /\ requests[c] # <<>>
    /\ requests' = [requests EXCEPT ![c] = Tail(@)]
    /\ LET next == Head(requests[c]) IN
          \/ /\ next.kind = "join"
             /\ members' = Append(members, next.key)
             /\ verdict' = "success"
          \/ /\ next.kind = "dismiss"
             /\ members' = <<>>
             /\ verdict' = "success"
          \/ /\ next.kind \in Naming
             /\ members' = members
             /\ \/ verdict' = IF Holds(next) THEN "success" ELSE "failure"
                \/ LeftOpen(next) /\ verdict' \in {"success", "failure"}

Next == \E c \in Clients : Ask(c) \/ Answer(c)

Spec == Init /\ [][Next]_vars

=============================================================================
