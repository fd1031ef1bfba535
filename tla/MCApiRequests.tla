----------------------------- MODULE MCApiRequests -----------------------------
(* ApiRequests for TLC: one client address, and one email that is spelled in *)
(* two ways, with a different password each. Faults come one kind at a time, *)
(* with the routes that they can disturb.                                    *)
EXTENDS ApiRequests, TLC

MCEmail     == {"a", "A"}
MCLowered   == [e \in MCEmail |-> "a"]
MCForm      == {[email |-> "a", password |-> "p1"], [email |-> "A", password |-> "p2"]}
MCSeeded    == {[email |-> "a", password |-> "p1"]}
MCIdentity  == Ip \cup {"a"}
MCLimitName == {"register_ip", "login_ip", "login_email"}

\* Of three logins, the second passes the first limit and not the second.
MCLimit         == [n \in MCLimitName |-> IF n = "login_ip" THEN 2 ELSE 1]
MCWindowSeconds == [n \in MCLimitName |-> 2]

MCScenarios ==
  { {"register", "reply_lost", "unreachable"},
    {"register", "restart"},
    {"register", "token", "db_error"},
    {"register", "api_killed"},
    {"token", "endpoints", "delete", "db_error"},
    {"endpoints", "delete", "api_killed"} }

RequestSymmetry == Permutations(Request)
=============================================================================
