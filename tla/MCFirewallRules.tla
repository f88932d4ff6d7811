-------------------------- MODULE MCFirewallRules --------------------------
(* Small instances of FirewallRules for TLC.                               *)
EXTENDS FirewallRules, TLC

CONSTANTS ip1, ip2, app1, app2

\* Addresses and applications are interchangeable.
Interchangeable == Permutations(Addrs) \cup Permutations(Apps)

\* At most one address was raced for, one pair added twice or one command not
\* written, which used an id that no rule has, or a screen was below another.
OneMishap ==
    LET below == IF stale \/ covered # <<>> THEN 1 ELSE 0
        known == Cardinality(raced) + Cardinality(doubled) + below
    IN  known + Cardinality(unsaved) <= 1 /\ known + Cardinality(lost) <= 1
=============================================================================
