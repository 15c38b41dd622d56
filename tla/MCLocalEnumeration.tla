------------------------ MODULE MCLocalEnumeration ------------------------
EXTENDS LocalEnumeration

(* .b, A and a: one hidden name, and two that differ only in their bytes   *)
ThreeNames == {[hidden |-> TRUE, folded |-> 2, raw |-> 3],
               [hidden |-> FALSE, folded |-> 1, raw |-> 1],
               [hidden |-> FALSE, folded |-> 1, raw |-> 2]}
SomeKinds == {"directory", "link to directory", "broken link", "unreadable link"}
AllFailures == {"open", "read", "close"}
=============================================================================
