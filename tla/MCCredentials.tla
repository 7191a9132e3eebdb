---------------------------- MODULE MCCredentials ----------------------------
(* An instance of Credentials.  Administrators are interchangeable, and so    *)
(* are accounts: the first set is the one of a1, of account x.                *)
EXTENDS Credentials

CONSTANTS a1, x

AllKinds == {"ncm", "bili", "qq"}

First ==
  attempts = 0 /\ attempts' = 1 => sets'[a1].pc # "idle" /\ sets'[a1].payload.account = x

FirstSpec == Init /\ [][Next /\ First]_vars /\ Fairness
=============================================================================
